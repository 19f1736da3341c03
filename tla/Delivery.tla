------------------------------ MODULE Delivery ------------------------------
(***************************************************************************)
(* Invoices that were asked for by mail (services/fiscalMail.js): the row  *)
(* of a delivery is written with its invoice, the mail is sent after it    *)
(* without anybody waiting, and a nightly sweep tries what is not sent, at *)
(* most MaxAttempts times.                                                 *)
(*                                                                         *)
(* A sender reads the row, sends, and records: three steps with no claim   *)
(* on the row, so another sender may be sending the same mail, and any of  *)
(* them may die between two steps, together with the rest of its sweep.    *)
(***************************************************************************)
EXTENDS Naturals, Sequences
LOCAL INSTANCE SequencesExt

CONSTANTS
  Docs,           \* deliveries, numbered in the order they are written
  Senders,        \* background sends and sweeps at once
  MaxAttempts,
  Limit,          \* deliveries one sweep takes
  NoMail

ASSUME DeliveryAssumption ==
  /\ Docs \subseteq Nat /\ MaxAttempts \in Nat \ {0} /\ Limit \in Nat \ {0}

VARIABLES
  mails,      \* fiscal_invoice_deliveries
  senders     \* what each sender still has to try, and where it is

mailVars == <<mails, senders>>

Delivering == [queue : Seq(Docs), step : {"TAKE", "SEND", "SENT", "REFUSED"}]

DeliveryTypeOK ==
  /\ mails \in [Docs -> [status : {"PENDING", "SENT", "FAILED"}, attempts : Nat] \cup {NoMail}]
  /\ senders \in [Senders -> Delivering \cup {NoMail}]

DeliveryInit ==
  /\ mails = [d \in Docs |-> NoMail]
  /\ senders = [s \in Senders |-> NoMail]

-----------------------------------------------------------------------------
Exhausted(d) == mails[d].attempts >= MaxAttempts

(* Wrong: only what was tried and refused is tried again.                  *)
PendingIfFailed == {d \in Docs : mails[d] # NoMail /\ mails[d].status = "FAILED" /\ ~Exhausted(d)}
Pending == {d \in Docs : mails[d] # NoMail /\ mails[d].status # "SENT" /\ ~Exhausted(d)}

Starts(s, queue) ==
  /\ senders[s] = NoMail
  /\ senders' = [senders EXCEPT ![s] = [queue |-> queue, step |-> "TAKE"]]

(* With the invoice, in its transaction.                                   *)
Schedule(d) ==
  /\ mails[d] = NoMail
  /\ mails' = [mails EXCEPT ![d] = [status |-> "PENDING", attempts |-> 0]]

(* Nobody waits for the mail ...                                           *)
DeliverInBackground(d, s) == Schedule(d) /\ Starts(s, <<d>>)

(* ... nor is it sent when the process dies first.                         *)
ScheduleAndDie(d) == Schedule(d) /\ UNCHANGED senders

(* The oldest first.                                                       *)
SweepPending(s) ==
  LET oldest == SetToSortSeq(Pending, <)
  IN  /\ Pending # {}
      /\ Starts(s, SubSeq(oldest, 1, IF Len(oldest) < Limit THEN Len(oldest) ELSE Limit))
      /\ UNCHANGED mails

Doing(s, step) == senders[s] # NoMail /\ senders[s].step = step
Current(s) == Head(senders[s].queue)
Moves(s, step) == senders' = [senders EXCEPT ![s].step = step]
GoesOn(s) ==
  senders' = [senders EXCEPT ![s] =
    IF Len(@.queue) = 1 THEN NoMail ELSE [queue |-> Tail(@.queue), step |-> "TAKE"]]

(* The row as it is now: sent or given up meanwhile.                       *)
Pass(s) ==
  /\ Doing(s, "TAKE")
  /\ mails[Current(s)].status = "SENT" \/ Exhausted(Current(s))
  /\ GoesOn(s) /\ UNCHANGED mails

Take(s) ==
  /\ Doing(s, "TAKE")
  /\ mails[Current(s)].status # "SENT" /\ ~Exhausted(Current(s))
  /\ Moves(s, "SEND") /\ UNCHANGED mails

(* mailer.send never throws: it was sent, or it was not.                   *)
Send(s, sent) ==
  /\ Doing(s, "SEND")
  /\ Moves(s, IF sent THEN "SENT" ELSE "REFUSED")
  /\ UNCHANGED mails

(* Whatever the row says by now.                                           *)
Record(s) ==
  /\ Doing(s, "SENT") \/ Doing(s, "REFUSED")
  /\ mails' = [mails EXCEPT ![Current(s)] =
       [status |-> IF Doing(s, "SENT") THEN "SENT" ELSE "FAILED", attempts |-> @.attempts + 1]]
  /\ GoesOn(s)

(* The process dies, or the database refuses a statement, which ends the   *)
(* whole sweep.                                                            *)
Cut(s) ==
  /\ senders[s] # NoMail
  /\ senders' = [senders EXCEPT ![s] = NoMail]
  /\ UNCHANGED mails

Attempt(s) == Pass(s) \/ Take(s) \/ (\E sent \in BOOLEAN : Send(s, sent)) \/ Record(s)

DeliveryStep ==
  \/ \E d \in Docs : ScheduleAndDie(d) \/ \E s \in Senders : DeliverInBackground(d, s)
  \/ \E s \in Senders : SweepPending(s) \/ Attempt(s) \/ Cut(s)

DeliverySpec == DeliveryInit /\ [][DeliveryStep]_mailVars

(* The sweep is run again and again, and is not cut for ever at the same   *)
(* step.                                                                   *)
Trying == \E s \in Senders : Take(s)
Sending == \E s \in Senders, sent \in BOOLEAN : Send(s, sent)
Recording == \E s \in Senders : Record(s)
Sweeping == \E s \in Senders : SweepPending(s)

-----------------------------------------------------------------------------
MailDone(d) == mails[d] # NoMail => mails[d].status = "SENT" \/ Exhausted(d)

(* "Sin este barrido esa factura no se mandaria nunca": a mail that was    *)
(* scheduled is sent, or was tried as often as allowed, and stays so,      *)
(* however the senders die, overlap and overwrite what they recorded.      *)
MailSettles ==
  \A d \in Docs : mails[d] # NoMail ~> []MailDone(d)
=============================================================================
