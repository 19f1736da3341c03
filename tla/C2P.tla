-------------------------------- MODULE C2P --------------------------------
(***************************************************************************)
(* C2P charges: the program asks the diner's bank to debit the diner, and  *)
(* may never hear what happened.  The row is committed before the bank is  *)
(* called, the bank is called outside every transaction, the answer is     *)
(* written in another one, and a charge whose answer was lost is settled   *)
(* later by searching the bank's movements (resolveC2PPayment).            *)
(*                                                                         *)
(* Each step between two awaits is an action, so a crash, a second cashier *)
(* pressing "resolve", another diner's charge, a payment on another rail   *)
(* or a late debit can fall between any two.  A statement the database     *)
(* refuses is an action too where the code goes on after it.               *)
(*                                                                         *)
(* Outside the program, and modelled by what it relies on: the bank debits *)
(* a charge at most once, and lists the movement before the charge is as   *)
(* old as the settlement window.  A payer is a phone's last four digits,   *)
(* all the program keeps; references are compared in their canonical       *)
(* spelling, so one movement is one reference.                             *)
(***************************************************************************)
EXTENDS Money, Sequences

CONSTANTS
  Charges,     \* payments raised on this rail
  Payers,      \* what the program tells payers apart by
  Resolvers,   \* requests to resolve a charge that may run at once
  DueVes,      \* the total of the bill
  Tips,        \* tips a diner may add
  Answers,     \* what an approval identifies the debit by
  None

ASSUME C2PAssumption ==
  /\ IsFiniteSet(Charges)
  /\ DueVes \in Ves /\ Tips \subseteq Ves
  /\ Answers \subseteq {"REFERENCE", "ID_ONLY", "NOTHING"}
  /\ None \notin Charges

VARIABLES
  bill,        \* the bill every charge is raised on
  payments,    \* status and provider_payment_id
  orders,      \* who was to be charged how much
  raised,      \* the charges in order of creation
  age,         \* of a charge, against the two windows
  bank,        \* what the bank did with a charge
  call,        \* where createC2PPayment is, or what it told the diner
  resolving    \* where each resolveC2PPayment is, or what it replied

vars == <<bill, payments, orders, raised, age, bank, call, resolving>>
-----------------------------------------------------------------------------
Status == {"NONE", "PENDING", "IN_DOUBT", "AMBIGUOUS", "SUCCEEDED", "FAILED"}
Age == {"YOUNG", "MATURE", "EXPIRED"}

(* The movement of charge c as the search lists it; the other id an        *)
(* approval may carry, which no search ever returns; or neither.           *)
Movement(c) == <<"REFERENCE", c>>
References == {"REFERENCE", "ID_ONLY"} \X Charges
ReferenceFor(answer, c) == IF answer = "NOTHING" THEN None ELSE <<answer, c>>
Order == [payer : Payers, amount : PayableVes, tip : Ves]

Stages == {"ASKED", "EXPIRING", "SEARCHED", "MATCHED", "AMBIGUOUS", "NO_MATCH", "PARKING"}
Resolution == [stage : Stages, charge : Charges, mature : BOOLEAN, seen : SUBSET Charges]

ASSUME NoneIsNothing == None \notin References /\ None \notin Resolution

TypeOK ==
  /\ bill \in [open : BOOLEAN, paid : Ves, other : Ves]
  /\ payments \in [Charges -> [status : Status, reference : References \cup {None}]]
  /\ orders \in [Charges -> Order \cup {None}]
  /\ raised \in Seq(Charges)
  /\ age \in [Charges -> Age]
  /\ bank \in [Charges -> {"IDLE", "REFUSED", "DEBITED", "LISTED"}]
  /\ call \in [Charges -> [at : {"NONE", "ASKING", "APPROVED", "REFUSED", "MISREAD", "SILENT",
                                  "DENIED", "MISLED", "OVER"},
                           reference : References \cup {None}]]
  /\ resolving \in [Resolvers -> Resolution \cup {None}]

Init ==
  /\ bill = [open |-> TRUE, paid |-> 0, other |-> 0]
  /\ payments = [c \in Charges |-> [status |-> "NONE", reference |-> None]]
  /\ orders = [c \in Charges |-> None]
  /\ raised = <<>>
  /\ age = [c \in Charges |-> "YOUNG"]
  /\ bank = [c \in Charges |-> "IDLE"]
  /\ call = [c \in Charges |-> [at |-> "NONE", reference |-> None]]
  /\ resolving = [r \in Resolvers |-> None]

Raised(c) == payments[c].status # "NONE"
Charged(c) == orders[c].amount + orders[c].tip
Debited(c) == bank[c] \in {"DEBITED", "LISTED"}
CreatedBefore(d, c) ==
  \E i, j \in DOMAIN raised : i < j /\ raised[i] = d /\ raised[j] = c
-----------------------------------------------------------------------------
(* What the transactions are made of.                                      *)

BillTakes(a) == bill.open /\ bill.paid + a <= DueVes

ApplyToBill(a) ==
  /\ BillTakes(a)
  /\ bill' = [bill EXCEPT !.paid = @ + a, !.open = bill.paid + a # DueVes]

(* Moving to the status a payment already has is accepted.                 *)
MayMove(c, status) ==
  \/ payments[c].status = status
  \/ payments[c].status = "PENDING" /\ status \in {"IN_DOUBT", "AMBIGUOUS", "SUCCEEDED", "FAILED"}
  \/ payments[c].status = "IN_DOUBT" /\ status \in {"AMBIGUOUS", "SUCCEEDED", "FAILED"}

Move(c, status) ==
  MayMove(c, status) /\ payments' = [payments EXCEPT ![c].status = status]

(* Wrong: the unique index does not exist.                                 *)
FreeAlways(c, ref) == TRUE

(* The unique index on the provider's reference, partial: NULL is free.    *)
Free(c, ref) ==
  ref = None \/ \A d \in Charges \ {c} : payments[d].reference # ref

(* Writing a reference leaves the old one when the answer carried none.    *)
Spend(c, ref, status) ==
  /\ Free(c, ref) /\ MayMove(c, status)
  /\ payments' = [payments EXCEPT ![c].status = status,
                    ![c].reference = IF ref = None THEN @ ELSE ref]
-----------------------------------------------------------------------------
(* Raising a charge: createC2PPayment.                                     *)

(* The first transaction: an open bill with room, and the row committed.   *)
Submit(c, payer, amount, tip) ==
  /\ ~ Raised(c)
  /\ BillTakes(amount) /\ amount + tip <= MaxVes
  /\ payments' = [payments EXCEPT ![c].status = "PENDING"]
  /\ orders' = [orders EXCEPT ![c] = [payer |-> payer, amount |-> amount, tip |-> tip]]
  /\ raised' = Append(raised, c)
  /\ call' = [call EXCEPT ![c].at = "ASKING"]
  /\ UNCHANGED <<bill, age, bank, resolving>>

(* The bank's explicit yes.                                                *)
Approve(c) ==
  /\ call[c].at = "ASKING" /\ Debited(c)
  /\ \E answer \in Answers :
       call' = [call EXCEPT ![c] = [at |-> "APPROVED", reference |-> ReferenceFor(answer, c)]]
  /\ UNCHANGED <<bill, payments, orders, raised, age, bank, resolving>>

(* Its explicit no, or a request refused before it was sent.               *)
Decline(c) ==
  /\ call[c].at = "ASKING" /\ bank[c] = "IDLE"
  /\ call' = [call EXCEPT ![c].at = "REFUSED"]
  /\ bank' = [bank EXCEPT ![c] = "REFUSED"]
  /\ UNCHANGED <<bill, payments, orders, raised, age, resolving>>

(* A body that is no object ("null") makes mapCharge throw, and whatever   *)
(* is thrown and not marked indeterminate is taken for a refusal: this one *)
(* whatever the bank did or is about to do.                                *)
Misread(c) ==
  /\ call[c].at = "ASKING"
  /\ call' = [call EXCEPT ![c].at = "MISREAD"]
  /\ UNCHANGED <<bill, payments, orders, raised, age, bank, resolving>>

(* Wrong: a call that timed out is taken for a refusal.                    *)
HearNothingAsRefusal(c) ==
  /\ call[c].at = "ASKING"
  /\ call' = [call EXCEPT ![c].at = "REFUSED"]
  /\ UNCHANGED <<bill, payments, orders, raised, age, bank, resolving>>

(* A time-out, a 5xx or an unreadable body: the debit may have landed, or  *)
(* may still land.                                                         *)
HearNothing(c) ==
  /\ call[c].at = "ASKING"
  /\ call' = [call EXCEPT ![c].at = "SILENT"]
  /\ UNCHANGED <<bill, payments, orders, raised, age, bank, resolving>>

(* The call ends.  Of what it told the diner one thing matters later: did  *)
(* it say, or let a retry suppose, that nothing was charged, and did the   *)
(* bank say so?                                                            *)
Tell(c, outcome) ==
  call' = [call EXCEPT ![c] =
    [at |-> IF outcome \notin {"FAILED", "ERROR"} THEN "OVER"
            ELSE IF call[c].at = "MISREAD" THEN "MISLED" ELSE "DENIED",
     reference |-> None]]

(* The move to IN_DOUBT is attempted; the diner hears IN_DOUBT whether or  *)
(* not the database took it.                                               *)
RecordDoubt(c) ==
  /\ call[c].at = "SILENT"
  /\ Move(c, "IN_DOUBT") \/ UNCHANGED payments
  /\ Tell(c, "IN_DOUBT")
  /\ UNCHANGED <<bill, orders, raised, age, bank, resolving>>

(* The move to FAILED is not protected: if it fails the call throws.       *)
RecordRefusal(c) ==
  /\ call[c].at \in {"REFUSED", "MISREAD"}
  /\ \/ Move(c, "FAILED") /\ Tell(c, "FAILED")
     \/ UNCHANGED payments /\ Tell(c, "ERROR")
  /\ UNCHANGED <<bill, orders, raised, age, bank, resolving>>

SettleDirect(c) ==
  /\ call[c].at = "APPROVED"
  /\ Spend(c, call[c].reference, "SUCCEEDED")
  /\ ApplyToBill(orders[c].amount)
  /\ Tell(c, "SUCCEEDED")
  /\ UNCHANGED <<orders, raised, age, bank, resolving>>

(* Any failure of that transaction parks the charge, without its reference *)
(* when another payment owns it; parking may itself fail, and the diner    *)
(* hears AMBIGUOUS all the same.                                           *)
ParkDirect(c) ==
  LET ref == call[c].reference IN
  /\ call[c].at = "APPROVED"
  /\ \/ Spend(c, IF Free(c, ref) THEN ref ELSE None, "AMBIGUOUS")
     \/ UNCHANGED payments
  /\ Tell(c, "AMBIGUOUS")
  /\ UNCHANGED <<bill, orders, raised, age, bank, resolving>>

Running(c) == call[c].at \in {"ASKING", "APPROVED", "REFUSED", "MISREAD", "SILENT"}

(* The process dies with the call in flight.                               *)
Crash(c) ==
  /\ Running(c)
  /\ Tell(c, "CRASHED")
  /\ UNCHANGED <<bill, payments, orders, raised, age, bank, resolving>>
-----------------------------------------------------------------------------
(* The bank, the clock and the other rails.                                *)

(* The debit lands while the charge is young, whoever still listens.       *)
Debit(c) ==
  /\ Raised(c) /\ bank[c] = "IDLE" /\ age[c] = "YOUNG"
  /\ bank' = [bank EXCEPT ![c] = "DEBITED"]
  /\ UNCHANGED <<bill, payments, orders, raised, age, call, resolving>>

List(c) ==
  /\ bank[c] = "DEBITED"
  /\ bank' = [bank EXCEPT ![c] = "LISTED"]
  /\ UNCHANGED <<bill, payments, orders, raised, age, call, resolving>>

(* Fifteen minutes, then six hours.  A debit is listed within the first,   *)
(* and the request, whose bank call and statements are cut off by timers   *)
(* of seconds, is over.                                                    *)
Mature(c) ==
  /\ Raised(c) /\ age[c] = "YOUNG" /\ bank[c] # "DEBITED" /\ ~ Running(c)
  /\ age' = [age EXCEPT ![c] = "MATURE"]
  /\ UNCHANGED <<bill, payments, orders, raised, bank, call, resolving>>

Expire(c) ==
  /\ age[c] = "MATURE"
  /\ \A d \in Charges : CreatedBefore(d, c) => age[d] = "EXPIRED"
  /\ age' = [age EXCEPT ![c] = "EXPIRED"]
  /\ UNCHANGED <<bill, payments, orders, raised, bank, call, resolving>>

(* A payment on another rail, or a manager closing the bill.               *)
OtherPayment(a) ==
  /\ BillTakes(a)
  /\ bill' = [open |-> bill.paid + a # DueVes, paid |-> bill.paid + a, other |-> bill.other + a]
  /\ UNCHANGED <<payments, orders, raised, age, bank, call, resolving>>

CloseBill ==
  /\ bill.open
  /\ bill' = [bill EXCEPT !.open = FALSE]
  /\ UNCHANGED <<payments, orders, raised, age, bank, call, resolving>>
-----------------------------------------------------------------------------
(* Asking the bank what happened: resolveC2PPayment.                       *)

At(r, stage) == resolving[r] # None /\ resolving[r].stage = stage
Goes(r, stage) == resolving' = [resolving EXCEPT ![r].stage = stage]
Ends(r) == resolving' = [resolving EXCEPT ![r] = None]

(* The status and the age are read without a lock. A charge that is not in *)
(* doubt is answered at once.                                              *)
Ask(r, c) ==
  /\ resolving[r] = None /\ payments[c].status = "IN_DOUBT"
  /\ resolving' = [resolving EXCEPT ![r] =
       [stage |-> IF age[c] = "EXPIRED" THEN "EXPIRING" ELSE "ASKED",
        charge |-> c, mature |-> age[c] # "YOUNG", seen |-> {}]]
  /\ UNCHANGED <<bill, payments, orders, raised, age, bank, call>>

(* Too old for the bank to be asked about the right hours.                 *)
ExpireWindow(r) ==
  /\ At(r, "EXPIRING")
  /\ Move(resolving[r].charge, "AMBIGUOUS")
  /\ Ends(r)
  /\ UNCHANGED <<bill, orders, raised, age, bank, call>>

(* The movements of the amount, from five minutes before the charge: its   *)
(* own and later ones are in the window, earlier ones may be.              *)
Search(r) ==
  LET c == resolving[r].charge
      listed == {d \in Charges : bank[d] = "LISTED" /\ Charged(d) = Charged(c)}
      earlier == {d \in listed : CreatedBefore(d, c)}
  IN /\ At(r, "ASKED")
     /\ \E some \in SUBSET earlier :
          resolving' = [resolving EXCEPT ![r].stage = "SEARCHED",
                                         ![r].seen = (listed \ earlier) \cup some]
     /\ UNCHANGED <<bill, payments, orders, raised, age, bank, call>>

Consumed(d) == \E c \in Charges : payments[c].reference = Movement(d)

(* Wrong: the amount decides.                                              *)
OfPayerAnyone(c, d) == TRUE

OfPayer(c, d) == orders[d].payer = orders[c].payer

(* matchInDoubtPayment: amount is a filter, the payer decides, and a tie   *)
(* is for a person.                                                        *)
Match(r) ==
  LET c == resolving[r].charge
      candidates == {d \in resolving[r].seen : ~ Consumed(d)}
      byPayer == {d \in candidates : OfPayer(c, d)}
  IN /\ At(r, "SEARCHED")
     /\ resolving' = [resolving EXCEPT
          ![r].stage = IF candidates = {} THEN "NO_MATCH"
                       ELSE IF Cardinality(byPayer) = 1 THEN "MATCHED"
                       ELSE "AMBIGUOUS",
          ![r].seen = IF Cardinality(byPayer) = 1 THEN byPayer ELSE {}]
     /\ UNCHANGED <<bill, payments, orders, raised, age, bank, call>>

(* Everything decided so far was decided against a stale row.              *)
StillInDoubt(c) == payments[c].status = "IN_DOUBT"

FindResolved(r) ==
  /\ \E stage \in {"MATCHED", "AMBIGUOUS", "NO_MATCH"} : At(r, stage)
  /\ ~ StillInDoubt(resolving[r].charge)
  /\ Ends(r)
  /\ UNCHANGED <<bill, payments, orders, raised, age, bank, call>>

SettleMatched(r) ==
  LET c == resolving[r].charge IN
  /\ At(r, "MATCHED") /\ StillInDoubt(c)
  /\ \E d \in resolving[r].seen : Spend(c, Movement(d), "SUCCEEDED")
  /\ ApplyToBill(orders[c].amount)
  /\ Ends(r)
  /\ UNCHANGED <<orders, raised, age, bank, call>>

(* Wrong: the refusal is only reported; the charge is asked about again.   *)
RefuseMatchedAgain(r) ==
  /\ At(r, "MATCHED") /\ StillInDoubt(resolving[r].charge)
  /\ Ends(r)
  /\ UNCHANGED <<bill, payments, orders, raised, age, bank, call>>

(* The bill refuses, or the share the payment names does: the transaction  *)
(* is rolled back and the charge is parked in another one.                 *)
RefuseMatched(r) ==
  /\ At(r, "MATCHED") /\ StillInDoubt(resolving[r].charge)
  /\ \A d \in resolving[r].seen : Free(resolving[r].charge, Movement(d))
  /\ Goes(r, "PARKING")
  /\ UNCHANGED <<bill, payments, orders, raised, age, bank, call>>

ParkMatched(r) ==
  /\ At(r, "PARKING")
  /\ \E d \in resolving[r].seen : Spend(resolving[r].charge, Movement(d), "AMBIGUOUS")
  /\ Ends(r)
  /\ UNCHANGED <<bill, orders, raised, age, bank, call>>

(* Another payment took the movement between the search and the commit:    *)
(* it was never ours, and the charge stays in doubt.                       *)
LoseMovement(r) ==
  LET c == resolving[r].charge IN
  /\ (At(r, "MATCHED") /\ StillInDoubt(c)) \/ At(r, "PARKING")
  /\ \A d \in resolving[r].seen : ~ (Free(c, Movement(d)) /\ MayMove(c, "AMBIGUOUS"))
  /\ Ends(r)
  /\ UNCHANGED <<bill, payments, orders, raised, age, bank, call>>

StopAmbiguous(r) ==
  /\ At(r, "AMBIGUOUS") /\ StillInDoubt(resolving[r].charge)
  /\ Move(resolving[r].charge, "AMBIGUOUS")
  /\ Ends(r)
  /\ UNCHANGED <<bill, orders, raised, age, bank, call>>

(* Wrong: an absence is believed at once.                                  *)
AbsenceProvesAlways(r) == TRUE

(* Before the settlement window closes, absence is not evidence.           *)
AbsenceProves(r) == resolving[r].mature

(* No movement: wait, or fail the charge and say a retry is safe.          *)
FailUnmatched(r) ==
  /\ At(r, "NO_MATCH") /\ StillInDoubt(resolving[r].charge)
  /\ \/ ~ AbsenceProves(r) /\ Ends(r) /\ UNCHANGED payments
     \/ AbsenceProves(r) /\ Move(resolving[r].charge, "FAILED") /\ Ends(r)
  /\ UNCHANGED <<bill, orders, raised, age, bank, call>>

(* The bank could not be asked, a transaction was refused for a passing    *)
(* reason, or the process died: nothing was written.                       *)
GiveUp(r) ==
  /\ resolving[r] # None
  /\ Ends(r)
  /\ UNCHANGED <<bill, payments, orders, raised, age, bank, call>>
-----------------------------------------------------------------------------
ChargeStep ==
  \E c \in Charges :
    \/ \E payer \in Payers, amount \in PayableVes, tip \in Tips : Submit(c, payer, amount, tip)
    \/ Approve(c) \/ Decline(c) \/ Misread(c) \/ HearNothing(c)
    \/ RecordDoubt(c) \/ RecordRefusal(c) \/ SettleDirect(c) \/ ParkDirect(c)
    \/ Crash(c)

OutsideStep ==
  \/ \E c \in Charges : Debit(c) \/ List(c) \/ Mature(c) \/ Expire(c)
  \/ \E a \in PayableVes : OtherPayment(a)
  \/ CloseBill

ResolveStep ==
  \E r \in Resolvers :
    \/ \E c \in Charges : Ask(r, c)
    \/ ExpireWindow(r) \/ Search(r) \/ Match(r)
    \/ FindResolved(r) \/ SettleMatched(r) \/ RefuseMatched(r) \/ ParkMatched(r)
    \/ LoseMovement(r) \/ StopAmbiguous(r) \/ FailUnmatched(r)

Interrupted == \E r \in Resolvers : GiveUp(r)

Uninterrupted == ChargeStep \/ OutsideStep \/ ResolveStep

Next == Uninterrupted \/ Interrupted

Spec == Init /\ [][Next]_vars

(* The code has no scheduler on this path, so a doubt ends because people  *)
(* end it: a cashier keeps pressing "resolve" on every charge, the bank    *)
(* lists what it debited, and time passes.                                 *)
Conclude(r) ==
  \/ ExpireWindow(r) \/ FindResolved(r) \/ SettleMatched(r) \/ RefuseMatched(r)
  \/ LoseMovement(r) \/ StopAmbiguous(r) \/ FailUnmatched(r)

Progress(r) == Search(r) \/ Match(r) \/ Conclude(r) \/ ParkMatched(r)

Fairness ==
  /\ \A c \in Charges : WF_vars(List(c)) /\ WF_vars(Mature(c))
  /\ \A r \in Resolvers : WF_vars(Progress(r))
  /\ \A r \in Resolvers, c \in Charges : SF_vars(Ask(r, c))

-----------------------------------------------------------------------------
(* The charges that look the same to the bank: one payer, one amount.      *)
Alike(c) == {d \in Charges : Raised(d) /\ orders[d].payer = orders[c].payer
                                       /\ Charged(d) = Charged(c)}
WithStatus(S, T) == {d \in S : payments[d].status \in T}

Settled == WithStatus(Charges, {"SUCCEEDED"})
Amount == [c \in Charges |-> IF Raised(c) THEN orders[c].amount ELSE 0]

(* Whether the row of a charge names the movement that settled it: an      *)
(* approval may carry another id, or none.                                 *)
Named(c) == \E d \in Charges : payments[c].reference = Movement(d)

(* "One bank movement settles exactly one payment": the bill counts every  *)
(* settled charge once, whichever cashier or answer settled it, and no     *)
(* payer has more charges settled with a movement than the bank debited.   *)
(* A charge approved without one is beyond this: the movement of its debit *)
(* stays free, and may settle another.                                     *)
CreditsBackedByDebits ==
  /\ bill.paid = bill.other + TotalOf(Amount, Settled)
  /\ \A c \in Charges : Raised(c) =>
       Cardinality({d \in WithStatus(Alike(c), {"SUCCEEDED"}) : Named(d)})
         <= Cardinality({d \in Alike(c) : Debited(d)})

(* "Identify the payer": what settles a charge is a debit of that payer,   *)
(* for the whole sum asked, tip included; never the next table's money.    *)
SettledWithOwnMoney ==
  \A c, d \in Charges :
    payments[c].status = "SUCCEEDED" /\ payments[c].reference = Movement(d)
      => Debited(d) /\ d \in Alike(c)

(* A diner told that the charge failed, or given an error that releases    *)
(* the key for a retry, was not debited by it and will not be, unless the  *)
(* answer was one the program cannot read at all.                          *)
RefusalMeansNoDebit ==
  \A c \in Charges : call[c].at = "DENIED" => ~ Debited(c)

(* "safeToRetry: ... no debit landed", of a charge that no other charge of *)
(* its payer resembles: a debit that was made is never taken for one that  *)
(* was not, however late it was listed, by any search for it.              *)
LoneDebitKept ==
  \A c \in Charges : Raised(c) /\ Debited(c) /\ Alike(c) = {c} /\ call[c].at # "MISLED" =>
    payments[c].status # "FAILED"

(* A charge in doubt is eventually settled, failed or handed to a person,  *)
(* even when its bill can no longer take it.                               *)
DoubtEnds ==
  \A c \in Charges : payments[c].status = "IN_DOUBT" ~> payments[c].status # "IN_DOUBT"
=============================================================================
