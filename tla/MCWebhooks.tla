----------------------------- MODULE MCWebhooks -----------------------------
(***************************************************************************)
(* What is tried again until it ends: the notifications of a provider, the *)
(* mails with invoices, the charges in doubt that a cashier resolves, and  *)
(* the logins of an account that is locked for a while.  The four share no *)
(* state here, and a behaviour runs one of them; the fairness of each is   *)
(* asked in its own part only.                                             *)
(*                                                                         *)
(* Events: a payment of the provider's with a success and a failure that   *)
(* arrive in any order, a success without an id, and one of another rail   *)
(* that an event names.                                                    *)
(* Mails: two mails, two senders, two attempts.  Doubts: two charges of    *)
(* one payer, one resolver.  Locks: two requests of one account.           *)
(***************************************************************************)
EXTENDS C2P, Webhooks, Delivery, TLC

CONSTANTS p1, p2, ok, ko, odd, raw, c1, c2, r1
MCAbout == ok :> p1 @@ ko :> p1 @@ raw :> p1 @@ odd :> p2
MCSays == ok :> "SUCCEEDED" @@ raw :> "SUCCEEDED" @@ ko :> "FAILED" @@ odd :> "OTHER"

VARIABLES part, active, factor, last, sheet, now, challenged, failures, sessions, requests, spent

CONSTANTS Logins, MaxFailures, Window, MaxTokens
Door == INSTANCE Access WITH
  Requests <- Logins, Nothing <- None, MaxStep <- 1, MaxSecrets <- 0, MaxSheets <- 0

doorVars ==
  <<active, factor, last, sheet, now, challenged, failures, sessions, requests, spent>>
outside == <<part, webhookVars, mailVars, vars, doorVars>>

InEvents == part = "EVENTS" /\ UNCHANGED <<part, mailVars, vars, doorVars>>
InMails == part = "MAILS" /\ UNCHANGED <<part, webhookVars, vars, doorVars>>
InDoubts == part = "DOUBTS" /\ UNCHANGED <<part, webhookVars, mailVars, doorVars>>
InLocks == part = "LOCKS" /\ UNCHANGED <<part, webhookVars, mailVars, vars>>

(* The steps that a counter of failures can notice, of an account without  *)
(* a second factor: the counter behind one is the same code under another  *)
(* key.                                                                    *)
AtTheDoor == Door!Passing \/ Door!SetActive \/ \E r \in Logins : Door!Login(r)

(* No charge waits six hours, so a doubt must end without its window       *)
(* expiring, and no resolution is interrupted.                             *)
Prompt == Uninterrupted /\ \A c \in Charges : age'[c] # "EXPIRED"

OutsideInit ==
  /\ part \in {"EVENTS", "MAILS", "DOUBTS", "LOCKS"}
  /\ WebhooksInit /\ DeliveryInit /\ Init /\ Door!Init
OutsideNext ==
  \/ (InEvents /\ WebhooksStep) \/ (InMails /\ DeliveryStep)
  \/ (InDoubts /\ Prompt) \/ (InLocks /\ AtTheDoor)

(* What Webhooks, Delivery and C2P ask of their surroundings.  An action   *)
(* of another part is never enabled, so fairness asked of a disjunction of *)
(* one action of each part is fairness of the part's own.                  *)
OutsideFairness ==
  /\ SF_outside((InEvents /\ Resend(ok)) \/ (InMails /\ Trying) \/ (InDoubts /\ Ask(r1, c1)))
  /\ SF_outside((InEvents /\ Looking(ok)) \/ (InMails /\ Sending) \/ (InDoubts /\ Ask(r1, c2)))
  /\ SF_outside((InEvents /\ Ending(ok)) \/ (InMails /\ Recording))
  /\ SF_outside(InEvents /\ Resend(ko))
  /\ SF_outside(InEvents /\ Looking(ko))
  /\ SF_outside(InEvents /\ Ending(ko))
  /\ WF_outside((InEvents /\ (Looking(odd) \/ Looking(raw))) \/ (InMails /\ Sweeping) \/ (InDoubts /\ Progress(r1)))
  /\ WF_outside((InEvents /\ (Ending(odd) \/ Ending(raw))) \/ (InDoubts /\ List(c1))
                \/ (InLocks /\ Door!WindowPasses("ADDRESS")))
  /\ WF_outside((InEvents /\ Commit(p1)) \/ (InDoubts /\ List(c2)))
  /\ WF_outside((InEvents /\ Commit(p2)) \/ (InDoubts /\ Mature(c1)))
  /\ WF_outside(InDoubts /\ Mature(c2))

OutsideSpec == OutsideInit /\ [][OutsideNext]_outside /\ OutsideFairness

(* The news of a payment arrives, also if it overtook our own transaction, *)
(* and unless the bill cannot take it (NewsArrives, in the events' part).  *)
EventsArrive == part = "EVENTS" => NewsArrives

(* A lock after failures ends by itself (LockEnds of Access).              *)
LockoutEnds == Door!LockEnds("ADDRESS")
=============================================================================
