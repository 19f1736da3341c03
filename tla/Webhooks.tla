------------------------------ MODULE Webhooks ------------------------------
(***************************************************************************)
(* Notifications of a payment provider (services/webhooks.js): delivered   *)
(* at least once, in any order, and possibly before our own transaction    *)
(* has committed the payment they speak of.                                *)
(*                                                                         *)
(* A delivery is verified, looked up among the processed events outside    *)
(* any transaction, and settled in one that also records the event.  What  *)
(* a delivery is told (202, or an error) decides whether the provider      *)
(* sends the event again.  Every attempt is signed anew, so the store of   *)
(* used signatures only refuses copies of one attempt, which read and      *)
(* write nothing.                                                          *)
(***************************************************************************)
EXTENDS Naturals, FiniteSets

CONSTANTS
  Payments,     \* payments of one bill that wait for a provider
  Events,       \* events of the provider
  Attempts,     \* deliveries handled at once
  About,        \* the payment an event names
  Says,         \* what an event reports
  Numbered,     \* the events that carry an id of the provider's
  Own,          \* the payments that belong to this provider
  Capacity,     \* how many of the payments the bill can take
  NoEvent

ASSUME WebhooksAssumption ==
  /\ About \in [Events -> Payments]
  /\ Says \in [Events -> {"SUCCEEDED", "FAILED", "OTHER"}]
  /\ Numbered \subseteq Events /\ Own \subseteq Payments /\ Capacity \in Nat
  /\ NoEvent \notin Events \cup {"SETTLED", "FAILED", "IGNORED", "DUPLICATE"}

VARIABLES
  statuses,    \* status; NONE until our own transaction commits
  processed,   \* webhook_events_processed: the outcome of each event
  credited,    \* how many payments the bill has been credited with
  attempts,    \* what each delivery is at
  accepted     \* the events the provider was told not to send again

webhookVars == <<statuses, processed, credited, attempts, accepted>>

Kinds == {"SETTLED", "FAILED", "IGNORED", "DUPLICATE"}
Handling == [event : Events, step : {"LOOKUP", "SETTLE"}]

WebhooksTypeOK ==
  /\ statuses \in [Payments -> {"NONE", "PENDING", "SUCCEEDED", "FAILED"}]
  /\ processed \in [Events -> Kinds \cup {NoEvent}]
  /\ credited \in 0 .. Capacity
  /\ attempts \in [Attempts -> Handling \cup {NoEvent}]
  /\ accepted \subseteq Events

WebhooksInit ==
  /\ statuses = [p \in Payments |-> "NONE"]
  /\ processed = [e \in Events |-> NoEvent]
  /\ credited = 0
  /\ attempts = [a \in Attempts |-> NoEvent]
  /\ accepted = {}

-----------------------------------------------------------------------------
(* The rest of the program: the row of a payment is committed; a payment   *)
(* that is none of the provider's is settled by its own rail; the bill     *)
(* takes money from elsewhere.                                             *)

Commit(p) ==
  /\ statuses[p] = "NONE"
  /\ statuses' = [statuses EXCEPT ![p] = "PENDING"]
  /\ UNCHANGED <<processed, credited, attempts, accepted>>

SettleByHand(p) ==
  /\ statuses[p] = "PENDING" /\ p \notin Own /\ credited < Capacity
  /\ statuses' = [statuses EXCEPT ![p] = "SUCCEEDED"]
  /\ credited' = credited + 1
  /\ UNCHANGED <<processed, attempts, accepted>>

-----------------------------------------------------------------------------
(* The provider sends, and sends again, also what it was told to stop.     *)

Deliver(a, e) ==
  /\ attempts[a] = NoEvent
  /\ attempts' = [attempts EXCEPT ![a] = [event |-> e, step |-> "LOOKUP"]]
  /\ UNCHANGED <<statuses, processed, credited, accepted>>

Event(a) == attempts[a].event
Payment(a) == About[Event(a)]
Is(a, step) == attempts[a] # NoEvent /\ attempts[a].step = step
Answer(a) == attempts' = [attempts EXCEPT ![a] = NoEvent]
Accept(a) == Answer(a) /\ accepted' = accepted \cup {Event(a)}

(* The connection drops, or the process dies, at any point.                *)
Drop(a) ==
  /\ attempts[a] # NoEvent
  /\ Answer(a)
  /\ UNCHANGED <<statuses, processed, credited, accepted>>

(* alreadyProcessed: a cheap read.                                         *)
FindProcessed(a) ==
  /\ Is(a, "LOOKUP") /\ processed[Event(a)] # NoEvent
  /\ Accept(a)
  /\ UNCHANGED <<statuses, processed, credited>>

FindNew(a) ==
  /\ Is(a, "LOOKUP") /\ processed[Event(a)] = NoEvent
  /\ attempts' = [attempts EXCEPT ![a].step = "SETTLE"]
  /\ UNCHANGED <<statuses, processed, credited, accepted>>

(* settleFromWebhook, with the payment locked.  No row yet, or a bill that *)
(* refuses the money: everything is undone and the provider is told to try *)
(* again.                                                                  *)
BillRefuses(a) ==
  /\ statuses[Payment(a)] = "PENDING" /\ Says[Event(a)] = "SUCCEEDED"
  /\ credited = Capacity

(* Wrong: what could not be processed is accepted.                         *)
RefuseAndForget(a) ==
  /\ Is(a, "SETTLE")
  /\ statuses[Payment(a)] = "NONE" \/ (Payment(a) \in Own /\ BillRefuses(a))
  /\ Accept(a)
  /\ UNCHANGED <<statuses, processed, credited>>

TryLater(a) ==
  /\ Is(a, "SETTLE")
  /\ statuses[Payment(a)] = "NONE" \/ (Payment(a) \in Own /\ BillRefuses(a))
  /\ Answer(a)
  /\ UNCHANGED <<statuses, processed, credited, accepted>>

(* The payment belongs to another rail: accepted, and not recorded.        *)
Mismatch(a) ==
  /\ Is(a, "SETTLE") /\ statuses[Payment(a)] # "NONE" /\ Payment(a) \notin Own
  /\ Accept(a)
  /\ UNCHANGED <<statuses, processed, credited>>

(* What an event asks for; by itself it would be wrong, since a payment    *)
(* that is no longer pending would be settled or failed again.             *)
KindUnchecked(a) ==
  CASE Says[Event(a)] = "FAILED" -> "FAILED"
    [] Says[Event(a)] = "OTHER"  -> "IGNORED"
    [] OTHER                     -> "SETTLED"

(* What an event does to its payment.                                      *)
Kind(a) ==
  IF statuses[Payment(a)] # "PENDING" THEN "DUPLICATE" ELSE KindUnchecked(a)

StatusAfter(a) ==
  CASE Kind(a) = "SETTLED" -> "SUCCEEDED"
    [] Kind(a) = "FAILED"  -> "FAILED"
    [] OTHER               -> statuses[Payment(a)]

(* Only an event with an id can be recorded; one without is settled all    *)
(* the same, and looked at afresh whenever it comes.                       *)
Recorded(a) ==
  IF Event(a) \in Numbered THEN [processed EXCEPT ![Event(a)] = Kind(a)] ELSE processed

Process(a) ==
  /\ Is(a, "SETTLE") /\ statuses[Payment(a)] # "NONE" /\ Payment(a) \in Own
  /\ ~BillRefuses(a) /\ processed[Event(a)] = NoEvent
  /\ statuses' = [statuses EXCEPT ![Payment(a)] = StatusAfter(a)]
  /\ credited' = IF Kind(a) = "SETTLED" THEN credited + 1 ELSE credited
  /\ processed' = Recorded(a)
  /\ Accept(a)

(* Another attempt recorded the event first: the key refuses, and all is   *)
(* undone.                                                                 *)
LoseRace(a) ==
  /\ Is(a, "SETTLE") /\ statuses[Payment(a)] # "NONE" /\ Payment(a) \in Own
  /\ ~BillRefuses(a) /\ processed[Event(a)] # NoEvent
  /\ Accept(a)
  /\ UNCHANGED <<statuses, processed, credited>>

-----------------------------------------------------------------------------
Handle(a) ==
  FindProcessed(a) \/ FindNew(a) \/ TryLater(a) \/ Mismatch(a) \/ Process(a) \/ LoseRace(a)

WebhooksStep ==
  \/ \E p \in Payments : Commit(p) \/ SettleByHand(p)
  \/ \E a \in Attempts : Handle(a) \/ Drop(a) \/ \E e \in Events : Deliver(a, e)

WebhooksSpec == WebhooksInit /\ [][WebhooksStep]_webhookVars

(* What has to happen: a transaction that started commits, the provider    *)
(* repeats what was not accepted, and an attempt that keeps being made is  *)
(* not dropped every time.                                                 *)
Resend(e) == e \notin accepted /\ \E a \in Attempts : Deliver(a, e)
Looking(e) == \E a \in Attempts : attempts[a] # NoEvent /\ Event(a) = e /\ FindNew(a)
Ending(e) == \E a \in Attempts : /\ attempts[a] # NoEvent /\ Event(a) = e
                                 /\ Handle(a) /\ attempts'[a] = NoEvent

-----------------------------------------------------------------------------
(* Properties.                                                             *)

(* Money moves with the event that reports it and never without: "there is *)
(* no ordering in which money moves and the event goes unrecorded, or the  *)
(* reverse" (migration 015), but for an event without an id; and the bill  *)
(* is credited with each payment once, whatever is delivered again.        *)
Telling(p) == {e \in Events : About[e] = p /\ processed[e] = "SETTLED"}
Unnumbered(p) == {e \in Events \ Numbered : About[e] = p /\ Says[e] = "SUCCEEDED"}
SettledPayments == {p \in Payments : statuses[p] = "SUCCEEDED"}

MoneyWithItsEvent ==
  /\ \A p \in Own :
       /\ Telling(p) # {} => p \in SettledPayments
       /\ p \in SettledPayments => Telling(p) \cup Unnumbered(p) # {}
       /\ \A e, f \in Telling(p) : e = f
  /\ credited = Cardinality(SettledPayments)

(* "202 means we are done with this delivery": an event of a payment of    *)
(* the provider's that was accepted has been processed: it is on record,   *)
(* or it has no id and its payment no longer waits for what it says.       *)
AcceptedIsProcessed ==
  \A e \in accepted : About[e] \in Own =>
    \/ processed[e] # NoEvent
    \/ /\ e \notin Numbered /\ statuses[About[e]] # "NONE"
       /\ statuses[About[e]] = "PENDING" => Says[e] = "OTHER"

(* The news of a payment arrives, also if it overtook our own transaction, *)
(* and unless the bill cannot take it.                                     *)
NewsArrives ==
  \A e \in Numbered : About[e] \in Own =>
    <>(processed[e] # NoEvent \/ (Says[e] = "SUCCEEDED" /\ credited = Capacity))
=============================================================================
