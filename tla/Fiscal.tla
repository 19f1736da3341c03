------------------------------- MODULE Fiscal -------------------------------
(***************************************************************************)
(* Fiscal invoices for the payments of one bill: each settled payment may  *)
(* be documented once, by the restaurant itself (provider "own", which     *)
(* numbers its documents) or by an authorised printer (provider "press",   *)
(* asked over the network, which may answer nothing).                      *)
(*                                                                         *)
(* An issue is a chain of transactions with calls between them: the row of *)
(* the request, SENT, the provider, the document.  Every link is an action *)
(* of its own and the process may die, or a statement fail, at each.  What *)
(* a bill has left to declare is derived from the documents at the first   *)
(* link and used at the last.                                              *)
(*                                                                         *)
(* Outside the program: the printer issues a request once or not at all,   *)
(* has decided by the time its call returns or times out, and answers a    *)
(* lookup with what it decided, or not at all (mock.js).  Which payments   *)
(* settle, and when, is Ledger's; the lines of the bill stay as they are.  *)
(* Inside a rate, base and VAT are one amount here.                        *)
(***************************************************************************)
EXTENDS Allocation

CONSTANTS
  Payments,    \* payments on the bill
  Requests,    \* rows fiscal_invoice_requests may hold
  Operators,   \* requests to resolve a doubt that may run at once
  Buckets,     \* one number for each VAT rate of the bill, and the service's
  Due,         \* what the bill declares in each bucket
  Amount,      \* of a payment
  Claim,       \* of a payment: what its diner claimed in each bucket, or None
  SeriesForms, \* authorisations the owner may enter: prefixes, range
  None

ASSUME FiscalAssumption ==
  /\ IsFiniteSet(Payments) /\ IsFiniteSet(Requests)
  /\ IsFiniteSet(Buckets) /\ Buckets \subseteq Nat
  /\ Due \in [Buckets -> Nat]
  /\ Amount \in [Payments -> Nat \ {0}]
  /\ Claim \in [Payments -> [Buckets -> Nat] \cup {None}]
  /\ \A s \in SeriesForms :
       s.first \in Nat /\ s.last \in Nat \cup {None} /\ DOMAIN s = {"form", "first", "last"}
  /\ None \notin Payments \cup SeriesForms \cup Nat
  /\ None \notin [request : Requests, answer : {"ISSUED", "REJECTED", "UNCERTAIN"}]

VARIABLES
  provider,    \* who issues in this deployment
  settled,     \* payments whose status is SUCCEEDED
  intents,     \* fiscal_invoice_intents: what was asked with the payment
  requests,    \* rows of fiscal_invoice_requests
  drafts,      \* their column draft_json
  invoices,    \* rows of fiscal_invoices
  printed,     \* what the printer issued: a request and a draft
  jobs,        \* where the process that made a request is
  resolving,   \* what an operator's lookup answered, before it is recorded
  series,      \* the row of fiscal_series
  counter,     \* next_value of the control number's counter
  saving       \* a series that passed its checks and is not written yet

vars == <<provider, settled, intents, requests, drafts, invoices, printed, jobs, resolving,
          series, counter, saving>>
rows == <<requests, drafts, invoices, printed, jobs>>
numbering == <<series, counter, saving>>
-----------------------------------------------------------------------------
RequestStatus == {"NONE", "PENDING", "SENT", "ISSUED", "FAILED", "UNCERTAIN"}
IntentStatus == {"NONE", "WAITING", "FULFILLING", "ISSUED", "FAILED", "SKIPPED"}
Outcome == {"ISSUED", "REJECTED", "UNCERTAIN"}
Drafts == [Buckets -> Nat]
Job == [at : {"NONE", "PREPARED", "SENT", "SILENT", "OVER"} \cup Outcome, intent : BOOLEAN]

TypeOK ==
  /\ provider \in {"own", "press"}
  /\ settled \subseteq Payments
  /\ intents \in [Payments -> IntentStatus]
  /\ requests \in [Requests -> [status : RequestStatus, payment : Payments \cup {None}]]
  /\ drafts \in [Requests -> Drafts \cup {None}]
  /\ invoices \subseteq [request : Requests, draft : Drafts, control : Nat \cup {None},
                          form : {s.form : s \in SeriesForms} \cup {None}]
  /\ printed \subseteq Requests \X Drafts
  /\ jobs \in [Requests -> Job]
  /\ resolving \in [Operators -> [request : Requests, answer : Outcome] \cup {None}]
  /\ series \in SeriesForms \cup {None}
  /\ counter \in Nat \cup {None}
  /\ saving \in SeriesForms \cup {None}

Init ==
  /\ provider \in {"own", "press"}
  /\ settled = {}
  /\ intents \in [Payments -> {"NONE", "WAITING"}]
  /\ requests = [r \in Requests |-> [status |-> "NONE", payment |-> None]]
  /\ drafts = [r \in Requests |-> None]
  /\ invoices = {}
  /\ printed = {}
  /\ jobs = [r \in Requests |-> [at |-> "NONE", intent |-> FALSE]]
  /\ resolving = [o \in Operators |-> None]
  /\ series \in SeriesForms \cup {None}
  /\ counter = None
  /\ saving = None
-----------------------------------------------------------------------------
(* What is left to declare, and the draft of a payment.                    *)

Declared(b) == SumOver([i \in invoices |-> i.draft[b]])

(* Derived from the documents each time, never stored.                     *)
Left == [b \in Buckets |-> Due[b] - Declared(b)]

(* In proportion to what is left, unless the diner's own lines are known.  *)
DraftFor(p) ==
  AllocateCapped(Amount[p], IF Claim[p] = None THEN Left ELSE Claim[p], Left)

Declarable(p) == p \in settled /\ Amount[p] <= SumOver(Left)

(* Wrong: a request in doubt leaves its payment free.                      *)
RequestedForgettingDoubt(p) ==
  \E r \in Requests : requests[r].payment = p /\ requests[r].status \notin {"FAILED", "UNCERTAIN"}

(* The partial unique index on payment_id.                                 *)
Requested(p) ==
  \E r \in Requests : requests[r].payment = p /\ requests[r].status # "FAILED"
-----------------------------------------------------------------------------
(* issueForPayment, first transaction: the draft is stored with the row,   *)
(* before anybody is called.                                               *)
Prepare(r, p, intent) ==
  /\ requests[r].status = "NONE"
  /\ Declarable(p) /\ ~ Requested(p)
  /\ requests' = [requests EXCEPT ![r] = [status |-> "PENDING", payment |-> p]]
  /\ drafts' = [drafts EXCEPT ![r] = DraftFor(p)]
  /\ jobs' = [jobs EXCEPT ![r] = [at |-> "PREPARED", intent |-> intent]]
  /\ UNCHANGED <<provider, settled, invoices, printed, resolving, numbering>>

(* The diner asks from the payment's screen.                               *)
GuestAsks(r, p) == Prepare(r, p, FALSE) /\ UNCHANGED intents

(* confirmClaim commits, and goes on to what was asked with the payment:   *)
(* FULFILLING is a row still WAITING, with a process about to see to it.   *)
Confirm(p) ==
  /\ p \notin settled
  /\ settled' = settled \cup {p}
  /\ intents' = [intents EXCEPT ![p] = IF @ = "WAITING" THEN "FULFILLING" ELSE @]
  /\ UNCHANGED <<provider, rows, resolving, numbering>>

Fulfil(r, p) ==
  /\ intents[p] = "FULFILLING"
  /\ Prepare(r, p, TRUE)
  /\ intents' = [intents EXCEPT ![p] = "WAITING"]

(* Requested by hand meanwhile, declared in full, or refused by the plan   *)
(* or for want of a provider or a RIF; or the process dies.                *)
FulfilNot(p) ==
  /\ intents[p] = "FULFILLING"
  /\ \E end \in {"SKIPPED", "FAILED", "WAITING"} :
       /\ end = "SKIPPED" => Requested(p) \/ ~ Declarable(p)
       /\ intents' = [intents EXCEPT ![p] = end]
  /\ UNCHANGED <<provider, settled, rows, resolving, numbering>>

(* Wrong: whatever is not a failure is on its way.                         *)
IntentOutcomeHopeful(status) == IF status = "FAILED" THEN "FAILED" ELSE "ISSUED"

(* What an intent is resolved as: a doubt is not an invoice.               *)
IntentOutcome(status) == IF status = "ISSUED" THEN "ISSUED" ELSE "FAILED"

(* The process is done with request r.  If it worked for an intent it says *)
(* so in a statement of its own, unless it dies first.                     *)
Conclude(r, status) ==
  LET p == requests[r].payment IN
  /\ jobs' = [jobs EXCEPT ![r].at = "OVER"]
  /\ \/ UNCHANGED intents
     \/ /\ jobs[r].intent /\ intents[p] = "WAITING"
        /\ intents' = [intents EXCEPT ![p] = IntentOutcome(status)]

(* Something throws, or the process dies, and the row stays as it was.     *)
Abandon(r) ==
  /\ jobs[r].at \notin {"NONE", "OVER"}
  /\ Conclude(r, "FAILED")
  /\ UNCHANGED <<provider, settled, requests, drafts, invoices, printed, resolving, numbering>>

Send(r) ==
  /\ jobs[r].at = "PREPARED"
  /\ requests' = [requests EXCEPT ![r].status = "SENT"]
  /\ jobs' = [jobs EXCEPT ![r].at = "SENT"]
  /\ UNCHANGED <<provider, settled, intents, drafts, invoices, printed, resolving, numbering>>
-----------------------------------------------------------------------------
(* The printer.                                                            *)

(* Its three outcomes.  Silence does not say whether it issued.            *)
Issue(r) ==
  /\ provider = "press" /\ jobs[r].at = "SENT"
  /\ \E outcome \in Outcome, yes \in BOOLEAN :
       /\ outcome = "ISSUED" => yes
       /\ outcome = "REJECTED" => ~ yes
       /\ printed' = IF yes THEN printed \cup {<<r, drafts[r]>>} ELSE printed
       /\ jobs' = [jobs EXCEPT ![r].at = outcome]
  /\ UNCHANGED <<provider, settled, intents, requests, drafts, invoices, resolving, numbering>>

Printed(r) == \E d \in printed : d[1] = r

LookupAnswers(r) == {"UNCERTAIN", IF Printed(r) THEN "ISSUED" ELSE "REJECTED"}

(* In doubt it is asked, never told again.                                 *)
AskInDoubt(r) ==
  /\ jobs[r].at = "UNCERTAIN"
  /\ \E answer \in LookupAnswers(r) :
       jobs' = [jobs EXCEPT ![r].at = IF answer = "UNCERTAIN" THEN "SILENT" ELSE answer]
  /\ UNCHANGED <<provider, settled, intents, requests, drafts, invoices, printed, resolving, numbering>>

NotIssued(r) ==
  LET status == IF jobs[r].at = "SILENT" THEN "UNCERTAIN" ELSE "FAILED" IN
  /\ jobs[r].at \in {"REJECTED", "SILENT"}
  /\ requests' = [requests EXCEPT ![r].status = status]
  /\ Conclude(r, status)
  /\ UNCHANGED <<provider, settled, drafts, invoices, printed, resolving, numbering>>

(* Wrong: the draft is made again from what is left now.                   *)
DraftSentAgain(r) == DraftFor(requests[r].payment)

(* The draft that was sent, as it was stored.                              *)
DraftSent(r) == drafts[r]

Recorded(r) == \E i \in invoices : i.request = r

(* persistIssued: the document, its taxes and ISSUED, in one transaction.  *)
(* request_id is unique.                                                   *)
Persist(r, draft, form, control) ==
  /\ ~ Recorded(r)
  /\ invoices' = invoices \cup
       {[request |-> r, draft |-> draft, form |-> form, control |-> control]}
  /\ requests' = [requests EXCEPT ![r].status = "ISSUED"]

PersistPrinted(r) ==
  /\ jobs[r].at = "ISSUED"
  /\ Persist(r, drafts[r], None, None)
  /\ Conclude(r, "ISSUED")
  /\ UNCHANGED <<provider, settled, drafts, printed, resolving, numbering>>
-----------------------------------------------------------------------------
(* resolveUncertain, by an operator looking at the queue.                  *)

(* The row is read, without a lock, and the printer asked.                 *)
Ask(o, r) ==
  /\ resolving[o] = None
  /\ requests[r].status = "UNCERTAIN"
  /\ \E answer \in LookupAnswers(r) :
       resolving' = [resolving EXCEPT ![o] = [request |-> r, answer |-> answer]]
  /\ UNCHANGED <<provider, settled, intents, rows, numbering>>

(* The answer is recorded.  A second document for the request is refused   *)
(* by the index, and a doubt that lasts changes nothing; nor does a crash. *)
Record(o) ==
  /\ resolving[o] # None
  /\ LET r == resolving[o].request
         answer == resolving[o].answer
     IN \/ answer = "REJECTED"
           /\ requests' = [requests EXCEPT ![r].status = "FAILED"] /\ UNCHANGED invoices
        \/ answer = "ISSUED" /\ Persist(r, DraftSent(r), None, None)
        \/ UNCHANGED <<requests, invoices>>
  /\ resolving' = [resolving EXCEPT ![o] = None]
  /\ UNCHANGED <<provider, settled, intents, drafts, printed, jobs, numbering>>
-----------------------------------------------------------------------------
(* Own numbers.                                                            *)

(* Wrong: each document starts where the authorised range does.            *)
TakeFirst == series.first

(* The counter's row is made at the first number of the range, and locked  *)
(* until the document commits.                                             *)
TakeCounter == IF counter = None THEN series.first ELSE counter

Numbers == series # None /\ (series.last # None => TakeCounter <= series.last)

(* Without a series, or past its range, numbering throws after SENT, which *)
(* is one way to Abandon.                                                  *)
PersistOwn(r) ==
  /\ provider = "own" /\ jobs[r].at = "SENT"
  /\ Numbers
  /\ Persist(r, drafts[r], series.form, TakeCounter)
  /\ counter' = TakeCounter + 1
  /\ Conclude(r, "ISSUED")
  /\ UNCHANGED <<provider, settled, drafts, printed, resolving, series, saving>>

(* Once a number was given the form is frozen and the range covers it.     *)
MayWrite(s) ==
  counter # None =>
    /\ s.form = series.form /\ s.first = series.first
    /\ s.last # None => s.last >= counter - 1

(* writeSeries reads series and counter without a lock ...                 *)
CheckSeries(s) ==
  /\ provider = "own" /\ saving = None
  /\ MayWrite(s)
  /\ saving' = s
  /\ UNCHANGED <<provider, settled, intents, rows, resolving, series, counter>>

(* ... and replaces the row.                                               *)
WriteSeries ==
  /\ saving # None
  /\ series' = saving
  /\ saving' = None
  /\ UNCHANGED <<provider, settled, intents, rows, resolving, counter>>
-----------------------------------------------------------------------------
Next ==
  \/ \E p \in Payments : Confirm(p) \/ FulfilNot(p)
  \/ \E r \in Requests, p \in Payments : GuestAsks(r, p) \/ Fulfil(r, p)
  \/ \E r \in Requests :
       Send(r) \/ Issue(r) \/ AskInDoubt(r) \/ NotIssued(r) \/ PersistPrinted(r) \/ PersistOwn(r)
       \/ Abandon(r)
  \/ \E o \in Operators, r \in Requests : Ask(o, r)
  \/ \E o \in Operators : Record(o)
  \/ \E s \in SeriesForms : CheckSeries(s)
  \/ WriteSeries

Spec == Init /\ [][Next]_vars
-----------------------------------------------------------------------------
Documented(r) == Printed(r) \/ Recorded(r)

(* A payment is documented once, whoever issues and whatever is lost, told *)
(* twice, resolved at once or asked for again: "a duplicate invoice is the *)
(* restaurant's tax problem".                                              *)
OneDocument ==
  \A r, q \in Requests :
    r # q /\ Documented(r) /\ Documented(q) => requests[r].payment # requests[q].payment

(* What the register says the printer issued is what the printer issued,   *)
(* also when it is found out much later, on a bill that went on.           *)
RecordedAsPrinted ==
  provider = "press" => \A i \in invoices : <<i.request, i.draft>> \in printed

(* The restaurant's own control numbers run on, none missing, none twice,  *)
(* whatever is thrown, entered or raced: each number is followed by        *)
(* another document's or is the last one taken from the counter.           *)
NumbersRunOn ==
  provider = "own" =>
    /\ \A i \in invoices :
         i.control + 1 # counter => \E j \in invoices : j.control = i.control + 1
    /\ \A i, j \in invoices : i # j => i.control # j.control

(* A diner told that the invoice asked for with the payment is out has     *)
(* one: a doubt, a refusal or a crash is never told as an invoice.         *)
IntentKept ==
  \A p \in Payments :
    intents[p] = "ISSUED" => \E i \in invoices : requests[i.request].payment = p
=============================================================================
