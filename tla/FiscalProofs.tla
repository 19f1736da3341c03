---------------------------- MODULE FiscalProofs ----------------------------
(***************************************************************************)
(* Theorems about fiscal invoicing: about its documents (Fiscal), for any  *)
(* number of payments, requests, operators and buckets and whatever        *)
(* DraftFor puts in a draft, and about its arithmetic (Dividing), for any  *)
(* bill, rate of exchange, service charge, people, plan and payments.      *)
(*                                                                         *)
(* The arithmetic is sums and allocations, which are recursive functions:  *)
(* what they compute is proved by taking a set, or a number of turns, down *)
(* to a smaller one (BySize, StepByStep).                                  *)
(***************************************************************************)
EXTENDS Fiscal, Dividing, FiniteSetTheorems, WellFoundedInduction, TLAPS


TypeInv ==
  /\ provider \in {"own", "press"}
  /\ intents \in [Payments -> IntentStatus]
  /\ requests \in [Requests -> [status : RequestStatus, payment : Payments \cup {None}]]
  /\ DOMAIN drafts = Requests
  /\ jobs \in [Requests -> Job]
  /\ resolving \in [Operators -> [request : Requests, answer : Outcome] \cup {None}]
  /\ series \in SeriesForms \cup {None}
  /\ counter \in Nat \cup {None}
  /\ saving \in SeriesForms \cup {None}

(* What the row of a request says of its payment and of its documents, and *)
(* the process that issues it of both.                                     *)
RequestRow(r) ==
  /\ requests[r].status = "NONE" <=> jobs[r].at = "NONE"
  /\ requests[r].status = "NONE" => requests[r].payment = None
  /\ requests[r].status # "NONE" => requests[r].payment \in Payments
  /\ requests[r].status \in {"NONE", "PENDING", "FAILED"} => ~ Printed(r)
  /\ Recorded(r) => requests[r].status = "ISSUED"
  /\ jobs[r].at = "PREPARED" => requests[r].status = "PENDING"
  /\ jobs[r].at \in {"SENT", "SILENT"} \cup Outcome => requests[r].status = "SENT"
  /\ jobs[r].at \in {"SENT", "REJECTED"} => ~ Printed(r)
  /\ jobs[r].at = "ISSUED" => Printed(r)

(* The partial unique index, as an invariant.                              *)
OnePerPayment ==
  \A r, q \in Requests :
    /\ requests[r].status \notin {"NONE", "FAILED"}
    /\ requests[q].status \notin {"NONE", "FAILED"}
    /\ requests[r].payment = requests[q].payment
    => r = q

(* A lookup's answer is still true when it is recorded.                    *)
AnswerFits(o) ==
  resolving[o] # None =>
    LET r == resolving[o].request IN
      /\ jobs[r].at = "OVER"
      /\ resolving[o].answer = "ISSUED" => Printed(r)
      /\ resolving[o].answer = "REJECTED" => ~ Printed(r) /\ ~ Recorded(r)

IssueInv ==
  /\ TypeInv
  /\ \A r \in Requests : RequestRow(r)
  /\ OnePerPayment
  /\ \A o \in Operators : AnswerFits(o)

(* What the printer issued is the stored draft, which nobody rewrites, and *)
(* what is recorded was printed.                                           *)
Register ==
  /\ \A d \in printed : d[1] \in Requests /\ d = <<d[1], drafts[d[1]]>>
  /\ \A i \in invoices : i.request \in Requests
  /\ provider = "own" => printed = {}
  /\ RecordedAsPrinted

(* Every number was taken from the counter, which is past them all.        *)
Numbered ==
  provider = "own" =>
    /\ counter = None => invoices = {}
    /\ \A i \in invoices : i.control \in Nat /\ i.control < counter
    /\ NumbersRunOn
-----------------------------------------------------------------------------
USE DEF RequestStatus, IntentStatus, Outcome

(* Nothing is issued at first.                                             *)
LEMMA InitIssue == Init => IssueInv
  <1> SUFFICES ASSUME Init PROVE IssueInv OBVIOUS
  <1>1. TypeInv
    <2>1. intents \in [Payments -> IntentStatus] BY DEF Init
    <2> QED BY <2>1 DEF Init, TypeInv, Job
  <1>2. ASSUME NEW r \in Requests PROVE RequestRow(r)
    BY DEF Init, RequestRow, Printed, Recorded
  <1>3. OnePerPayment
    BY DEF Init, OnePerPayment
  <1>4. ASSUME NEW o \in Operators PROVE AnswerFits(o)
    BY DEF Init, AnswerFits
  <1> QED BY <1>1, <1>2, <1>3, <1>4 DEF IssueInv

(* A request is made: it was free, and nothing else holds its payment.     *)
LEMMA PrepareKeepsIssue ==
  ASSUME IssueInv, NEW r \in Requests, NEW p \in Payments, NEW intent \in BOOLEAN,
         Prepare(r, p, intent), intents' \in [Payments -> IntentStatus]
  PROVE  IssueInv'
  <1>1. /\ requests[r].status = "NONE" /\ ~ Requested(p)
        /\ requests' = [requests EXCEPT ![r] = [status |-> "PENDING", payment |-> p]]
        /\ jobs' = [jobs EXCEPT ![r] = [at |-> "PREPARED", intent |-> intent]]
        /\ DOMAIN drafts' = DOMAIN drafts
        /\ UNCHANGED <<provider, invoices, printed, resolving, series, counter, saving>>
    BY DEF Prepare, numbering
  <1>2. TypeInv'
    BY <1>1, SMT DEF IssueInv, TypeInv, Job
  <1>3. ASSUME NEW q \in Requests PROVE RequestRow(q)'
    BY <1>1, SMT DEF IssueInv, TypeInv, RequestRow, Printed, Recorded, Job
  <1>4. OnePerPayment'
    BY <1>1, SMT DEF IssueInv, TypeInv, OnePerPayment, Requested, RequestRow
  <1>5. ASSUME NEW o \in Operators PROVE AnswerFits(o)'
    BY <1>1, SMT DEF IssueInv, TypeInv, AnswerFits, RequestRow, Printed, Recorded, Job
  <1> QED BY <1>2, <1>3, <1>4, <1>5 DEF IssueInv

(* Only one process ends, with the intent it worked for.                   *)
LEMMA ConcludeTypes ==
  ASSUME TypeInv, NEW r \in Requests, NEW status, Conclude(r, status)
  PROVE  /\ jobs' = [jobs EXCEPT ![r].at = "OVER"]
         /\ jobs' \in [Requests -> Job]
         /\ intents' \in [Payments -> IntentStatus]
  <1>1. IntentOutcome(status) \in IntentStatus
    BY DEF IntentOutcome
  <1>2. jobs' = [jobs EXCEPT ![r].at = "OVER"]
    BY DEF Conclude
  <1>3. jobs' \in [Requests -> Job]
    BY <1>2 DEF TypeInv, Job
  <1>4. intents' \in [Payments -> IntentStatus]
    BY <1>1, Zenon DEF TypeInv, Conclude
  <1> QED BY <1>2, <1>3, <1>4

(* A step that leaves the rows alone and lets one process go on keeps      *)
(* everything but that process's own facts, which it has to bring.         *)
LEMMA JobKeepsIssue ==
  ASSUME IssueInv, NEW r \in Requests, NEW at, jobs[r].at \notin {"NONE", "OVER"},
         jobs' = [jobs EXCEPT ![r].at = at], jobs' \in [Requests -> Job],
         intents' \in [Payments -> IntentStatus],
         UNCHANGED <<provider, drafts, resolving, series, counter, saving>>,
         requests' \in [Requests -> [status : RequestStatus, payment : Payments \cup {None}]],
         \A q \in Requests : requests'[q].payment = requests[q].payment,
         \A q \in Requests \ {r} :
           requests'[q] = requests[q] /\ Printed(q)' = Printed(q) /\ Recorded(q)' = Recorded(q),
         requests'[r].status \notin {"NONE", "FAILED"} => requests[r].status \notin {"NONE", "FAILED"},
         RequestRow(r)'
  PROVE  IssueInv'
  <1>1. TypeInv'
    BY DEF IssueInv, TypeInv
  <1>2. ASSUME NEW q \in Requests PROVE RequestRow(q)'
    <2>1. CASE q = r BY <2>1
    <2>2. CASE q # r BY <2>2, SMT DEF IssueInv, TypeInv, RequestRow, Job
    <2> QED BY <2>1, <2>2
  <1>3. OnePerPayment'
    BY SMT DEF IssueInv, TypeInv, OnePerPayment
  <1>4. ASSUME NEW o \in Operators PROVE AnswerFits(o)'
    <2>1. CASE resolving[o] = None BY <2>1 DEF AnswerFits
    <2>2. CASE resolving[o] # None
      <3>1. resolving[o].request \in Requests \ {r}
        BY <2>2 DEF IssueInv, TypeInv, AnswerFits
      <3> QED BY <2>2, <3>1, SMT DEF IssueInv, TypeInv, AnswerFits, Job
    <2> QED BY <2>1, <2>2
  <1> QED BY <1>1, <1>2, <1>3, <1>4 DEF IssueInv

(* An operator who resolves a draft by hand keeps what is issued in        *)
(* order.                                                                  *)
LEMMA RecordKeepsIssue ==
  ASSUME IssueInv, NEW o \in Operators, Record(o)
  PROVE  IssueInv'
  <1> DEFINE r == resolving[o].request
             answer == resolving[o].answer
  <1>1. /\ resolving[o] # None /\ resolving' = [resolving EXCEPT ![o] = None]
        /\ UNCHANGED <<provider, intents, drafts, printed, jobs, series, counter, saving>>
    BY DEF Record, numbering
  <1>2. /\ r \in Requests /\ AnswerFits(o) /\ RequestRow(r)
        /\ jobs[r].at = "OVER" /\ requests[r].status # "NONE"
    BY <1>1 DEF IssueInv, TypeInv, AnswerFits, RequestRow
  <1>3. CASE answer = "REJECTED" /\ invoices' = invoices
             /\ requests' = [requests EXCEPT ![r].status = "FAILED"]
    <2>1. ~ Printed(r) /\ ~ Recorded(r)
      BY <1>1, <1>2, <1>3 DEF AnswerFits
    <2>2. \A q \in Requests : Printed(q)' = Printed(q) /\ Recorded(q)' = Recorded(q)
      BY <1>1, <1>3 DEF Printed, Recorded
    <2>3. TypeInv'
      BY <1>1, <1>2, <1>3, SMT DEF IssueInv, TypeInv
    <2>4. ASSUME NEW q \in Requests PROVE RequestRow(q)'
      BY <1>1, <1>2, <1>3, <2>1, <2>2, SMT DEF IssueInv, TypeInv, RequestRow
    <2>5. OnePerPayment'
      BY <1>1, <1>2, <1>3, SMT DEF IssueInv, TypeInv, OnePerPayment
    <2>6. ASSUME NEW a \in Operators PROVE AnswerFits(a)'
      BY <1>1, <2>2, SMT DEF IssueInv, TypeInv, AnswerFits
    <2> QED BY <2>3, <2>4, <2>5, <2>6 DEF IssueInv
  <1>4. CASE answer = "ISSUED" /\ Persist(r, DraftSent(r), None, None)
    <2>1. Printed(r) /\ requests[r].status # "FAILED"
      BY <1>1, <1>2, <1>4 DEF AnswerFits, RequestRow
    <2>2. /\ requests' = [requests EXCEPT ![r].status = "ISSUED"]
          /\ \A q \in Requests : Printed(q)' = Printed(q)
          /\ \A q \in Requests \ {r} : Recorded(q)' = Recorded(q)
      BY <1>1, <1>4 DEF Persist, Printed, Recorded
    <2>3. TypeInv'
      BY <1>1, <1>2, <2>2, SMT DEF IssueInv, TypeInv
    <2>4. ASSUME NEW q \in Requests PROVE RequestRow(q)'
      BY <1>1, <1>2, <2>1, <2>2, SMT DEF IssueInv, TypeInv, RequestRow
    <2>5. OnePerPayment'
      BY <1>1, <1>2, <2>1, <2>2, SMT DEF IssueInv, TypeInv, OnePerPayment
    <2>6. ASSUME NEW a \in Operators PROVE AnswerFits(a)'
      BY <1>1, <2>1, <2>2, SMT DEF IssueInv, TypeInv, AnswerFits
    <2> QED BY <2>3, <2>4, <2>5, <2>6 DEF IssueInv
  <1>5. CASE UNCHANGED <<requests, invoices>>
    <2>1. \A q \in Requests : Printed(q)' = Printed(q) /\ Recorded(q)' = Recorded(q)
      BY <1>1, <1>5 DEF Printed, Recorded
    <2>2. TypeInv'
      BY <1>1, <1>5, SMT DEF IssueInv, TypeInv
    <2>3. (\A q \in Requests : RequestRow(q)') /\ OnePerPayment'
      BY <1>1, <1>5, <2>1, SMT DEF IssueInv, RequestRow, OnePerPayment
    <2>4. ASSUME NEW a \in Operators PROVE AnswerFits(a)'
      BY <1>1, <2>1, SMT DEF IssueInv, TypeInv, AnswerFits
    <2> QED BY <2>2, <2>3, <2>4 DEF IssueInv
  <1> QED BY <1>3, <1>4, <1>5 DEF Record

(* Persisting the document of a request whose process is still there.      *)
LEMMA PersistKeepsIssue ==
  ASSUME IssueInv, NEW r \in Requests, NEW draft, NEW form, NEW control,
         jobs[r].at \in {"SENT", "ISSUED"},
         Persist(r, draft, form, control), Conclude(r, "ISSUED"),
         counter' \in Nat \cup {None}, series' = series,
         UNCHANGED <<provider, drafts, printed, resolving, saving>>
  PROVE  /\ IssueInv'
         /\ jobs[r].at = "ISSUED" => Printed(r)
         /\ requests[r].payment \in Payments
  <1>1. /\ requests' = [requests EXCEPT ![r].status = "ISSUED"]
        /\ \A q \in Requests : Printed(q)' = Printed(q)
        /\ \A q \in Requests \ {r} : Recorded(q)' = Recorded(q)
    BY DEF Persist, Printed, Recorded
  <1>2. /\ jobs' = [jobs EXCEPT ![r].at = "OVER"] /\ jobs' \in [Requests -> Job]
        /\ intents' \in [Payments -> IntentStatus]
    BY ConcludeTypes DEF IssueInv
  <1>3. requests' \in [Requests -> [status : RequestStatus, payment : Payments \cup {None}]]
    BY <1>1 DEF IssueInv, TypeInv
  <1>4. RequestRow(r) /\ requests[r].status = "SENT"
    BY DEF IssueInv, RequestRow
  <1>5. RequestRow(r)'
    BY <1>1, <1>2, <1>4, SMT DEF IssueInv, TypeInv, RequestRow
  <1>6. TypeInv'
    BY <1>2, <1>3, Zenon DEF IssueInv, TypeInv
  <1>7. ASSUME NEW q \in Requests PROVE RequestRow(q)'
    <2>1. CASE q = r BY <1>5, <2>1
    <2>2. CASE q # r BY <1>1, <1>2, <2>2, SMT DEF IssueInv, TypeInv, RequestRow
    <2> QED BY <2>1, <2>2
  <1>8. OnePerPayment'
    BY <1>1, <1>4, SMT DEF IssueInv, TypeInv, OnePerPayment
  <1>9. ASSUME NEW o \in Operators PROVE AnswerFits(o)'
    <2>1. CASE resolving[o] = None BY <2>1 DEF AnswerFits
    <2>2. CASE resolving[o] # None
      <3>1. resolving[o].request \in Requests \ {r}
        BY <1>4, <2>2 DEF IssueInv, TypeInv, AnswerFits
      <3> QED BY <1>1, <1>2, <2>2, <3>1, SMT DEF IssueInv, TypeInv, AnswerFits
    <2> QED BY <2>1, <2>2
  <1> QED BY <1>4, <1>6, <1>7, <1>8, <1>9 DEF IssueInv, RequestRow

(* Every step keeps what is issued in order.                               *)
LEMMA IssueStep == IssueInv /\ [Next]_vars => IssueInv'
  <1> SUFFICES ASSUME IssueInv, [Next]_vars PROVE IssueInv' OBVIOUS
  <1> USE DEF rows, numbering
  <1>1. ASSUME UNCHANGED <<provider, requests, drafts, invoices, printed, jobs>>,
               UNCHANGED <<resolving, counter>>,
               intents' \in [Payments -> IntentStatus],
               series' \in SeriesForms \cup {None}, saving' \in SeriesForms \cup {None}
        PROVE  IssueInv'
    <2>1. TypeInv'
      BY <1>1 DEF IssueInv, TypeInv
    <2>2. (\A r \in Requests : RequestRow(r)') /\ OnePerPayment' /\ \A o \in Operators : AnswerFits(o)'
      BY <1>1 DEF IssueInv, RequestRow, OnePerPayment, AnswerFits, Printed, Recorded
    <2> QED BY <2>1, <2>2 DEF IssueInv
  <1>2. ASSUME NEW p \in Payments, Confirm(p) \/ FulfilNot(p) PROVE IssueInv'
    <2>1. intents' \in [Payments -> IntentStatus]
      BY <1>2 DEF IssueInv, TypeInv, Confirm, FulfilNot
    <2> QED BY <1>1, <1>2, <2>1 DEF IssueInv, TypeInv, Confirm, FulfilNot
  <1>3. ASSUME NEW r \in Requests, NEW p \in Payments, GuestAsks(r, p) PROVE IssueInv'
    BY <1>3, PrepareKeepsIssue DEF IssueInv, TypeInv, GuestAsks
  <1>4. ASSUME NEW r \in Requests, NEW p \in Payments, Fulfil(r, p) PROVE IssueInv'
    <2>1. intents' \in [Payments -> IntentStatus]
      BY <1>4 DEF IssueInv, TypeInv, Fulfil
    <2> QED BY <1>4, <2>1, PrepareKeepsIssue DEF Fulfil
  <1>5. ASSUME NEW r \in Requests, Send(r) PROVE IssueInv'
    <2>1. /\ jobs[r].at = "PREPARED" /\ RequestRow(r)
          /\ requests' = [requests EXCEPT ![r].status = "SENT"]
          /\ jobs' = [jobs EXCEPT ![r].at = "SENT"]
          /\ \A q \in Requests : Printed(q)' = Printed(q) /\ Recorded(q)' = Recorded(q)
      BY <1>5 DEF Send, IssueInv, Printed, Recorded
    <2>2. jobs' \in [Requests -> Job]
      BY <2>1 DEF IssueInv, TypeInv, Job
    <2>3. RequestRow(r)'
      BY <2>1, <2>2, SMT DEF IssueInv, TypeInv, RequestRow
    <2>4. requests[r].status = "PENDING"
      BY <2>1 DEF RequestRow
    <2>5. /\ requests' \in [Requests -> [status : RequestStatus, payment : Payments \cup {None}]]
          /\ \A q \in Requests : requests'[q].payment = requests[q].payment
          /\ \A q \in Requests \ {r} : requests'[q] = requests[q]
      BY <2>1, SMT DEF IssueInv, TypeInv
    <2> QED BY <1>5, <2>1, <2>2, <2>3, <2>4, <2>5, JobKeepsIssue DEF Send, IssueInv, TypeInv
  <1>6. ASSUME NEW r \in Requests, Issue(r) PROVE IssueInv'
    <2>1. PICK outcome \in Outcome, yes \in BOOLEAN :
            /\ outcome = "ISSUED" => yes
            /\ outcome = "REJECTED" => ~ yes
            /\ printed' = IF yes THEN printed \cup {<<r, drafts[r]>>} ELSE printed
            /\ jobs' = [jobs EXCEPT ![r].at = outcome]
      BY <1>6 DEF Issue
    <2>2. jobs[r].at = "SENT" /\ RequestRow(r) /\ UNCHANGED <<requests, invoices, intents>>
      BY <1>6 DEF Issue, IssueInv
    <2>3. /\ Printed(r)' <=> yes \/ Printed(r)
          /\ \A q \in Requests \ {r} : Printed(q)' = Printed(q)
          /\ \A q \in Requests : Recorded(q)' = Recorded(q)
      <3>1. <<r, drafts[r]>>[1] = r OBVIOUS
      <3>2. CASE yes
        BY <2>1, <2>2, <3>1, <3>2 DEF Printed, Recorded
      <3>3. CASE ~ yes
        BY <2>1, <2>2, <3>3 DEF Printed, Recorded
      <3> QED BY <3>2, <3>3
    <2>4. jobs' \in [Requests -> Job]
      BY <2>1 DEF IssueInv, TypeInv, Job
    <2>5. RequestRow(r)'
      BY <2>1, <2>2, <2>3, <2>4, SMT DEF IssueInv, TypeInv, RequestRow
    <2> QED BY <1>6, <2>1, <2>2, <2>3, <2>4, <2>5, JobKeepsIssue DEF Issue, IssueInv, TypeInv
  <1>7. ASSUME NEW r \in Requests, AskInDoubt(r) PROVE IssueInv'
    <2>1. PICK answer \in LookupAnswers(r) :
            jobs' = [jobs EXCEPT ![r].at = IF answer = "UNCERTAIN" THEN "SILENT" ELSE answer]
      BY <1>7 DEF AskInDoubt
    <2> DEFINE at == IF answer = "UNCERTAIN" THEN "SILENT" ELSE answer
    <2>2. /\ at \in {"SILENT", "ISSUED", "REJECTED"}
          /\ at = "ISSUED" => Printed(r)
          /\ at = "REJECTED" => ~ Printed(r)
      BY <2>1 DEF LookupAnswers
    <2>3. jobs[r].at = "UNCERTAIN" /\ RequestRow(r) /\ UNCHANGED <<requests, invoices, printed, intents>>
      BY <1>7 DEF AskInDoubt, IssueInv
    <2>4. \A q \in Requests : Printed(q)' = Printed(q) /\ Recorded(q)' = Recorded(q)
      BY <2>3 DEF Printed, Recorded
    <2>5. jobs' = [jobs EXCEPT ![r].at = at] BY <2>1
    <2> HIDE DEF at
    <2>6. jobs' \in [Requests -> Job]
      BY <2>2, <2>5 DEF IssueInv, TypeInv, Job
    <2>7. RequestRow(r)'
      BY <2>2, <2>3, <2>4, <2>5, <2>6, SMT DEF IssueInv, TypeInv, RequestRow
    <2> QED BY <1>7, <2>3, <2>4, <2>5, <2>6, <2>7, JobKeepsIssue DEF AskInDoubt, IssueInv, TypeInv
  <1>8. ASSUME NEW r \in Requests, NotIssued(r) PROVE IssueInv'
    <2> DEFINE status == IF jobs[r].at = "SILENT" THEN "UNCERTAIN" ELSE "FAILED"
    <2>1. /\ jobs[r].at \in {"REJECTED", "SILENT"} /\ RequestRow(r)
          /\ requests' = [requests EXCEPT ![r].status = status]
          /\ Conclude(r, status)
          /\ \A q \in Requests : Printed(q)' = Printed(q) /\ Recorded(q)' = Recorded(q)
      BY <1>8 DEF NotIssued, IssueInv, Printed, Recorded
    <2>2. /\ jobs' = [jobs EXCEPT ![r].at = "OVER"] /\ jobs' \in [Requests -> Job]
          /\ intents' \in [Payments -> IntentStatus]
      BY <2>1, ConcludeTypes DEF IssueInv
    <2>3. RequestRow(r)' /\ requests[r].status = "SENT"
      BY <2>1, <2>2, SMT DEF IssueInv, TypeInv, RequestRow
    <2>4. /\ requests' \in [Requests -> [status : RequestStatus, payment : Payments \cup {None}]]
          /\ \A q \in Requests : requests'[q].payment = requests[q].payment
          /\ \A q \in Requests \ {r} : requests'[q] = requests[q]
      BY <2>1, SMT DEF IssueInv, TypeInv
    <2> QED BY <1>8, <2>1, <2>2, <2>3, <2>4, JobKeepsIssue DEF NotIssued, IssueInv, TypeInv
  <1>9. ASSUME NEW r \in Requests, PersistPrinted(r) PROVE IssueInv'
    BY <1>9, PersistKeepsIssue DEF PersistPrinted, IssueInv, TypeInv
  <1>10. ASSUME NEW r \in Requests, PersistOwn(r) PROVE IssueInv'
    <2>1. counter' \in Nat
      BY <1>10, FiscalAssumption DEF PersistOwn, Numbers, TakeCounter, IssueInv, TypeInv
    <2> QED BY <1>10, <2>1, PersistKeepsIssue DEF PersistOwn
  <1>11. ASSUME NEW r \in Requests, Abandon(r) PROVE IssueInv'
    <2>1. /\ jobs[r].at \notin {"NONE", "OVER"} /\ RequestRow(r)
          /\ Conclude(r, "FAILED") /\ requests' = requests
          /\ \A q \in Requests : Printed(q)' = Printed(q) /\ Recorded(q)' = Recorded(q)
      BY <1>11 DEF Abandon, IssueInv, Printed, Recorded
    <2>2. /\ jobs' = [jobs EXCEPT ![r].at = "OVER"] /\ jobs' \in [Requests -> Job]
          /\ intents' \in [Payments -> IntentStatus]
      BY <2>1, ConcludeTypes DEF IssueInv
    <2>3. RequestRow(r)'
      BY <2>1, <2>2, SMT DEF IssueInv, TypeInv, RequestRow
    <2> QED BY <1>11, <2>1, <2>2, <2>3, JobKeepsIssue DEF Abandon, IssueInv, TypeInv
  <1>12. ASSUME NEW o \in Operators, NEW r \in Requests, Ask(o, r) PROVE IssueInv'
    <2>1. PICK answer \in LookupAnswers(r) :
            resolving' = [resolving EXCEPT ![o] = [request |-> r, answer |-> answer]]
      BY <1>12 DEF Ask
    <2>2. /\ requests[r].status = "UNCERTAIN" /\ jobs[r].at = "OVER" /\ ~ Recorded(r)
          /\ answer \in Outcome
          /\ answer = "ISSUED" => Printed(r)
          /\ answer = "REJECTED" => ~ Printed(r)
      BY <1>12, <2>1 DEF Ask, LookupAnswers, IssueInv, TypeInv, RequestRow, Job
    <2>3. \A q \in Requests : Printed(q)' = Printed(q) /\ Recorded(q)' = Recorded(q)
      BY <1>12 DEF Ask, Printed, Recorded
    <2>4. TypeInv'
      BY <1>12, <2>1, <2>2, SMT DEF Ask, IssueInv, TypeInv
    <2>5. (\A q \in Requests : RequestRow(q)') /\ OnePerPayment'
      BY <1>12, <2>3, SMT DEF Ask, IssueInv, RequestRow, OnePerPayment
    <2>6. ASSUME NEW a \in Operators PROVE AnswerFits(a)'
      BY <1>12, <2>1, <2>2, <2>3, SMT DEF Ask, IssueInv, TypeInv, AnswerFits
    <2> QED BY <2>4, <2>5, <2>6 DEF IssueInv
  <1>13. ASSUME NEW o \in Operators, Record(o) PROVE IssueInv'
    BY <1>13, RecordKeepsIssue
  <1>14. ASSUME NEW s \in SeriesForms, CheckSeries(s) PROVE IssueInv'
    BY <1>1, <1>14 DEF CheckSeries, IssueInv, TypeInv
  <1>15. CASE WriteSeries
    BY <1>1, <1>15 DEF WriteSeries, IssueInv, TypeInv
  <1>16. CASE UNCHANGED vars
    BY <1>1, <1>16 DEF vars, IssueInv, TypeInv
  <1> QED
    BY <1>2, <1>3, <1>4, <1>5, <1>6, <1>7, <1>8, <1>9, <1>10, <1>11, <1>12, <1>13, <1>14,
       <1>15, <1>16 DEF Next
-----------------------------------------------------------------------------
(* Drafts change, and documents appear, only in these ways.                *)
LEMMA DocumentsStep ==
  ASSUME IssueInv, [Next]_vars
  PROVE  /\ provider' = provider
         /\ \/ UNCHANGED <<drafts, invoices, printed>>
            \/ \E r \in Requests :
                 /\ ~ Printed(r) /\ UNCHANGED <<invoices, printed>>
                 /\ DOMAIN drafts' = DOMAIN drafts
                 /\ \A q \in Requests \ {r} : drafts'[q] = drafts[q]
            \/ \E r \in Requests :
                 /\ provider = "press" /\ UNCHANGED <<drafts, invoices>>
                 /\ printed' \in {printed, printed \cup {<<r, drafts[r]>>}}
            \/ \E r \in Requests : \E form, control :
                 /\ UNCHANGED <<drafts, printed>>
                 /\ invoices' = invoices \cup
                      {[request |-> r, draft |-> drafts[r], form |-> form, control |-> control]}
                 /\ Printed(r) \/ provider = "own"
  <1> USE DEF rows, numbering
  <1>1. ASSUME NEW p \in Payments, Confirm(p) \/ FulfilNot(p)
        PROVE  UNCHANGED <<provider, drafts, invoices, printed>>
    BY <1>1 DEF Confirm, FulfilNot
  <1>2. ASSUME NEW r \in Requests, NEW p \in Payments, GuestAsks(r, p) \/ Fulfil(r, p)
        PROVE  /\ ~ Printed(r) /\ UNCHANGED <<provider, invoices, printed>>
               /\ DOMAIN drafts' = DOMAIN drafts
               /\ \A q \in Requests \ {r} : drafts'[q] = drafts[q]
    <2>1. /\ requests[r].status = "NONE" /\ UNCHANGED <<provider, invoices, printed>>
          /\ drafts' = [drafts EXCEPT ![r] = DraftFor(p)]
      BY <1>2 DEF GuestAsks, Fulfil, Prepare
    <2> QED BY <2>1 DEF IssueInv, TypeInv, RequestRow
  <1>3. ASSUME NEW r \in Requests, Send(r) \/ AskInDoubt(r) \/ NotIssued(r) \/ Abandon(r)
        PROVE  UNCHANGED <<provider, drafts, invoices, printed>>
    BY <1>3 DEF Send, AskInDoubt, NotIssued, Abandon
  <1>4. ASSUME NEW r \in Requests, Issue(r)
        PROVE  /\ provider = "press" /\ UNCHANGED <<provider, drafts, invoices>>
               /\ printed' \in {printed, printed \cup {<<r, drafts[r]>>}}
    BY <1>4 DEF Issue
  <1>5. ASSUME NEW r \in Requests, PersistPrinted(r)
        PROVE  /\ UNCHANGED <<provider, drafts, printed>> /\ Printed(r)
               /\ invoices' = invoices \cup
                    {[request |-> r, draft |-> drafts[r], form |-> None, control |-> None]}
    BY <1>5 DEF PersistPrinted, Persist, IssueInv, RequestRow
  <1>6. ASSUME NEW r \in Requests, PersistOwn(r)
        PROVE  /\ UNCHANGED <<provider, drafts, printed>> /\ provider = "own"
               /\ invoices' = invoices \cup
                    {[request |-> r, draft |-> drafts[r], form |-> series.form, control |-> TakeCounter]}
    BY <1>6 DEF PersistOwn, Persist
  <1>7. ASSUME NEW o \in Operators, Record(o)
        PROVE  /\ UNCHANGED <<provider, drafts, printed>>
               /\ \/ invoices' = invoices
                  \/ \E r \in Requests :
                       /\ Printed(r)
                       /\ invoices' = invoices \cup
                            {[request |-> r, draft |-> drafts[r], form |-> None, control |-> None]}
    BY <1>7 DEF Record, Persist, DraftSent, IssueInv, TypeInv, AnswerFits
  <1>8. ASSUME NEW o \in Operators, NEW r \in Requests, Ask(o, r)
        PROVE  UNCHANGED <<provider, drafts, invoices, printed>>
    BY <1>8 DEF Ask
  <1>9. ASSUME NEW s \in SeriesForms, CheckSeries(s) \/ WriteSeries
        PROVE  UNCHANGED <<provider, drafts, invoices, printed>>
    BY <1>9 DEF CheckSeries, WriteSeries
  <1>10. CASE UNCHANGED vars
    BY <1>10 DEF vars
  <1>11. CASE WriteSeries
    BY <1>11 DEF WriteSeries
  <1> QED
    BY <1>1, <1>2, <1>3, <1>4, <1>5, <1>6, <1>7, <1>8, <1>9, <1>10, <1>11 DEF Next

(* Every step keeps the register and the drafts in agreement.              *)
LEMMA RegisterStep == IssueInv /\ Register /\ [Next]_vars => Register'
  <1> SUFFICES ASSUME IssueInv, Register, [Next]_vars PROVE Register' OBVIOUS
  <1>1. provider' = provider /\ DOMAIN drafts = Requests
    BY DocumentsStep DEF IssueInv, TypeInv
  <1>2. CASE UNCHANGED <<drafts, invoices, printed>>
    BY <1>1, <1>2 DEF Register, RecordedAsPrinted
  <1>3. ASSUME NEW r \in Requests, ~ Printed(r), UNCHANGED <<invoices, printed>>,
               \A q \in Requests \ {r} : drafts'[q] = drafts[q]
        PROVE  Register'
    <2>1. \A d \in printed : d[1] \in Requests \ {r}
      BY <1>3 DEF Register, Printed
    <2> QED BY <1>1, <1>3, <2>1 DEF Register, RecordedAsPrinted
  <1>4. ASSUME NEW r \in Requests, provider = "press", UNCHANGED <<drafts, invoices>>,
               printed' \in {printed, printed \cup {<<r, drafts[r]>>}}
        PROVE  Register'
    BY <1>1, <1>4 DEF Register, RecordedAsPrinted
  <1>5. ASSUME NEW r \in Requests, NEW form, NEW control, UNCHANGED <<drafts, printed>>,
               invoices' = invoices \cup
                 {[request |-> r, draft |-> drafts[r], form |-> form, control |-> control]},
               Printed(r) \/ provider = "own"
        PROVE  Register'
    <2>1. CASE provider = "own"
      BY <1>1, <1>5, <2>1 DEF Register, RecordedAsPrinted
    <2>2. CASE Printed(r)
      <3>1. <<r, drafts[r]>> \in printed
        BY <2>2 DEF Printed, Register
      <3> QED BY <1>1, <1>5, <3>1 DEF Register, RecordedAsPrinted
    <2> QED BY <1>5, <2>1, <2>2
  <1> QED BY <1>2, <1>3, <1>4, <1>5, DocumentsStep

(* Every step keeps own numbers without gap or repeat.                     *)
LEMMA NumberedStep == IssueInv /\ Register /\ Numbered /\ [Next]_vars => Numbered'
  <1> SUFFICES ASSUME IssueInv, Register, Numbered, [Next]_vars, provider = "own" PROVE Numbered'
    BY DocumentsStep DEF Numbered
  <1> USE DEF rows, numbering
  <1>1. \A r \in Requests : ~ Printed(r)
    BY DEF Register, Printed
  <1>2. ASSUME UNCHANGED <<provider, invoices, counter>> PROVE Numbered'
    BY <1>2 DEF Numbered, NumbersRunOn
  <1>3. ASSUME NEW p \in Payments, Confirm(p) \/ FulfilNot(p) PROVE Numbered'
    BY <1>2, <1>3 DEF Confirm, FulfilNot
  <1>4. ASSUME NEW r \in Requests, NEW p \in Payments, GuestAsks(r, p) \/ Fulfil(r, p)
        PROVE  Numbered'
    BY <1>2, <1>4 DEF GuestAsks, Fulfil, Prepare
  <1>5. ASSUME NEW r \in Requests,
               Send(r) \/ Issue(r) \/ AskInDoubt(r) \/ NotIssued(r) \/ Abandon(r)
        PROVE  Numbered'
    BY <1>2, <1>5 DEF Send, Issue, AskInDoubt, NotIssued, Abandon
  <1>6. ASSUME NEW r \in Requests, PersistPrinted(r) PROVE Numbered'
    BY <1>1, <1>6 DEF PersistPrinted, IssueInv, RequestRow
  <1>7. ASSUME NEW r \in Requests, PersistOwn(r) PROVE Numbered'
    <2>1. PICK i : /\ i.control = TakeCounter
                   /\ invoices' = invoices \cup {i}
                   /\ counter' = TakeCounter + 1 /\ provider' = provider
      <3> DEFINE i == [request |-> r, draft |-> drafts[r], form |-> series.form,
                       control |-> TakeCounter]
      <3>1. i.control = TakeCounter OBVIOUS
      <3>2. invoices' = invoices \cup {i} /\ counter' = TakeCounter + 1 /\ provider' = provider
        BY <1>7 DEF PersistOwn, Persist
      <3> QED BY <3>1, <3>2
    <2>2. TakeCounter \in Nat /\ counter' # None
      BY <1>7, <2>1, FiscalAssumption DEF PersistOwn, Numbers, TakeCounter, IssueInv, TypeInv
    <2>3. /\ \A j \in invoices : j.control \in Nat /\ j.control < TakeCounter
          /\ \A j \in invoices : j.control + 1 # TakeCounter => \E k \in invoices : k.control = j.control + 1
          /\ \A j, k \in invoices : j # k => j.control # k.control
      BY DEF Numbered, NumbersRunOn, TakeCounter
    <2> HIDE DEF TakeCounter
    <2>4. \A j \in invoices' : j.control \in Nat /\ j.control < counter'
      BY <2>1, <2>2, <2>3
    <2>5. \A j \in invoices' : j.control + 1 # counter' => \E k \in invoices' : k.control = j.control + 1
      BY <2>1, <2>2, <2>3
    <2>6. \A j, k \in invoices' : j # k => j.control # k.control
      BY <2>1, <2>2, <2>3
    <2> QED BY <2>2, <2>4, <2>5, <2>6 DEF Numbered, NumbersRunOn
  <1>8. ASSUME NEW o \in Operators, Record(o) PROVE Numbered'
    BY <1>1, <1>2, <1>8 DEF Record, IssueInv, TypeInv, AnswerFits
  <1>9. ASSUME NEW o \in Operators, NEW r \in Requests, Ask(o, r) PROVE Numbered'
    BY <1>2, <1>9 DEF Ask
  <1>10. ASSUME NEW s \in SeriesForms, CheckSeries(s) PROVE Numbered'
    BY <1>2, <1>10 DEF CheckSeries
  <1>11. CASE WriteSeries
    BY <1>2, <1>11 DEF WriteSeries
  <1>12. CASE UNCHANGED vars
    BY <1>2, <1>12 DEF vars
  <1> QED
    BY <1>3, <1>4, <1>5, <1>6, <1>7, <1>8, <1>9, <1>10, <1>11, <1>12 DEF Next

(* Every step keeps the invoice of an intent told as issued.               *)
LEMMA IntentStep == IssueInv /\ Register /\ IntentKept /\ [Next]_vars => IntentKept'
  <1> SUFFICES ASSUME IssueInv, Register, IntentKept, [Next]_vars PROVE IntentKept' OBVIOUS
  <1> USE DEF rows, numbering
  <1>1. \A i \in invoices : i.request \in Requests /\ Recorded(i.request)
    BY DEF Register, Recorded
  (* An invoice stays, and so does the payment of its request: what is to  *)
  (* be seen to is an intent newly told as ISSUED.                         *)
  <1>2. ASSUME invoices \subseteq invoices',
               \A r \in Requests : Recorded(r) => requests'[r].payment = requests[r].payment,
               \A p \in Payments : intents'[p] = "ISSUED" /\ intents[p] # "ISSUED" =>
                 \E i \in invoices' : requests'[i.request].payment = p
        PROVE  IntentKept'
    BY <1>1, <1>2 DEF IntentKept
  <1>3. ASSUME NEW p \in Payments, Confirm(p) \/ FulfilNot(p) PROVE IntentKept'
    <2>1. \A q \in Payments : intents'[q] = "ISSUED" => intents[q] = "ISSUED"
      BY <1>3 DEF Confirm, FulfilNot, IssueInv, TypeInv
    <2> QED BY <1>2, <1>3, <2>1 DEF Confirm, FulfilNot
  <1>4. ASSUME NEW r \in Requests, NEW p \in Payments, GuestAsks(r, p) \/ Fulfil(r, p)
        PROVE  IntentKept'
    <2>1. \A q \in Payments : intents'[q] = "ISSUED" => intents[q] = "ISSUED"
      BY <1>4 DEF GuestAsks, Fulfil, IssueInv, TypeInv
    <2>2. /\ ~ Recorded(r) /\ invoices' = invoices
          /\ requests' = [requests EXCEPT ![r] = [status |-> "PENDING", payment |-> p]]
      BY <1>4 DEF GuestAsks, Fulfil, Prepare, IssueInv, RequestRow
    <2>3. \A q \in Requests : Recorded(q) => requests'[q].payment = requests[q].payment
      BY <2>2 DEF IssueInv, TypeInv
    <2> QED BY <1>2, <2>1, <2>2, <2>3
  <1>5. ASSUME NEW r \in Requests, NEW status \in {"FAILED", "UNCERTAIN"},
               Conclude(r, status), invoices' = invoices,
               \A q \in Requests : requests'[q].payment = requests[q].payment
        PROVE  IntentKept'
    <2>1. \A q \in Payments : intents'[q] = "ISSUED" => intents[q] = "ISSUED"
      <3>1. IntentOutcome(status) = "FAILED" BY <1>5 DEF IntentOutcome
      <3> QED BY <1>5, <3>1 DEF Conclude, IssueInv, TypeInv
    <2> QED BY <1>2, <1>5, <2>1
  <1>6. ASSUME NEW r \in Requests, NEW draft, NEW form, NEW control,
               Persist(r, draft, form, control), Conclude(r, "ISSUED")
        PROVE  IntentKept'
    <2>1. requests' = [requests EXCEPT ![r].status = "ISSUED"]
      BY <1>6 DEF Persist
    <2>2. \A q \in Requests : requests'[q].payment = requests[q].payment
      BY <2>1, SMT DEF IssueInv, TypeInv
    <2>3. invoices \subseteq invoices' /\ \E i \in invoices' : i.request = r
      <3> DEFINE i == [request |-> r, draft |-> draft, form |-> form, control |-> control]
      <3>1. i.request = r OBVIOUS
      <3>2. invoices' = invoices \cup {i} BY <1>6 DEF Persist
      <3> QED BY <3>1, <3>2
    <2>4. \A q \in Payments : intents'[q] = "ISSUED" => intents[q] = "ISSUED" \/ q = requests[r].payment
      BY <1>6, Zenon DEF Conclude, IssueInv, TypeInv
    <2> QED BY <1>2, <2>2, <2>3, <2>4
  <1>7. ASSUME NEW r \in Requests, Send(r) \/ Issue(r) \/ AskInDoubt(r) PROVE IntentKept'
    <2>1. UNCHANGED <<intents, invoices>> BY <1>7 DEF Send, Issue, AskInDoubt
    <2>2. \A q \in Requests : requests'[q].payment = requests[q].payment
      BY <1>7, SMT DEF Send, Issue, AskInDoubt, IssueInv, TypeInv
    <2> QED BY <1>2, <2>1, <2>2
  <1>8. ASSUME NEW r \in Requests, NotIssued(r) PROVE IntentKept'
    <2>1. PICK status \in {"FAILED", "UNCERTAIN"} :
            requests' = [requests EXCEPT ![r].status = status] /\ Conclude(r, status)
      BY <1>8 DEF NotIssued
    <2>2. \A q \in Requests : requests'[q].payment = requests[q].payment
      BY <2>1, SMT DEF IssueInv, TypeInv
    <2> QED BY <1>5, <1>8, <2>1, <2>2 DEF NotIssued
  <1>9. ASSUME NEW r \in Requests, Abandon(r) PROVE IntentKept'
    BY <1>5, <1>9 DEF Abandon
  <1>10. ASSUME NEW r \in Requests, PersistPrinted(r) \/ PersistOwn(r) PROVE IntentKept'
    BY <1>6, <1>10 DEF PersistPrinted, PersistOwn
  <1>11. ASSUME NEW o \in Operators, Record(o) PROVE IntentKept'
    <2>1. UNCHANGED intents /\ invoices \subseteq invoices'
      BY <1>11 DEF Record, Persist
    <2> DEFINE r == resolving[o].request
    <2>2. /\ r \in Requests
          /\ \/ requests' = requests
             \/ requests' = [requests EXCEPT ![r].status = "FAILED"]
             \/ requests' = [requests EXCEPT ![r].status = "ISSUED"]
      BY <1>11 DEF Record, Persist, IssueInv, TypeInv
    <2> HIDE DEF r
    <2>3. \A q \in Requests : requests'[q].payment = requests[q].payment
      BY <2>2, SMT DEF IssueInv, TypeInv
    <2> QED BY <1>2, <2>1, <2>3
  <1>12. ASSUME NEW o \in Operators, NEW r \in Requests, Ask(o, r) PROVE IntentKept'
    BY <1>2, <1>12 DEF Ask
  <1>13. ASSUME NEW s \in SeriesForms, CheckSeries(s) PROVE IntentKept'
    BY <1>2, <1>13 DEF CheckSeries
  <1>14. CASE WriteSeries
    BY <1>2, <1>14 DEF WriteSeries
  <1>15. CASE UNCHANGED vars
    BY <1>2, <1>15 DEF vars
  <1> QED
    BY <1>3, <1>4, <1>7, <1>8, <1>9, <1>10, <1>11, <1>12, <1>13, <1>14, <1>15 DEF Next
-----------------------------------------------------------------------------
FiscalInv == IssueInv /\ Register /\ Numbered /\ IntentKept

(* The inductive invariant of fiscal invoicing.                            *)
LEMMA FiscalInvariant == Spec => []FiscalInv
  <1>1. Init => FiscalInv
    BY InitIssue DEF Init, FiscalInv, Register, RecordedAsPrinted, Numbered, NumbersRunOn, IntentKept
  <1>2. FiscalInv /\ [Next]_vars => FiscalInv'
    BY IssueStep, RegisterStep, NumberedStep, IntentStep DEF FiscalInv
  <1> QED BY <1>1, <1>2, PTL DEF Spec

(* A payment is documented once, by the restaurant or by the printer,      *)
(* whatever is asked twice, times out, dies or is resolved at once         *)
(* (fiscal_requests_payment_idx, sendAndRecord, resolveUncertain).         *)
THEOREM OneDocumentHolds == Spec => []OneDocument
  <1>1. FiscalInv => OneDocument
    <2> SUFFICES ASSUME IssueInv, NEW r \in Requests, NEW q \in Requests, r # q,
                        Documented(r), Documented(q), requests[r].payment = requests[q].payment
                 PROVE  FALSE
      BY DEF FiscalInv, OneDocument
    <2>1. requests[r].status \notin {"NONE", "FAILED"} /\ requests[q].status \notin {"NONE", "FAILED"}
      BY DEF IssueInv, RequestRow, Documented
    <2> QED BY <2>1 DEF IssueInv, OnePerPayment
  <1> QED BY <1>1, FiscalInvariant, PTL

(* The register of a restaurant with a printer holds what the printer      *)
(* issued, draft for draft (persistIssued, reviveDraft).                   *)
THEOREM RecordedAsPrintedHolds == Spec => []RecordedAsPrinted
  <1>1. FiscalInv => RecordedAsPrinted
    BY DEF FiscalInv, Register
  <1> QED BY <1>1, FiscalInvariant, PTL

(* Own control numbers have no gap and no repeat, whatever the owner does  *)
(* to the series meanwhile (takeCounter, allocate, writeSeries).           *)
THEOREM NumbersRunOnHolds == Spec => []NumbersRunOn
  <1>1. FiscalInv => NumbersRunOn
    BY DEF FiscalInv, Numbered, NumbersRunOn
  <1> QED BY <1>1, FiscalInvariant, PTL

(* An intent told as ISSUED has its invoice (fulfil).                      *)
THEOREM IntentKeptHolds == Spec => []IntentKept
  <1>1. FiscalInv => IntentKept
    BY DEF FiscalInv
  <1> QED BY <1>1, FiscalInvariant, PTL

-----------------------------------------------------------------------------
(* Induction.  The library's induction theorems take an operator, which    *)
(* cannot be instantiated here; these take the set of what the claim holds *)
(* of instead.                                                             *)

(* Of some natural numbers one is the least.                               *)
LEMMA LeastNatural ==
  ASSUME NEW T \in SUBSET Nat, T # {}
  PROVE  \E n \in T : \A m \in T : n <= m
<1> DEFINE R == OpToRel(<, Nat)
<1>1. IsWellFoundedOn(R, Nat)
  BY NatLessThanWellFounded
<1>2. \A x, y \in Nat : <<x, y>> \in R <=> x < y
  BY DEF OpToRel
<1> HIDE DEF R
<1>3. PICK n \in T : \A m \in T : ~ (<<m, n>> \in R)
  BY <1>1, WFMin
<1>4. ASSUME NEW m \in T PROVE n <= m
  <2>1. m \in Nat /\ n \in Nat /\ ~ (m < n)
    BY <1>2, <1>3
  <2> QED BY <2>1
<1> QED BY <1>4

(* What holds of a finite set when it holds of its smaller subsets, and    *)
(* what holds of {} and of one element more.                               *)
LEMMA BySize ==
  ASSUME NEW S, IsFiniteSet(S), NEW C,
         \A T \in SUBSET S : (\A U \in SUBSET T : U # T => U \in C) => T \in C
  PROVE  S \in C
<1> DEFINE D == {T \in SUBSET S : T \notin C}
           sizes == {Cardinality(T) : T \in D}
<1>1. \A T \in SUBSET S : IsFiniteSet(T) /\ Cardinality(T) \in Nat
  BY FS_Subset, FS_CardinalityType
<1> SUFFICES ASSUME S \notin C PROVE FALSE
  OBVIOUS
<1>2. sizes \in SUBSET Nat /\ sizes # {}
  BY <1>1
<1>3. PICK n \in sizes : \A m \in sizes : n <= m
  <2> HIDE DEF sizes
  <2> QED BY <1>2, LeastNatural
<1>4. PICK T \in D : Cardinality(T) = n
  OBVIOUS
<1>5. ASSUME NEW U \in SUBSET T, U # T, U \notin C PROVE FALSE
  <2>1. U \in SUBSET S /\ Cardinality(U) \in sizes
    BY <1>4, <1>5
  <2>2. Cardinality(U) < Cardinality(T)
    BY <1>1, <1>4, <1>5, FS_Subset
  <2>3. n <= Cardinality(U) /\ Cardinality(U) \in Nat /\ n \in Nat
    BY <1>1, <1>2, <1>3, <2>1
  <2> HIDE DEF sizes, D
  <2> QED BY <1>4, <2>2, <2>3
<1> QED BY <1>4, <1>5

(* What holds of {}, and of one element more, holds of a finite set.       *)
LEMMA OneByOne ==
  ASSUME NEW S, IsFiniteSet(S), NEW C, {} \in C,
         \A T \in SUBSET S : \A x \in S \ T : T \in C => T \cup {x} \in C
  PROVE  S \in C
<1>1. ASSUME NEW T \in SUBSET S, \A U \in SUBSET T : U # T => U \in C PROVE T \in C
  <2>1. CASE T = {}
    BY <2>1
  <2>2. ASSUME NEW x \in T PROVE T \in C
    <3>1. T \ {x} \in C /\ (T \ {x}) \cup {x} = T /\ x \in S \ (T \ {x})
      BY <1>1
    <3> QED BY <3>1
  <2> QED BY <2>1, <2>2
<1> QED BY <1>1, BySize

(* What holds of 0, and of the next number, holds of every number.         *)
LEMMA StepByStep ==
  ASSUME NEW n \in Nat, NEW C, 0 \in C, \A k \in 0 .. n - 1 : k \in C => k + 1 \in C
  PROVE  n \in C
<1> SUFFICES ASSUME n \notin C PROVE FALSE
  OBVIOUS
<1> DEFINE D == {k \in 0 .. n : k \notin C}
<1>1. D \in SUBSET Nat /\ D # {}
  OBVIOUS
<1>2. PICK k \in D : \A m \in D : k <= m
  <2> HIDE DEF D
  <2> QED BY <1>1, LeastNatural
<1>3. k - 1 \in 0 .. n - 1 /\ k - 1 \notin D /\ (k - 1) + 1 = k
  BY <1>2
<1> QED BY <1>2, <1>3

(* A sum, one element at a time.                                           *)

Chosen(S) == CHOOSE x \in S : TRUE

(* A sum taken off one element at a time, as the fold of SumOver does.     *)
Unfolds(h, f, S) ==
  h = [T \in SUBSET S |-> IF T = {} THEN 0 ELSE f[Chosen(T)] + h[T \ {Chosen(T)}]]

(* Two unfoldings agree where both are defined.                            *)
LEMMA UnfoldsOnce ==
  ASSUME NEW S, NEW T, NEW f, NEW g, NEW h, NEW k,
         Unfolds(h, f, S), Unfolds(k, g, T),
         NEW U \in SUBSET (S \cap T), IsFiniteSet(U), \A x \in U : f[x] = g[x]
  PROVE  h[U] = k[U]
<1> DEFINE C == {V \in SUBSET U : h[V] = k[V]}
<1>1. ASSUME NEW V \in SUBSET U, \A W \in SUBSET V : W # V => W \in C PROVE V \in C
  <2>1. V \in SUBSET S /\ V \in SUBSET T
    OBVIOUS
  <2>2. CASE V = {}
    BY <2>1, <2>2 DEF Unfolds
  <2>3. CASE V # {}
    <3>1. Chosen(V) \in V
      BY <2>3 DEF Chosen
    <3>2. /\ h[V] = f[Chosen(V)] + h[V \ {Chosen(V)}]
          /\ k[V] = g[Chosen(V)] + k[V \ {Chosen(V)}]
      BY <2>1, <2>3 DEF Unfolds
    <3>3. V \ {Chosen(V)} \in C
      BY <1>1, <3>1
    <3> QED BY <3>1, <3>2, <3>3
  <2> QED BY <2>2, <2>3
<1>2. U \in C
  <2> HIDE DEF C
  <2> QED BY <1>1, BySize
<1> QED BY <1>2

(* Every finite set has one.                                               *)
LEMMA Unfolded ==
  ASSUME NEW S, IsFiniteSet(S), NEW f
  PROVE  \E h : Unfolds(h, f, S)
<1> DEFINE C == {T \in SUBSET S : \E h : Unfolds(h, f, T)}
           H(V) == CHOOSE h : Unfolds(h, f, V)
<1>1. ASSUME NEW T \in SUBSET S, \A U \in SUBSET T : U # T => U \in C PROVE T \in C
  <2> DEFINE less(V) == V \ {Chosen(V)}
             g == [V \in SUBSET T |->
                     IF V = {} THEN 0 ELSE f[Chosen(V)] + H(less(V))[less(V)]]
  <2>1. ASSUME NEW V \in SUBSET T, V # T PROVE Unfolds(H(V), f, V)
    BY <1>1, <2>1
  <2>2. ASSUME NEW V \in SUBSET T, V # {} PROVE less(V) \in SUBSET T /\ less(V) # T /\ less(V) # V
    BY <2>2 DEF Chosen
  <2>3. ASSUME NEW V \in SUBSET T, V # T PROVE H(V)[V] = g[V]
    <3>0. Unfolds(H(V), f, V)
      BY <2>1, <2>3
    <3>1. CASE V = {}
      BY <3>0, <3>1 DEF Unfolds
    <3>2. CASE V # {}
      <4>1. Unfolds(H(less(V)), f, less(V)) /\ less(V) \in SUBSET V
        BY <2>1, <2>2, <3>2
      <4>2. IsFiniteSet(less(V))
        BY FS_Subset
      <4> HIDE DEF H, less
      <4>3. H(V)[less(V)] = H(less(V))[less(V)]
        <5>1. less(V) \in SUBSET (V \cap less(V))
          BY <4>1
        <5> QED BY <3>0, <4>1, <4>2, <5>1, UnfoldsOnce
      <4>4. H(V)[V] = f[Chosen(V)] + H(V)[less(V)]
        BY <3>0, <3>2 DEF Unfolds, less
      <4> QED BY <4>3, <4>4, <3>2
    <3> QED BY <3>1, <3>2
  <2>4. Unfolds(g, f, T)
    <3>1. ASSUME NEW V \in SUBSET T, V # {} PROVE g[V] = f[Chosen(V)] + g[less(V)]
      <4>1. H(less(V))[less(V)] = g[less(V)]
        BY <2>2, <2>3, <3>1
      <4> HIDE DEF H, less
      <4> QED BY <3>1, <4>1
    <3>2. g[{}] = 0
      OBVIOUS
    <3> HIDE DEF H
    <3> DEFINE k == [V \in SUBSET T |-> IF V = {} THEN 0 ELSE f[Chosen(V)] + g[V \ {Chosen(V)}]]
    <3>3. \A V \in SUBSET T : k[V] = g[V]
      <4> HIDE DEF g
      <4> QED BY <3>1, <3>2
    <3>4. k = g
      BY <3>3
    <3> HIDE DEF g
    <3> QED BY <3>4 DEF Unfolds
  <2> QED BY <2>4
<1>2. S \in C
  <2> HIDE DEF C
  <2> QED BY <1>1, BySize
<1> QED BY <1>2

(* A sum is what any unfolding of it says.                                 *)
LEMMA SumUnfolds ==
  ASSUME NEW S, NEW f, NEW h, Unfolds(h, f, S), NEW T \in SUBSET S, IsFiniteSet(T)
  PROVE  SumOver(Only(T, f)) = h[T]
<1> DEFINE e == Only(T, f)
           k == CHOOSE it : Unfolds(it, e, T)
<1>1. DOMAIN e = T /\ \A x \in T : f[x] = e[x]
  BY DEF Only
<1>2. SumOver(e) = k[T]
  <2>1. SumOver(e) = (CHOOSE it : it = [s \in SUBSET DOMAIN e |->
                  IF s = {} THEN 0
                  ELSE e[CHOOSE x \in s : TRUE] + it[s \ {CHOOSE x \in s : TRUE}]])[DOMAIN e]
    BY DEF SumOver, FoldFunction, FoldFunctionOnSet, MapThenFoldSet
  <2> HIDE DEF e
  <2>2. k = CHOOSE it : it = [s \in SUBSET T |->
                  IF s = {} THEN 0
                  ELSE e[CHOOSE x \in s : TRUE] + it[s \ {CHOOSE x \in s : TRUE}]]
    BY DEF Unfolds, Chosen
  <2> QED BY <1>1, <2>1, <2>2
<1>3. \E it : Unfolds(it, e, T)
  BY Unfolded
<1>4. Unfolds(k, e, T)
  BY <1>3
<1> HIDE DEF k
<1>5. T \in SUBSET (S \cap T)
  OBVIOUS
<1>6. h[T] = k[T]
  <2> HIDE DEF e
  <2> QED BY <1>1, <1>4, <1>5, UnfoldsOnce
<1> QED BY <1>2, <1>6

-----------------------------------------------------------------------------
(* Sums.                                                                   *)

(* The sum of f over S: what `reduce` computes in split.js, money.js and   *)
(* fiscalAllocation.js.                                                    *)
Total(S, f) == SumOver(Only(S, f))

(* A sum over a function is its total over its domain.                     *)
LEMMA TotalOf ==
  ASSUME NEW S, NEW f, f = [i \in S |-> f[i]]
  PROVE  SumOver(f) = Total(S, f)
BY DEF Total, Only

(* Equal terms, equal totals.                                              *)
LEMMA TotalSame ==
  ASSUME NEW S, NEW f, NEW g, \A i \in S : f[i] = g[i]
  PROVE  Total(S, f) = Total(S, g)
<1>1. Only(S, f) = Only(S, g)
  BY DEF Only
<1> QED BY <1>1 DEF Total

(* The total of nothing is zero.                                           *)
LEMMA TotalEmpty ==
  ASSUME NEW f PROVE Total({}, f) = 0
<1>1. IsFiniteSet({})
  BY FS_EmptySet
<1>2. PICK h : Unfolds(h, f, {})
  BY <1>1, Unfolded
<1>3. Total({}, f) = h[{}]
  BY <1>1, <1>2, SumUnfolds DEF Total
<1> QED BY <1>2, <1>3 DEF Unfolds

(* Any element may be taken first.                                         *)
LEMMA TotalRemove ==
  ASSUME NEW S, IsFiniteSet(S), NEW f, \A i \in S : f[i] \in Int
  PROVE  /\ Total(S, f) \in Int
         /\ \A x \in S : Total(S, f) = f[x] + Total(S \ {x}, f)
<1> DEFINE C == {T \in SUBSET S :
                   /\ Total(T, f) \in Int
                   /\ \A x \in T : Total(T, f) = f[x] + Total(T \ {x}, f)}
<1>1. PICK h : Unfolds(h, f, S)
  BY Unfolded
<1>2. ASSUME NEW T \in SUBSET S, T # {}
      PROVE  Chosen(T) \in T /\ Total(T, f) = f[Chosen(T)] + Total(T \ {Chosen(T)}, f)
  <2>1. Chosen(T) \in T
    BY <1>2 DEF Chosen
  <2>2. IsFiniteSet(T) /\ IsFiniteSet(T \ {Chosen(T)}) /\ T \ {Chosen(T)} \in SUBSET S
    BY FS_Subset
  <2>3. Total(T, f) = h[T] /\ Total(T \ {Chosen(T)}, f) = h[T \ {Chosen(T)}]
    BY <1>1, <2>2, SumUnfolds DEF Total
  <2> QED BY <1>1, <1>2, <2>1, <2>3 DEF Unfolds
<1>3. ASSUME NEW T \in SUBSET S, \A U \in SUBSET T : U # T => U \in C PROVE T \in C
  <2>1. CASE T = {}
    BY <2>1, TotalEmpty
  <2>2. CASE T # {}
    <3> DEFINE c == Chosen(T)
    <3>1. c \in T /\ Total(T, f) = f[c] + Total(T \ {c}, f)
      BY <1>2, <2>2
    <3> HIDE DEF c
    <3>2. T \ {c} \in C
      BY <1>3, <3>1
    <3>3. ASSUME NEW x \in T, x # c PROVE Total(T, f) = f[x] + Total(T \ {x}, f)
      <4>1. T \ {x} \in C
        BY <1>3
      <4>2. (T \ {x}) \ {c} = (T \ {c}) \ {x} /\ c \in T \ {x} /\ x \in T \ {c}
        BY <3>1, <3>3
      <4>3. Total(T \ {x}, f) = f[c] + Total((T \ {c}) \ {x}, f)
        BY <4>1, <4>2
      <4>4. Total(T \ {c}, f) = f[x] + Total((T \ {c}) \ {x}, f)
        BY <3>2, <4>2
      <4>5. Total((T \ {c}) \ {x}, f) \in Int
        BY <1>3, <3>1, <4>2
      <4>6. f[x] \in Int /\ f[c] \in Int
        BY <3>1
      <4> DEFINE rest == Total((T \ {c}) \ {x}, f)
      <4>7. Total(T, f) = f[c] + (f[x] + rest) /\ Total(T \ {x}, f) = f[c] + rest
        BY <3>1, <4>3, <4>4
      <4> HIDE DEF rest
      <4>8. rest \in Int
        BY <4>5 DEF rest
      <4> QED BY <4>6, <4>7, <4>8
    <3>4. Total(T, f) \in Int
      BY <3>1, <3>2
    <3> QED BY <3>1, <3>3, <3>4
  <2> QED BY <2>1, <2>2
<1>4. S \in C
  <2> HIDE DEF C
  <2> QED BY <1>3, BySize
<1> QED BY <1>4

(* The total of integers is one.                                           *)
LEMMA TotalInt ==
  ASSUME NEW S, IsFiniteSet(S), NEW f, \A i \in S : f[i] \in Int
  PROVE  Total(S, f) \in Int
BY TotalRemove

(* An element more adds its term.                                          *)
LEMMA TotalAdd ==
  ASSUME NEW S, IsFiniteSet(S), NEW f, \A i \in S : f[i] \in Int
  PROVE  \A T \in SUBSET S : \A x \in S \ T :
           /\ Total(T, f) \in Int
           /\ Total(T \cup {x}, f) = Total(T, f) + f[x]
<1> TAKE T \in SUBSET S
<1> TAKE x \in S \ T
<1>1. IsFiniteSet(T) /\ IsFiniteSet(T \cup {x}) /\ (T \cup {x}) \ {x} = T
  BY FS_Subset
<1>2. Total(T, f) \in Int /\ Total(T \cup {x}, f) \in Int
  BY <1>1, TotalInt
<1>3. Total(T \cup {x}, f) = f[x] + Total((T \cup {x}) \ {x}, f)
  <2> DEFINE U == T \cup {x}
  <2>1. IsFiniteSet(U) /\ x \in U /\ \A i \in U : f[i] \in Int
    BY <1>1
  <2> HIDE DEF U
  <2>2. Total(U, f) = f[x] + Total(U \ {x}, f)
    BY <2>1, TotalRemove
  <2> QED BY <2>2 DEF U
<1>4. f[x] \in Int /\ Total(T \cup {x}, f) = f[x] + Total(T, f)
  BY <1>1, <1>3
<1> QED BY <1>2, <1>4

(* The total of sums, term by term.                                        *)
LEMMA TotalPlus ==
  ASSUME NEW S, IsFiniteSet(S), NEW f, NEW g,
         \A i \in S : f[i] \in Int, \A i \in S : g[i] \in Int
  PROVE  Total(S, [i \in S |-> f[i] + g[i]]) = Total(S, f) + Total(S, g)
<1> DEFINE h == [i \in S |-> f[i] + g[i]]
           C == {T \in SUBSET S : Total(T, h) = Total(T, f) + Total(T, g)}
<1>0. \A i \in S : h[i] \in Int /\ f[i] \in Int /\ g[i] \in Int /\ h[i] = f[i] + g[i]
  OBVIOUS
<1> HIDE DEF h
<1>1. {} \in C
  BY TotalEmpty
<1>2. ASSUME NEW T \in SUBSET S, NEW x \in S \ T, T \in C PROVE T \cup {x} \in C
  <2>1. Total(T, f) \in Int /\ Total(T \cup {x}, f) = Total(T, f) + f[x]
    BY TotalAdd
  <2>2. Total(T, g) \in Int /\ Total(T \cup {x}, g) = Total(T, g) + g[x]
    BY TotalAdd
  <2>3. \A i \in S : h[i] \in Int
    BY <1>0
  <2>4. Total(T, h) \in Int /\ Total(T \cup {x}, h) = Total(T, h) + h[x]
    BY <2>3, TotalAdd
  <2>5. f[x] \in Int /\ g[x] \in Int /\ h[x] = f[x] + g[x]
    BY <1>0
  <2> QED BY <1>2, <2>1, <2>2, <2>4, <2>5
<1>3. S \in C
  <2> HIDE DEF C
  <2> QED BY <1>1, <1>2, OneByOne
<1> QED BY <1>3 DEF h

(* The total of multiples.                                                 *)
LEMMA TotalTimes ==
  ASSUME NEW S, IsFiniteSet(S), NEW a \in Int, NEW f, \A i \in S : f[i] \in Int
  PROVE  Total(S, [i \in S |-> a * f[i]]) = a * Total(S, f)
<1> DEFINE h == [i \in S |-> a * f[i]]
           C == {T \in SUBSET S : Total(T, h) = a * Total(T, f)}
<1>0. \A i \in S : h[i] \in Int /\ f[i] \in Int /\ h[i] = a * f[i]
  OBVIOUS
<1> HIDE DEF h
<1>1. {} \in C
  BY TotalEmpty
<1>2. ASSUME NEW T \in SUBSET S, NEW x \in S \ T, T \in C PROVE T \cup {x} \in C
  <2>1. Total(T, f) \in Int /\ Total(T \cup {x}, f) = Total(T, f) + f[x]
    BY TotalAdd
  <2>2. \A i \in S : h[i] \in Int
    BY <1>0
  <2>3. Total(T, h) \in Int /\ Total(T \cup {x}, h) = Total(T, h) + h[x]
    <3> HIDE DEF C
    <3>1. Total(T, h) \in Int
      BY <2>2, TotalAdd
    <3>2. Total(T \cup {x}, h) = Total(T, h) + h[x]
      BY <2>2, TotalAdd
    <3> QED BY <3>1, <3>2
  <2>4. Total(T, h) = a * Total(T, f) /\ h[x] = a * f[x] /\ f[x] \in Int
    BY <1>0, <1>2
  <2>5. a * (Total(T, f) + f[x]) = a * Total(T, f) + a * f[x]
    BY <2>1, <2>4
  <2> QED BY <2>1, <2>3, <2>4, <2>5
<1>3. S \in C
  <2> HIDE DEF C
  <2> QED BY <1>1, <1>2, OneByOne
<1> QED BY <1>3 DEF h

(* Terms that are no greater have no greater a total,                      *)
LEMMA TotalAtMost ==
  ASSUME NEW S, IsFiniteSet(S), NEW f, NEW g,
         \A i \in S : f[i] \in Int /\ g[i] \in Int /\ f[i] <= g[i]
  PROVE  Total(S, f) <= Total(S, g)
<1> DEFINE C == {T \in SUBSET S : Total(T, f) <= Total(T, g)}
<1>1. {} \in C
  BY TotalEmpty
<1>2. ASSUME NEW T \in SUBSET S, NEW x \in S \ T, T \in C PROVE T \cup {x} \in C
  <2>1. /\ Total(T, f) \in Int /\ Total(T \cup {x}, f) = Total(T, f) + f[x]
        /\ Total(T, g) \in Int /\ Total(T \cup {x}, g) = Total(T, g) + g[x]
    BY TotalAdd
  <2> QED BY <1>2, <2>1
<1>3. S \in C
  <2> HIDE DEF C
  <2> QED BY <1>1, <1>2, OneByOne
<1> QED BY <1>3

(* and a lesser one if one of them is less.                                *)
LEMMA TotalLess ==
  ASSUME NEW S, IsFiniteSet(S), NEW f, NEW g,
         \A i \in S : f[i] \in Int /\ g[i] \in Int /\ f[i] <= g[i],
         NEW x \in S, f[x] < g[x]
  PROVE  Total(S, f) < Total(S, g)
<1>1. IsFiniteSet(S \ {x})
  BY FS_Subset
<1>2. Total(S \ {x}, f) <= Total(S \ {x}, g)
  BY <1>1, TotalAtMost
<1>3. /\ Total(S, f) = f[x] + Total(S \ {x}, f)
      /\ Total(S, g) = g[x] + Total(S \ {x}, g)
  BY TotalRemove
<1>4. Total(S \ {x}, f) \in Int /\ Total(S \ {x}, g) \in Int
  BY <1>1, TotalInt
<1> QED BY <1>2, <1>3, <1>4

(* Amounts that are not negative: no term is more than the total, and if   *)
(* that is zero they all are.                                              *)
LEMMA TotalNat ==
  ASSUME NEW S, IsFiniteSet(S), NEW f, \A i \in S : f[i] \in Nat
  PROVE  /\ Total(S, f) \in Nat
         /\ \A x \in S : f[x] <= Total(S, f)
         /\ Total(S, f) = 0 => \A x \in S : f[x] = 0
<1> DEFINE C == {T \in SUBSET S : Total(T, f) \in Nat}
<1>1. {} \in C
  BY TotalEmpty
<1>2. ASSUME NEW T \in SUBSET S, NEW x \in S \ T, T \in C PROVE T \cup {x} \in C
  <2>1. Total(T \cup {x}, f) = Total(T, f) + f[x]
    BY TotalAdd
  <2> QED BY <1>2, <2>1
<1>3. ASSUME NEW T \in SUBSET S PROVE Total(T, f) \in Nat
  <2> DEFINE B == {U \in SUBSET T : U \in C}
  <2>1. IsFiniteSet(T) /\ {} \in B /\ \A U \in SUBSET T : \A x \in T \ U : U \in B => U \cup {x} \in B
    <3>1. ASSUME NEW U \in SUBSET T, NEW x \in T \ U, U \in B PROVE U \cup {x} \in B
      <4>1. U \in SUBSET S /\ x \in S \ U /\ U \in C /\ U \cup {x} \in SUBSET T
        BY <3>1
      <4> HIDE DEF C
      <4> QED BY <1>2, <4>1
    <3> QED BY <1>1, <3>1, FS_Subset
  <2>2. T \in B
    <3> HIDE DEF B
    <3> QED BY <2>1, OneByOne
  <2> QED BY <2>2
<1>4. ASSUME NEW x \in S PROVE f[x] <= Total(S, f)
  <2>1. Total(S, f) = f[x] + Total(S \ {x}, f) /\ Total(S \ {x}, f) \in Nat
    BY <1>3, TotalRemove
  <2> QED BY <2>1
<1>5. Total(S, f) = 0 => \A x \in S : f[x] = 0
  BY <1>4
<1> QED BY <1>3, <1>4, <1>5

(* The total of zeros,                                                     *)
LEMMA TotalZero ==
  ASSUME NEW S, IsFiniteSet(S), NEW f, \A i \in S : f[i] = 0
  PROVE  Total(S, f) = 0
<1>1. \A i \in S : f[i] \in Int
  OBVIOUS
<1>2. Total(S, [i \in S |-> 0 * f[i]]) = 0 * Total(S, f)
  BY <1>1, TotalTimes
<1>3. \A i \in S : f[i] = [j \in S |-> 0 * f[j]][i]
  OBVIOUS
<1>4. Total(S, f) = Total(S, [i \in S |-> 0 * f[i]])
  BY <1>3, TotalSame
<1>5. Total(S, f) \in Int
  BY <1>1, TotalInt
<1> QED BY <1>2, <1>4, <1>5

(* and of ones.                                                            *)
LEMMA TotalCount ==
  ASSUME NEW S, IsFiniteSet(S), NEW f, \A i \in S : f[i] = 1
  PROVE  Total(S, f) = Cardinality(S)
<1> DEFINE C == {T \in SUBSET S : Total(T, f) = Cardinality(T)}
<1>1. {} \in C
  BY TotalEmpty, FS_EmptySet
<1>2. ASSUME NEW T \in SUBSET S, NEW x \in S \ T, T \in C PROVE T \cup {x} \in C
  <2>1. Total(T \cup {x}, f) = Total(T, f) + f[x]
    BY TotalAdd
  <2>2. IsFiniteSet(T) /\ Cardinality(T \cup {x}) = Cardinality(T) + 1
    BY FS_Subset, FS_AddElement
  <2> QED BY <1>2, <2>1, <2>2
<1>3. S \in C
  <2> HIDE DEF C
  <2> QED BY <1>1, <1>2, OneByOne
<1> QED BY <1>3

(* A set in two parts.                                                     *)
LEMMA TotalSplit ==
  ASSUME NEW S, IsFiniteSet(S), NEW f, \A i \in S : f[i] \in Int, NEW T \in SUBSET S
  PROVE  Total(S, f) = Total(T, f) + Total(S \ T, f)
<1> DEFINE R == S \ T
           C == {U \in SUBSET R : Total(T \cup U, f) = Total(T, f) + Total(U, f)}
<1>0. IsFiniteSet(R) /\ IsFiniteSet(T) /\ Total(T, f) \in Int
  BY FS_Subset, TotalInt
<1>1. {} \in C
  <2>1. T \cup {} = T
    OBVIOUS
  <2> QED BY <1>0, <2>1, TotalEmpty
<1>2. ASSUME NEW U \in SUBSET R, NEW x \in R \ U, U \in C PROVE U \cup {x} \in C
  <2>1. U \in SUBSET S /\ T \cup U \in SUBSET S /\ x \in S \ U /\ x \in S \ (T \cup U)
    OBVIOUS
  <2>2. Total(U, f) \in Int /\ Total(U \cup {x}, f) = Total(U, f) + f[x]
    BY <2>1, TotalAdd
  <2>3. Total((T \cup U) \cup {x}, f) = Total(T \cup U, f) + f[x]
    <3> DEFINE V == T \cup U
    <3>1. V \in SUBSET S /\ x \in S \ V
      BY <2>1
    <3> HIDE DEF V
    <3>2. Total(V \cup {x}, f) = Total(V, f) + f[x]
      BY <3>1, TotalAdd
    <3> QED BY <3>2 DEF V
  <2>4. (T \cup U) \cup {x} = T \cup (U \cup {x})
    OBVIOUS
  <2>5. f[x] \in Int /\ Total(T \cup U, f) = Total(T, f) + Total(U, f)
    BY <1>2
  <2>6. Total(T \cup (U \cup {x}), f) = Total(T, f) + Total(U \cup {x}, f)
    <3>1. Total(T \cup (U \cup {x}), f) = (Total(T, f) + Total(U, f)) + f[x]
      BY <2>3, <2>4, <2>5
    <3> DEFINE a == Total(T, f)
               b == Total(U, f)
               c == f[x]
    <3>2. a \in Int /\ b \in Int /\ c \in Int
      BY <1>0, <2>2, <2>5
    <3> HIDE DEF a, b, c
    <3>3. (a + b) + c = a + (b + c)
      BY <3>2
    <3> QED BY <2>2, <3>1, <3>3 DEF a, b, c
  <2> QED BY <2>6
<1>3. R \in C
  <2> HIDE DEF C, R
  <2> QED BY <1>0, <1>1, <1>2, OneByOne
<1>4. T \cup R = S
  OBVIOUS
<1> QED BY <1>3, <1>4

(* A table, row by row or column by column.                                *)
LEMMA TotalSwap ==
  ASSUME NEW S, IsFiniteSet(S), NEW T, IsFiniteSet(T), NEW m,
         \A i \in S, j \in T : m[i][j] \in Int
  PROVE  Total(S, [i \in S |-> Total(T, m[i])])
         = Total(T, [j \in T |-> Total(S, [i \in S |-> m[i][j]])])
<1> DEFINE row == [i \in S |-> Total(T, m[i])]
           cell(j) == [i \in S |-> m[i][j]]
           column(U) == [j \in T |-> Total(U, cell(j))]
           C == {U \in SUBSET S : Total(U, row) = Total(T, column(U))}
<1>0. \A i \in S : row[i] \in Int
  <2>1. ASSUME NEW i \in S PROVE Total(T, m[i]) \in Int
    BY TotalInt
  <2> QED BY <2>1
<1>1. {} \in C
  <2>1. \A j \in T : column({})[j] = 0
    BY TotalEmpty
  <2>2. Total(T, column({})) = 0
    <3> HIDE DEF column
    <3> QED BY <2>1, TotalZero
  <2> QED BY <2>2, TotalEmpty
<1>2. ASSUME NEW U \in SUBSET S, NEW x \in S \ U, U \in C PROVE U \cup {x} \in C
  <2>1. Total(U \cup {x}, row) = Total(U, row) + row[x]
    <3> HIDE DEF row
    <3> QED BY <1>0, TotalAdd
  <2>2. ASSUME NEW j \in T
        PROVE  /\ column(U)[j] \in Int /\ m[x][j] \in Int
               /\ column(U \cup {x})[j] = column(U)[j] + m[x][j]
    <3> DEFINE g == cell(j)
    <3>1. \A i \in S : g[i] \in Int
      OBVIOUS
    <3>2. /\ Total(U, g) \in Int
          /\ Total(U \cup {x}, g) = Total(U, g) + g[x]
      <4> HIDE DEF g
      <4>1. U \in SUBSET S /\ x \in S \ U
        OBVIOUS
      <4> QED BY <3>1, <4>1, TotalAdd
    <3> QED BY <3>2
  <2>3. Total(T, column(U \cup {x})) = Total(T, column(U)) + Total(T, m[x])
    <3> DEFINE new == column(U \cup {x})
               old == column(U)
               more == m[x]
    <3>1. \A j \in T : old[j] \in Int /\ more[j] \in Int /\ new[j] = old[j] + more[j]
      BY <2>2
    <3> HIDE DEF new, old, more
    <3>2. Total(T, [j \in T |-> old[j] + more[j]]) = Total(T, old) + Total(T, more)
      <4>1. (\A j \in T : old[j] \in Int) /\ (\A j \in T : more[j] \in Int)
        BY <3>1
      <4> QED BY <4>1, TotalPlus
    <3>3. Total(T, new) = Total(T, [j \in T |-> old[j] + more[j]])
      BY <3>1, TotalSame
    <3> QED BY <3>2, <3>3 DEF new, old, more
  <2>4. row[x] = Total(T, m[x])
    OBVIOUS
  <2> HIDE DEF row, column
  <2> QED BY <1>2, <2>1, <2>3, <2>4
<1>3. S \in C
  <2> HIDE DEF C
  <2> QED BY <1>1, <1>2, OneByOne
<1> QED BY <1>3

-----------------------------------------------------------------------------
(* Allocation by largest remainder.                                        *)

(* What \div and % are, without the division.                              *)
LEMMA DivMod ==
  ASSUME NEW a \in Int, NEW b \in Nat \ {0}
  PROVE  /\ a = b * (a \div b) + (a % b)
         /\ a \div b \in Int /\ a % b \in Nat /\ a % b < b
         /\ a \in Nat => a \div b \in Nat
<1>1. a = b * (a \div b) + (a % b)
  OBVIOUS
<1>2. a \div b \in Int /\ a % b \in Nat /\ a % b < b
  OBVIOUS
<1>3. a \in Nat => a \div b \in Nat
  OBVIOUS
<1> QED BY <1>1, <1>2, <1>3

(* What is cancelled from a product.                                       *)
LEMMA Cancel ==
  ASSUME NEW b \in Nat \ {0}, NEW x \in Int, NEW y \in Int
  PROVE  /\ b * x < b * y => x < y
         /\ b * x <= b * y => x <= y
         /\ x < y => b * x < b * y
         /\ x <= y => b * x <= b * y
         /\ b * x = b * y => x = y
OBVIOUS

(* Those of the first k places are k.                                      *)
LEMMA Places ==
  ASSUME NEW S, IsFiniteSet(S), NEW rank \in [S -> 0 .. Cardinality(S) - 1],
         \A i, j \in S : rank[i] = rank[j] => i = j,
         NEW k \in 0 .. Cardinality(S)
  PROVE  Cardinality({i \in S : rank[i] < k}) = k
<1> DEFINE n == Cardinality(S)
           K == {i \in S : rank[i] < k}
           top == [i \in K |-> rank[i]]
<1>1. n \in Nat /\ IsFiniteSet(K)
  BY FS_CardinalityType, FS_Subset
<1>2. IsFiniteSet(0 .. n - 1) /\ Cardinality(0 .. n - 1) = n
  <2> HIDE DEF n
  <2>1. 0 \in Int /\ n - 1 \in Int
    BY <1>1
  <2>2. /\ IsFiniteSet(0 .. n - 1)
        /\ Cardinality(0 .. n - 1) = IF 0 > n - 1 THEN 0 ELSE (n - 1) - 0 + 1
    BY <2>1, FS_Interval
  <2> QED BY <1>1, <2>2
<1>3. rank \in Surjection(S, 0 .. n - 1)
  <2>1. rank \in Injection(S, 0 .. n - 1)
    BY DEF Injection, IsInjective
  <2> HIDE DEF n
  <2>2. Cardinality(S) = Cardinality(0 .. n - 1)
    BY <1>2 DEF n
  <2> QED BY <1>2, <2>1, <2>2, FS_Injection
<1>4. top \in Injection(K, 0 .. k - 1)
  BY DEF Injection, IsInjective
<1>5. top \in Surjection(K, 0 .. k - 1)
  <2>1. ASSUME NEW t \in 0 .. k - 1 PROVE \E i \in K : top[i] = t
    <3>1. t \in 0 .. n - 1
      BY <1>1
    <3>2. PICK i \in S : rank[i] = t
      BY <1>3, <3>1 DEF Surjection
    <3> QED BY <3>2
  <2> QED BY <2>1 DEF Surjection
<1>6. IsFiniteSet(0 .. k - 1) /\ Cardinality(0 .. k - 1) = k
  BY FS_Interval
<1> HIDE DEF top, K
<1>7. Cardinality(K) = Cardinality(0 .. k - 1)
  BY <1>4, <1>5, <1>6, FS_Injection
<1> QED BY <1>6, <1>7 DEF K

(* The largest remainders first, and of two equal the one of the smaller   *)
(* number: a place for each.                                               *)
Ahead(S, r, i) == {j \in S : r[j] > r[i] \/ (r[j] = r[i] /\ j < i)}

(* So as many as one likes, up to all of them, are among the first.        *)
LEMMA AheadRanks ==
  ASSUME NEW S \in SUBSET Nat, IsFiniteSet(S), NEW r \in [S -> Nat],
         NEW k \in 0 .. Cardinality(S)
  PROVE  Cardinality({i \in S : Cardinality(Ahead(S, r, i)) < k}) = k
<1> DEFINE rank == [i \in S |-> Cardinality(Ahead(S, r, i))]
<1>1. ASSUME NEW i \in S
      PROVE  /\ IsFiniteSet(Ahead(S, r, i)) /\ Cardinality(Ahead(S, r, i)) \in Nat
             /\ Cardinality(Ahead(S, r, i)) < Cardinality(S)
  <2>1. Ahead(S, r, i) \in SUBSET S /\ i \notin Ahead(S, r, i)
    BY DEF Ahead
  <2>2. Ahead(S, r, i) # S
    BY <2>1
  <2>3. IsFiniteSet(Ahead(S, r, i)) /\ Cardinality(Ahead(S, r, i)) <= Cardinality(S)
        /\ Cardinality(S) # Cardinality(Ahead(S, r, i))
    BY <2>1, <2>2, FS_Subset
  <2>4. Cardinality(S) \in Nat /\ Cardinality(Ahead(S, r, i)) \in Nat
    BY <2>3, FS_CardinalityType
  <2> QED BY <2>3, <2>4
<1>2. ASSUME NEW i \in S, NEW j \in S, j \in Ahead(S, r, i)
      PROVE  Cardinality(Ahead(S, r, j)) < Cardinality(Ahead(S, r, i))
  <2>1. Ahead(S, r, j) \in SUBSET Ahead(S, r, i) /\ j \notin Ahead(S, r, j)
    <3>1. ASSUME NEW l \in Ahead(S, r, j) PROVE l \in Ahead(S, r, i)
      <4>1. /\ l \in S /\ l \in Nat /\ j \in Nat /\ i \in Nat
            /\ r[l] \in Nat /\ r[j] \in Nat /\ r[i] \in Nat
        BY DEF Ahead
      <4> QED BY <1>2, <4>1 DEF Ahead
    <3>2. r[j] \in Nat /\ j \in Nat
      OBVIOUS
    <3>3. j \notin Ahead(S, r, j)
      BY <3>2 DEF Ahead
    <3> QED BY <3>1, <3>3
  <2>2. Ahead(S, r, j) # Ahead(S, r, i)
    BY <1>2, <2>1
  <2>3. /\ Cardinality(Ahead(S, r, j)) <= Cardinality(Ahead(S, r, i))
        /\ Cardinality(Ahead(S, r, j)) # Cardinality(Ahead(S, r, i))
    BY <1>1, <2>1, <2>2, FS_Subset
  <2> QED BY <1>1, <2>3
<1>3. ASSUME NEW i \in S, NEW j \in S, rank[i] = rank[j] PROVE i = j
  <2>1. CASE j \in Ahead(S, r, i)
    BY <1>1, <1>2, <1>3, <2>1
  <2>2. CASE i \in Ahead(S, r, j)
    BY <1>1, <1>2, <1>3, <2>2
  <2>3. CASE j \notin Ahead(S, r, i) /\ i \notin Ahead(S, r, j)
    BY <2>3 DEF Ahead
  <2> QED BY <2>1, <2>2, <2>3
<1>4. rank \in [S -> 0 .. Cardinality(S) - 1]
  <2>1. Cardinality(S) \in Nat
    BY FS_CardinalityType
  <2> QED BY <1>1, <2>1
<1>5. \A i \in S : rank[i] = Cardinality(Ahead(S, r, i))
  OBVIOUS
<1> HIDE DEF rank
<1>6. Cardinality({i \in S : rank[i] < k}) = k
  BY <1>3, <1>4, Places
<1>7. {i \in S : rank[i] < k} = {i \in S : Cardinality(Ahead(S, r, i)) < k}
  BY <1>5
<1> QED BY <1>6, <1>7

(* Each gets its part rounded down, or a céntimo more, and all of them the *)
(* amount to the céntimo.                                                  *)
Near(x, y, d) == x < y + d /\ y < x + d

(* split.js, allocate: the parts are whole céntimos, make up the amount,   *)
(* are within one céntimo of what is due to each, and exceed no weight if  *)
(* the weights have room for the amount.                                   *)
THEOREM AllocateExact ==
  ASSUME NEW S \in SUBSET Nat, IsFiniteSet(S), S # {},
         NEW total \in Nat, NEW weight \in [S -> Nat \ {0}]
  PROVE  /\ Total(S, weight) \in Nat \ {0}
         /\ Allocate(total, weight) \in [S -> Nat]
         /\ Total(S, Allocate(total, weight)) = total
         /\ \A i \in S :
              Near(Total(S, weight) * Allocate(total, weight)[i], total * weight[i],
                   Total(S, weight))
         /\ total <= Total(S, weight)
              => \A i \in S : Allocate(total, weight)[i] <= weight[i]
<1> DEFINE n == Cardinality(S)
           whole == Total(S, weight)
           floor == [i \in S |-> (total * weight[i]) \div whole]
           rest == [i \in S |-> (total * weight[i]) % whole]
           left == total - Total(S, floor)
           one == [i \in S |-> IF Cardinality(Ahead(S, rest, i)) < left THEN 1 ELSE 0]
           part == [i \in S |-> floor[i] + one[i]]
<1>1. Allocate(total, weight) = part
  <2>1. SumOver(weight) = whole
    BY TotalOf
  <2>2. SumOver(floor) = Total(S, floor)
    BY TotalOf
  <2> QED BY <2>1, <2>2 DEF Allocate, Ahead
<1>2. whole \in Nat \ {0} /\ \A i \in S : weight[i] <= whole
  <2>1. \A i \in S : weight[i] \in Nat /\ weight[i] > 0
    OBVIOUS
  <2>2. whole \in Nat /\ \A i \in S : weight[i] <= whole
    BY <2>1, TotalNat
  <2>3. PICK x \in S : TRUE
    OBVIOUS
  <2>4. weight[x] > 0 /\ weight[x] <= whole /\ weight[x] \in Nat
    BY <2>1, <2>2
  <2> HIDE DEF whole
  <2> QED BY <2>2, <2>4
<1> HIDE DEF whole
<1>3. ASSUME NEW i \in S
      PROVE  /\ floor[i] \in Nat /\ rest[i] \in Nat /\ rest[i] < whole
             /\ total * weight[i] = whole * floor[i] + rest[i]
  <2> DEFINE a == total * weight[i]
  <2>1. a \in Nat /\ floor[i] = a \div whole /\ rest[i] = a % whole
    OBVIOUS
  <2> HIDE DEF a
  <2>2. /\ a = whole * (a \div whole) + (a % whole)
        /\ a % whole \in Nat /\ a % whole < whole /\ a \div whole \in Nat
    BY <1>2, <2>1, DivMod
  <2> QED BY <2>1, <2>2 DEF a
<1> HIDE DEF floor, rest
<1>4. Total(S, floor) \in Nat /\ Total(S, rest) \in Nat
  BY <1>3, TotalNat
<1>5. total * whole = whole * Total(S, floor) + Total(S, rest)
  <2> DEFINE a == [i \in S |-> total * weight[i]]
             b == [i \in S |-> whole * floor[i]]
             c == [i \in S |-> b[i] + rest[i]]
  <2>1. /\ \A i \in S : weight[i] \in Int /\ a[i] = total * weight[i]
        /\ \A i \in S : floor[i] \in Int /\ b[i] = whole * floor[i]
    BY <1>3
  <2>2. /\ \A i \in S : b[i] \in Int
        /\ \A i \in S : rest[i] \in Int
        /\ \A i \in S : a[i] = c[i]
    BY <1>2, <1>3
  <2> HIDE DEF a, b
  <2>3. Total(S, a) = total * Total(S, weight)
    <3>1. total \in Int /\ \A i \in S : weight[i] \in Int
      BY <2>1
    <3> HIDE DEF c, part, one, left, n
    <3> QED BY <3>1, TotalTimes DEF a
  <2>4. Total(S, b) = whole * Total(S, floor)
    <3>1. \A i \in S : floor[i] \in Int
      BY <2>1
    <3>2. whole \in Int
      BY <1>2
    <3> QED BY <3>1, <3>2, TotalTimes DEF b
  <2>5. Total(S, c) = Total(S, b) + Total(S, rest)
    BY <2>2, TotalPlus
  <2> HIDE DEF c
  <2>6. Total(S, a) = Total(S, c)
    BY <2>2, TotalSame
  <2> QED BY <2>3, <2>4, <2>5, <2>6 DEF whole
<1>6. n \in Nat /\ Total(S, rest) < whole * n
  <2> DEFINE ones == [i \in S |-> 1]
             full == [i \in S |-> whole * ones[i]]
  <2>1. PICK x \in S : TRUE
    OBVIOUS
  <2>2. \A i \in S : ones[i] = 1 /\ ones[i] \in Int /\ full[i] = whole * ones[i] /\ full[i] = whole
    BY <1>2
  <2> HIDE DEF ones, full
  <2>3. Total(S, ones) = n
    BY <2>2, TotalCount
  <2>4. Total(S, full) = whole * n
    <3>1. Total(S, full) = whole * Total(S, ones)
      <4>1. whole \in Int /\ \A i \in S : ones[i] \in Int
        BY <1>2, <2>2
      <4> QED BY <4>1, TotalTimes DEF full
    <3> QED BY <2>3, <3>1
  <2>5. Total(S, rest) < Total(S, full)
    <3>1. /\ \A i \in S : rest[i] \in Int /\ full[i] \in Int /\ rest[i] <= full[i]
          /\ rest[x] < full[x]
      BY <1>2, <1>3, <2>2
    <3> QED BY <3>1, TotalLess
  <2> QED BY <2>4, <2>5, FS_CardinalityType
<1>7. left \in 0 .. n
  <2> DEFINE f == Total(S, floor)
             r == Total(S, rest)
  <2> HIDE DEF f, r, n
  <2>1. f \in Nat /\ r \in Nat /\ n \in Nat /\ r < whole * n /\ total * whole = whole * f + r
    BY <1>4, <1>5, <1>6 DEF f, r
  <2>2. whole * (total - f) = r
    BY <1>2, <2>1
  <2>3. total - f >= 0
    BY <1>2, <2>1, <2>2
  <2>4. total - f < n
    BY <1>2, <2>1, <2>2
  <2> QED BY <2>1, <2>3, <2>4 DEF f
<1>r. Total(S, rest) = whole * left
  <2> DEFINE f == Total(S, floor)
             r == Total(S, rest)
  <2> HIDE DEF f, r
  <2>1. f \in Nat /\ r \in Nat /\ total * whole = whole * f + r
    BY <1>4, <1>5 DEF f, r
  <2>2. whole * (total - f) = r
    BY <1>2, <2>1
  <2> QED BY <2>2 DEF left, f, r
<1> HIDE DEF left
<1>8. Total(S, one) = left
  <2> DEFINE K == {i \in S : Cardinality(Ahead(S, rest, i)) < left}
  <2>1. rest \in [S -> Nat]
    BY <1>3 DEF rest
  <2>2. Cardinality(K) = left
    BY <1>7, <2>1, AheadRanks
  <2>3. /\ \A i \in S : one[i] \in Int
        /\ \A i \in K : one[i] = 1
        /\ \A i \in S \ K : one[i] = 0
    OBVIOUS
  <2>4. K \in SUBSET S /\ IsFiniteSet(K) /\ IsFiniteSet(S \ K)
    BY FS_Subset
  <2> HIDE DEF K, one
  <2>5. Total(S, one) = Total(K, one) + Total(S \ K, one)
    BY <2>3, <2>4, TotalSplit
  <2>6. Total(K, one) = Cardinality(K)
    BY <2>3, <2>4, TotalCount
  <2>7. Total(S \ K, one) = 0
    BY <2>3, <2>4, TotalZero
  <2> QED BY <1>7, <2>2, <2>5, <2>6, <2>7
<1>9. \A i \in S : one[i] \in {0, 1}
  OBVIOUS
<1>z. ASSUME NEW i \in S, rest[i] = 0 PROVE one[i] = 0
  <2> DEFINE N == {j \in S : rest[j] > 0}
             A == Ahead(S, rest, i)
             ind == [j \in S |-> IF j \in N THEN 1 ELSE 0]
             full == [j \in S |-> whole * ind[j]]
  <2>1. /\ N \in SUBSET S /\ IsFiniteSet(N) /\ IsFiniteSet(S \ N) /\ IsFiniteSet(A) /\ N \in SUBSET A
        /\ Cardinality(N) <= Cardinality(A) /\ Cardinality(N) \in Nat /\ Cardinality(A) \in Nat
    <3>1. N \in SUBSET S /\ A \in SUBSET S /\ N \in SUBSET A
      BY <1>z DEF Ahead
    <3> HIDE DEF N, A
    <3>2. IsFiniteSet(N) /\ IsFiniteSet(A) /\ IsFiniteSet(S \ N)
      BY <3>1, FS_Subset
    <3>3. Cardinality(N) <= Cardinality(A)
      BY <3>1, <3>2, FS_Subset
    <3> QED BY <3>1, <3>2, <3>3, FS_CardinalityType
  <2>2. /\ \A j \in S : ind[j] \in Int /\ full[j] = whole * ind[j] /\ full[j] \in Int /\ rest[j] <= full[j]
        /\ \A j \in N : ind[j] = 1
        /\ \A j \in S \ N : ind[j] = 0
    <3>1. ASSUME NEW j \in S
          PROVE ind[j] \in Int /\ full[j] = whole * ind[j] /\ full[j] \in Int /\ rest[j] <= full[j]
      <4>1. rest[j] \in Nat /\ rest[j] < whole /\ whole \in Nat
        BY <1>2, <1>3
      <4>2. CASE j \in N
        BY <4>1, <4>2
      <4>3. CASE j \notin N
        BY <4>1, <4>3
      <4> QED BY <4>2, <4>3
    <3>2. (\A j \in N : ind[j] = 1) /\ (\A j \in S \ N : ind[j] = 0)
      OBVIOUS
    <3> HIDE DEF ind, full
    <3> QED BY <3>1, <3>2
  <2>3. Total(S, full) = whole * Total(S, ind)
    <3>1. whole \in Int /\ \A j \in S : ind[j] \in Int
      BY <1>2, <2>2
    <3> HIDE DEF ind
    <3> QED BY <3>1, TotalTimes
  <2> HIDE DEF full, ind, N, A
  <2>4. Total(S, ind) = Cardinality(N)
    <3>1. \A j \in S : ind[j] \in Int
      BY <2>2
    <3>2. Total(S, ind) = Total(N, ind) + Total(S \ N, ind)
      BY <2>1, <3>1, TotalSplit
    <3>3. Total(N, ind) = Cardinality(N)
      BY <2>1, <2>2, TotalCount
    <3>4. Total(S \ N, ind) = 0
      BY <2>1, <2>2, TotalZero
    <3> QED BY <2>1, <3>2, <3>3, <3>4
  <2>5. Total(S, rest) <= Total(S, full)
    <3>1. \A j \in S : rest[j] \in Int /\ full[j] \in Int /\ rest[j] <= full[j]
      BY <1>3, <2>2
    <3> QED BY <3>1, TotalAtMost
  <2>6. left <= Cardinality(N)
    <3>1. left \in Int
      BY <1>7
    <3>2. whole * left <= whole * Cardinality(N)
      BY <1>r, <2>3, <2>4, <2>5
    <3> QED BY <1>2, <2>1, <3>1, <3>2, Cancel
  <2>7. ~ (Cardinality(A) < left)
    BY <1>7, <2>1, <2>6
  <2> QED BY <2>7 DEF A, one
<1> HIDE DEF one
<1>10. Total(S, part) = total
  <2>1. (\A i \in S : floor[i] \in Int) /\ (\A i \in S : one[i] \in Int)
    BY <1>3, <1>9
  <2>2. Total(S, part) = Total(S, floor) + Total(S, one)
    BY <2>1, TotalPlus
  <2> QED BY <1>4, <1>8, <2>2 DEF left
<1>11. ASSUME NEW i \in S
       PROVE  part[i] \in Nat /\ part[i] \in {floor[i], floor[i] + 1}
  BY <1>3, <1>9
<1>12. ASSUME total <= whole, NEW i \in S PROVE part[i] <= weight[i]
  <2>1. CASE total < whole
    <3>1. whole * floor[i] <= total * weight[i] /\ floor[i] \in Nat /\ weight[i] \in Nat \ {0}
      BY <1>2, <1>3
    <3>2. total * weight[i] < whole * weight[i]
      BY <1>2, <2>1, <3>1
    <3>3. floor[i] < weight[i]
      BY <1>2, <3>1, <3>2
    <3> QED BY <1>11, <3>1, <3>3
  <2>2. CASE total = whole
    <3>1. ASSUME NEW j \in S PROVE floor[j] = weight[j]
      <4>1. /\ floor[j] \in Nat /\ rest[j] \in Nat /\ rest[j] < whole /\ weight[j] \in Nat
            /\ whole * weight[j] = whole * floor[j] + rest[j]
        BY <1>3, <2>2
      <4>2. whole * floor[j] <= whole * weight[j] /\ whole * weight[j] < whole * (floor[j] + 1)
        BY <1>2, <4>1
      <4>3. floor[j] <= weight[j] /\ weight[j] < floor[j] + 1
        BY <1>2, <4>1, <4>2, Cancel
      <4> QED BY <4>1, <4>3
    <3>2. Total(S, floor) = whole
      BY <3>1, TotalSame DEF whole
    <3>3. Total(S, one) = 0
      BY <1>2, <1>8, <2>2, <3>2 DEF left
    <3>4. one[i] = 0
      <4>1. \A j \in S : one[j] \in Nat
        BY <1>9
      <4> QED BY <3>3, <4>1, TotalNat
    <3> QED BY <3>1, <3>4
  <2> QED BY <1>2, <1>12, <2>1, <2>2
<1>13. /\ part \in [S -> Nat]
       /\ \A i \in S : Near(whole * part[i], total * weight[i], whole)
  <2>1. ASSUME NEW i \in S PROVE Near(whole * part[i], total * weight[i], whole)
    <3>1. /\ floor[i] \in Nat /\ rest[i] \in Nat /\ rest[i] < whole
          /\ total * weight[i] = whole * floor[i] + rest[i]
      BY <1>3
    <3>2. CASE part[i] = floor[i]
      BY <1>2, <3>1, <3>2 DEF Near
    <3>3. CASE part[i] # floor[i]
      <4>1. one[i] = 1 /\ rest[i] # 0 /\ part[i] = floor[i] + 1
        BY <1>3, <1>9, <1>z, <3>3
      <4>2. whole * part[i] = whole * floor[i] + whole
        BY <1>2, <3>1, <4>1
      <4> QED BY <1>2, <3>1, <4>1, <4>2 DEF Near
    <3> QED BY <3>2, <3>3
  <2> QED BY <1>11, <2>1
<1> QED BY <1>1, <1>2, <1>10, <1>12, <1>13 DEF whole, floor

-----------------------------------------------------------------------------
(* Allocation under caps.                                                  *)

(* What a round starts from: what was given fits its bucket, and with the  *)
(* rest it is the amount.                                                  *)
Fitting(S, cap, amount, s) ==
  /\ DOMAIN s.part = S /\ \A i \in S : s.part[i] \in Nat /\ s.part[i] <= cap[i]
  /\ s.rest \in Nat /\ Total(S, s.part) + s.rest = amount
  /\ s.active \in SUBSET S
  /\ \A i \in S : s.weight[i] \in Nat
  /\ \A i \in s.active : s.weight[i] > 0 /\ s.part[i] < cap[i]

(* A round keeps that; and it gives out everything, or some bucket is full *)
(* that was not, and it can only be the former when none was wanted.       *)
LEMMA RoundFits ==
  ASSUME NEW S \in SUBSET Nat, IsFiniteSet(S), NEW cap \in [S -> Nat],
         NEW amount \in Nat, amount <= Total(S, cap),
         NEW s, Fitting(S, cap, amount, s), s.rest # 0
  PROVE  /\ Fitting(S, cap, amount, Round(cap, s))
         /\ \/ Round(cap, s).rest = 0
            \/ Round(cap, s).active \in SUBSET s.active /\ Round(cap, s).active # s.active
<1> DEFINE room == [i \in S |-> cap[i] - s.part[i]]
           wanted == s.active # {}
           active == IF wanted THEN s.active ELSE {i \in S : room[i] > 0}
           weight == IF wanted THEN s.weight ELSE room
           share == Allocate(s.rest, Only(active, weight))
           give == [i \in S |->
                      IF i \notin active THEN 0
                      ELSE IF share[i] > room[i] THEN room[i] ELSE share[i]]
           part == [i \in S |-> s.part[i] + give[i]]
           less == {i \in active : room[i] > give[i]}
           t == Round(cap, s)
<1>1. /\ DOMAIN t.part = S /\ \A i \in S : t.part[i] = part[i]
      /\ t.rest = s.rest - Total(S, give)
      /\ t.active = less /\ t.weight = weight
  <2>1. SumOver(give) = Total(S, give)
    BY TotalOf
  <2>2. DOMAIN cap = S
    OBVIOUS
  <2>3. t = [part |-> part, rest |-> s.rest - SumOver(give), active |-> less, weight |-> weight]
    BY <2>2 DEF Round
  <2> HIDE DEF t, give, less, weight, share, active
  <2> QED BY <2>1, <2>3
<1> HIDE DEF t
<1>2. /\ \A i \in S : s.part[i] \in Nat /\ s.part[i] <= cap[i] /\ cap[i] \in Nat
      /\ s.rest \in Nat /\ s.rest > 0 /\ Total(S, s.part) + s.rest = amount
      /\ s.active \in SUBSET S
      /\ \A i \in S : s.weight[i] \in Nat
      /\ \A i \in s.active : s.weight[i] > 0 /\ s.part[i] < cap[i]
  BY DEF Fitting
<1>3. \A i \in S : room[i] \in Nat /\ room[i] + s.part[i] = cap[i]
  BY <1>2
<1>4. Total(S, room) \in Nat /\ s.rest <= Total(S, room)
  <2>1. (\A i \in S : room[i] \in Int) /\ (\A i \in S : s.part[i] \in Int)
    BY <1>2, <1>3
  <2>2. \A i \in S : cap[i] = [j \in S |-> room[j] + s.part[j]][i]
    BY <1>3
  <2> DEFINE both == [j \in S |-> room[j] + s.part[j]]
  <2>3. Total(S, both) = Total(S, room) + Total(S, s.part)
    <3> HIDE DEF room
    <3> QED BY <2>1, TotalPlus
  <2>4. Total(S, cap) = Total(S, both)
    <3> HIDE DEF both
    <3> QED BY <2>2, TotalSame DEF both
  <2>5. Total(S, room) \in Nat /\ Total(S, s.part) \in Nat
    <3> HIDE DEF room
    <3> QED BY <1>2, <1>3, TotalNat
  <2> HIDE DEF room, both
  <2> QED BY <1>2, <2>3, <2>4, <2>5
<1> HIDE DEF room
<1>5. /\ active \in SUBSET S /\ active \in SUBSET Nat /\ IsFiniteSet(active) /\ active # {}
      /\ \A i \in active : weight[i] \in Nat /\ weight[i] > 0 /\ room[i] > 0
      /\ \A i \in S : weight[i] \in Nat
  <2>1. CASE wanted
    <3>1. ASSUME NEW i \in s.active
          PROVE  s.weight[i] \in Nat /\ s.weight[i] > 0 /\ room[i] > 0
      <4>1. /\ i \in S /\ s.weight[i] \in Nat /\ s.weight[i] > 0 /\ s.part[i] < cap[i]
            /\ cap[i] \in Nat /\ s.part[i] \in Nat
            /\ room[i] \in Nat /\ room[i] + s.part[i] = cap[i]
        BY <1>2, <1>3
      <4> QED BY <4>1
    <3> QED BY <1>2, <2>1, <3>1, FS_Subset
  <2>2. CASE ~ wanted
    <3>1. active = {i \in S : room[i] > 0} /\ weight = room
      BY <2>2
    <3>2. active # {}
      <4>1. ASSUME \A i \in S : room[i] = 0 PROVE FALSE
        <5>1. Total(S, room) = 0
          BY <4>1, TotalZero
        <5> QED BY <1>2, <1>4, <5>1
      <4> QED BY <1>3, <3>1, <4>1
    <3> HIDE DEF active, weight
    <3> QED BY <1>3, <3>1, <3>2, FS_Subset
  <2> QED BY <2>1, <2>2
<1>6. /\ \A i \in active : share[i] \in Nat
      /\ Total(active, share) = s.rest
      /\ s.rest <= Total(active, weight) => \A i \in active : share[i] <= weight[i]
  <2> HIDE DEF active, weight
  <2> DEFINE w == Only(active, weight)
  <2>1. w \in [active -> Nat \ {0}] /\ \A i \in active : w[i] = weight[i]
    BY <1>5 DEF Only
  <2> HIDE DEF w
  <2>2. Total(active, w) = Total(active, weight)
    BY <2>1, TotalSame
  <2>3. /\ Allocate(s.rest, w) \in [active -> Nat]
        /\ Total(active, Allocate(s.rest, w)) = s.rest
        /\ s.rest <= Total(active, w)
             => \A i \in active : Allocate(s.rest, w)[i] <= w[i]
    BY <1>2, <1>5, <2>1, AllocateExact
  <2> QED BY <2>1, <2>2, <2>3 DEF w
<1> HIDE DEF share
<1>7. /\ \A i \in S : give[i] \in Nat /\ give[i] <= room[i]
      /\ \A i \in active : give[i] <= share[i] /\ (share[i] <= room[i] => give[i] = share[i])
      /\ \A i \in active : share[i] > room[i] => give[i] = room[i]
      /\ \A i \in S \ active : give[i] = 0
  <2>1. ASSUME NEW i \in active
        PROVE  /\ i \in S /\ share[i] \in Nat /\ room[i] \in Nat
               /\ give[i] = IF share[i] > room[i] THEN room[i] ELSE share[i]
    <3> HIDE DEF active
    <3> QED BY <1>3, <1>5, <1>6
  <2>2. ASSUME NEW i \in active
        PROVE  /\ give[i] \in Nat /\ give[i] <= room[i] /\ give[i] <= share[i]
               /\ share[i] <= room[i] => give[i] = share[i]
               /\ share[i] > room[i] => give[i] = room[i]
    <3> DEFINE g == give[i]
               h == share[i]
               m == room[i]
    <3>1. h \in Nat /\ m \in Nat /\ g = IF h > m THEN m ELSE h
      BY <2>1
    <3> HIDE DEF g, h, m
    <3>2. /\ g \in Nat /\ g <= m /\ g <= h
          /\ h <= m => g = h
          /\ h > m => g = m
      BY <3>1
    <3> QED BY <3>2 DEF g, h, m
  <2>3. ASSUME NEW i \in S \ active PROVE give[i] = 0
    BY <2>3
  <2> HIDE DEF active, give
  <2>4. ASSUME NEW i \in S PROVE give[i] \in Nat /\ give[i] <= room[i]
    <3>1. CASE i \in active
      BY <2>2, <3>1
    <3>2. CASE i \notin active
      <4>1. give[i] = 0
        BY <2>3, <3>2
      <4>2. room[i] \in Nat
        BY <1>3
      <4> QED BY <4>1, <4>2
    <3> QED BY <3>1, <3>2
  <2> QED BY <2>2, <2>3, <2>4
<1> HIDE DEF give
<1>8. Total(S, give) = Total(active, give) /\ Total(active, give) \in Nat
  <2> HIDE DEF active
  <2>1. \A i \in S : give[i] \in Int
    BY <1>7
  <2>2. Total(S, give) = Total(active, give) + Total(S \ active, give)
    BY <1>5, <2>1, TotalSplit
  <2>3. IsFiniteSet(S \ active)
    BY FS_Subset
  <2>4. Total(S \ active, give) = 0
    BY <1>7, <2>3, TotalZero
  <2>5. \A i \in active : give[i] \in Nat
    BY <1>5, <1>7
  <2>6. Total(active, give) \in Nat
    BY <1>5, <2>5, TotalNat
  <2> QED BY <2>2, <2>4, <2>6
<1>9. Total(active, give) <= s.rest
  <2> HIDE DEF active
  <2>1. \A i \in active : give[i] \in Int /\ share[i] \in Int /\ give[i] <= share[i]
    BY <1>5, <1>6, <1>7
  <2> QED BY <1>5, <1>6, <2>1, TotalAtMost
<1>10. t.rest \in Nat
  BY <1>1, <1>2, <1>8, <1>9
<1>11. Fitting(S, cap, amount, t)
  <2>1. \A i \in S : part[i] \in Nat /\ part[i] <= cap[i]
    BY <1>2, <1>3, <1>7
  <2>2. Total(S, part) = Total(S, s.part) + Total(S, give)
    <3>1. (\A i \in S : s.part[i] \in Int) /\ (\A i \in S : give[i] \in Int)
      BY <1>2, <1>7
    <3> QED BY <3>1, TotalPlus
  <2>3. Total(S, t.part) = Total(S, part)
    BY <1>1, TotalSame
  <2>4. Total(S, t.part) + t.rest = amount
    <3>1. Total(S, s.part) \in Nat
      BY <1>2, TotalNat
    <3> HIDE DEF part
    <3> QED BY <1>1, <1>2, <1>8, <2>2, <2>3, <3>1
  <2>5. \A i \in t.active : i \in active /\ t.weight[i] > 0 /\ t.part[i] < cap[i]
    <3>1. ASSUME NEW i \in less PROVE i \in active /\ i \in S /\ weight[i] > 0 /\ part[i] < cap[i]
      <4>1. i \in active /\ i \in S /\ weight[i] > 0 /\ give[i] < room[i]
        <5> HIDE DEF active, weight
        <5> QED BY <1>5, <1>7
      <4> HIDE DEF active, weight
      <4> QED BY <1>2, <1>3, <1>7, <4>1
    <3> HIDE DEF active, weight, less, part
    <3> QED BY <1>1, <3>1
  <2>6. t.active \in SUBSET S
    <3> HIDE DEF active, weight, less, part
    <3> QED BY <1>5, <2>5
  <2> HIDE DEF active, weight, less, part
  <2> QED BY <1>1, <1>5, <1>10, <2>1, <2>4, <2>5, <2>6 DEF Fitting
<1>12. ASSUME t.rest # 0 PROVE t.active \in SUBSET s.active /\ t.active # s.active
  <2>1. PICK i \in active : share[i] > room[i]
    <3>1. ASSUME \A i \in active : share[i] <= room[i] PROVE FALSE
      <4> HIDE DEF active
      <4>1. \A i \in active : give[i] = share[i]
        BY <1>7, <3>1
      <4>2. Total(active, give) = s.rest
        BY <1>6, <4>1, TotalSame
      <4> QED BY <1>1, <1>2, <1>8, <1>12, <4>2
    <3> HIDE DEF active
    <3>2. \A i \in active : share[i] \in Int /\ room[i] \in Int
      BY <1>3, <1>5, <1>6
    <3>3. PICK i \in active : ~ (share[i] <= room[i])
      BY <3>1
    <3>4. share[i] > room[i]
      BY <3>2, <3>3
    <3> QED BY <3>4
  <2>2. wanted
    <3>1. ASSUME ~ wanted PROVE FALSE
      <4>1. active = {j \in S : room[j] > 0} /\ weight = room
        BY <3>1
      <4> HIDE DEF active, weight
      <4>2. Total(S, room) = Total(active, room)
        <5>1. \A j \in S : room[j] \in Int
          BY <1>3
        <5>2. Total(S, room) = Total(active, room) + Total(S \ active, room)
          BY <1>5, <5>1, TotalSplit
        <5>3. IsFiniteSet(S \ active) /\ \A j \in S \ active : room[j] = 0
          BY <1>3, <4>1, FS_Subset
        <5>4. Total(S \ active, room) = 0
          BY <5>3, TotalZero
        <5>5. Total(active, room) \in Int
          BY <1>5, <5>1, TotalInt
        <5> QED BY <5>2, <5>4, <5>5
      <4>3. share[i] <= room[i]
        BY <1>4, <1>6, <2>1, <4>1, <4>2
      <4> QED BY <1>3, <1>5, <1>6, <2>1, <4>3
    <3> QED BY <3>1
  <2>3. active = s.active
    BY <2>2
  <2>4. less \in SUBSET active /\ i \notin less
    <3> HIDE DEF active
    <3> QED BY <1>3, <1>5, <1>7, <2>1
  <2> HIDE DEF active, less
  <2> QED BY <1>1, <2>1, <2>3, <2>4
<1> QED BY <1>11, <1>12 DEF t

(* The loop of allocateCapped, unrolled: the first state, a turn, and the  *)
(* states of the first m turns.                                            *)
First(cap, weight, amount) ==
  [part |-> [i \in DOMAIN cap |-> 0], rest |-> amount, weight |-> weight,
   active |-> {i \in DOMAIN cap : weight[i] > 0 /\ cap[i] > 0}]
Onward(cap, s) == IF s.rest = 0 THEN s ELSE Round(cap, s)
Rounds(h, m, cap, weight, amount) ==
  h = [k \in 0 .. m |-> IF k = 0 THEN First(cap, weight, amount) ELSE Onward(cap, h[k - 1])]

(* The recursive function of AllocateCapped exists, for any number of      *)
(* turns.                                                                  *)
LEMMA RoundsAreDefined ==
  ASSUME NEW m \in Nat, NEW cap, NEW weight, NEW amount
  PROVE  \E h : Rounds(h, m, cap, weight, amount)
<1> DEFINE C == {n \in 0 .. m : \E h : Rounds(h, n, cap, weight, amount)}
<1>1. 0 \in C
  <2> DEFINE h == [k \in 0 .. 0 |-> First(cap, weight, amount)]
  <2>1. Rounds(h, 0, cap, weight, amount)
    BY DEF Rounds
  <2> QED BY <2>1
<1>2. ASSUME NEW n \in 0 .. m - 1, n \in C PROVE n + 1 \in C
  <2>1. PICK h : Rounds(h, n, cap, weight, amount)
    BY <1>2
  <2> DEFINE g == [k \in 0 .. n + 1 |-> IF k = n + 1 THEN Onward(cap, h[n]) ELSE h[k]]
             e == [k \in 0 .. n + 1 |->
                     IF k = 0 THEN First(cap, weight, amount) ELSE Onward(cap, g[k - 1])]
  <2>2. ASSUME NEW k \in 0 .. n + 1 PROVE g[k] = e[k]
    <3>1. CASE k = 0
      BY <2>1, <3>1 DEF Rounds
    <3>2. CASE k = n + 1
      BY <3>2
    <3>3. CASE k \in 1 .. n
      <4>1. k - 1 \in 0 .. n /\ k \in 0 .. n /\ k - 1 # n + 1 /\ k # n + 1 /\ k # 0
        BY <3>3
      <4>2. h[k] = Onward(cap, h[k - 1])
        BY <2>1, <4>1 DEF Rounds
      <4> QED BY <4>1, <4>2
    <3> QED BY <3>1, <3>2, <3>3
  <2>3. g = e
    BY <2>2
  <2>4. Rounds(g, n + 1, cap, weight, amount)
    <3> HIDE DEF g
    <3> QED BY <2>3 DEF Rounds
  <2> HIDE DEF g
  <2> QED BY <2>4
<1>3. m \in C
  <2> HIDE DEF C
  <2> QED BY <1>1, <1>2, StepByStep
<1> QED BY <1>3

(* Enough rounds give out all of it, and overfill no bucket.               *)
THEOREM AllocateCappedExact ==
  ASSUME NEW S \in SUBSET Nat, IsFiniteSet(S), NEW cap \in [S -> Nat],
         NEW weight, \A i \in S : weight[i] \in Nat,
         NEW amount \in Nat, amount <= Total(S, cap)
  PROVE  LET part == AllocateCapped(amount, weight, cap)
         IN /\ DOMAIN part = S /\ \A i \in S : part[i] \in Nat /\ part[i] <= cap[i]
            /\ Total(S, part) = amount
<1> DEFINE n == Cardinality(S)
           last == n + 2
           state == CHOOSE h : Rounds(h, last, cap, weight, amount)
           Good(s) == Fitting(S, cap, amount, s)
           C == {k \in 0 .. last : /\ Good(state[k])
                                   /\ state[k].rest = 0 \/ Cardinality(state[k].active) + k <= n}
<1>1. n \in Nat /\ DOMAIN cap = S
  BY FS_CardinalityType
<1>2. AllocateCapped(amount, weight, cap) = state[last].part
  BY <1>1 DEF AllocateCapped, Rounds, First, Onward
<1>3. Rounds(state, last, cap, weight, amount)
  <2> HIDE DEF last
  <2>1. last \in Nat
    BY <1>1 DEF last
  <2> QED BY <2>1, RoundsAreDefined
<1> HIDE DEF state
<1>4. /\ state[0] = First(cap, weight, amount)
      /\ \A k \in 0 .. last - 1 : state[k + 1] = Onward(cap, state[k])
  <2>1. state[0] = First(cap, weight, amount)
    BY <1>1, <1>3 DEF Rounds
  <2>2. ASSUME NEW k \in 0 .. last - 1 PROVE state[k + 1] = Onward(cap, state[k])
    <3>1. k + 1 \in 0 .. last /\ k + 1 # 0 /\ (k + 1) - 1 = k
      BY <1>1
    <3> QED BY <1>3, <3>1 DEF Rounds
  <2> QED BY <2>1, <2>2
<1>5. 0 \in C
  <2> DEFINE s == First(cap, weight, amount)
             none == [i \in S |-> 0]
  <2>1. /\ s.part = none /\ s.rest = amount /\ s.weight = weight
        /\ s.active = {i \in S : weight[i] > 0 /\ cap[i] > 0}
    BY <1>1 DEF First
  <2>2. Total(S, none) = 0
    <3>1. \A i \in S : none[i] = 0
      OBVIOUS
    <3> HIDE DEF none
    <3> QED BY <3>1, TotalZero
  <2>3. Good(s)
    <3> HIDE DEF s
    <3> QED BY <2>1, <2>2 DEF Fitting
  <2>4. Cardinality(s.active) <= n /\ Cardinality(s.active) \in Nat
    <3> HIDE DEF s
    <3>1. s.active \in SUBSET S
      BY <2>1
    <3> QED BY <3>1, FS_Subset, FS_CardinalityType
  <2> HIDE DEF s, n, Good
  <2> QED BY <1>1, <1>4, <2>3, <2>4 DEF s
<1>6. ASSUME NEW k \in 0 .. last - 1, k \in C PROVE k + 1 \in C
  <2> DEFINE s == state[k]
             t == state[k + 1]
  <2>0. k \in Nat /\ k + 1 \in 0 .. last
    BY <1>1
  <2>1. t = Onward(cap, s) /\ Good(s)
    BY <1>4, <1>6
  <2> HIDE DEF s, t
  <2>2. Good(t) /\ (t.rest = 0 \/ Cardinality(t.active) + (k + 1) <= n)
    <3>1. CASE s.rest = 0
      BY <2>1, <3>1 DEF Onward
    <3>2. CASE s.rest # 0
      <4>1. t = Round(cap, s)
        BY <2>1, <3>2 DEF Onward
      <4>2. /\ Good(t)
            /\ t.rest = 0 \/ (t.active \in SUBSET s.active /\ t.active # s.active)
        <5>1. Fitting(S, cap, amount, s)
          BY <2>1
        <5> HIDE DEF C, last, n, Good
        <5>2. /\ Fitting(S, cap, amount, Round(cap, s))
              /\ \/ Round(cap, s).rest = 0
                 \/ /\ Round(cap, s).active \in SUBSET s.active
                    /\ Round(cap, s).active # s.active
          BY <3>2, <5>1, RoundFits
        <5> QED BY <4>1, <5>2 DEF Good
      <4>3. ASSUME t.rest # 0 PROVE Cardinality(t.active) + (k + 1) <= n
        <5>1. IsFiniteSet(s.active) /\ IsFiniteSet(t.active)
          BY <2>1, <4>2, FS_Subset DEF Fitting
        <5>2. Cardinality(s.active) \in Nat /\ Cardinality(t.active) \in Nat
          BY <5>1, FS_CardinalityType
        <5>3. /\ Cardinality(t.active) <= Cardinality(s.active)
              /\ Cardinality(t.active) # Cardinality(s.active)
          BY <4>2, <4>3, <5>1, FS_Subset
        <5>4. Cardinality(s.active) + k <= n
          BY <1>6, <3>2 DEF s
        <5> HIDE DEF n
        <5> QED BY <1>1, <2>0, <5>2, <5>3, <5>4
      <4> QED BY <4>2, <4>3
    <3> QED BY <3>1, <3>2
  <2> HIDE DEF Good
  <2> QED BY <2>0, <2>2 DEF t
<1>7. last \in C
  <2>1. last \in Nat
    BY <1>1
  <2> HIDE DEF C, last
  <2> QED BY <1>5, <1>6, <2>1, StepByStep
<1>8. Good(state[last]) /\ state[last].rest = 0
  <2>1. Good(state[last]) /\ (state[last].rest = 0 \/ Cardinality(state[last].active) + last <= n)
    BY <1>7
  <2>2. Cardinality(state[last].active) \in Nat
    BY <2>1, FS_Subset, FS_CardinalityType DEF Fitting
  <2> HIDE DEF Good
  <2> QED BY <1>1, <2>1, <2>2
<1>9. LET part == state[last].part
      IN /\ DOMAIN part = S /\ \A i \in S : part[i] \in Nat /\ part[i] <= cap[i]
         /\ Total(S, part) = amount
  <2>1. Total(S, state[last].part) \in Nat
    BY <1>8, TotalNat DEF Fitting
  <2> QED BY <1>8, <2>1 DEF Fitting
<1> QED BY <1>2, <1>9

-----------------------------------------------------------------------------
(* More about sums.                                                        *)

(* The sum over a part of a set, and over a single element.                *)
LEMMA TotalWithin ==
  ASSUME NEW S, IsFiniteSet(S), NEW T \in SUBSET S, NEW f, NEW h,
         \A i \in T : f[i] \in Int, \A i \in T : h[i] = f[i], \A i \in S \ T : h[i] = 0
  PROVE  Total(S, h) = Total(T, f)
<1>1. \A i \in S : h[i] \in Int
  OBVIOUS
<1>2. IsFiniteSet(T) /\ IsFiniteSet(S \ T)
  BY FS_Subset
<1>3. Total(S, h) = Total(T, h) + Total(S \ T, h)
  BY <1>1, TotalSplit
<1>4. Total(T, h) = Total(T, f) /\ Total(S \ T, h) = 0
  BY <1>2, TotalSame, TotalZero
<1>5. Total(T, f) \in Int
  BY <1>2, TotalInt
<1> QED BY <1>3, <1>4, <1>5

(* A set where one term is not zero.                                       *)
LEMMA TotalSingle ==
  ASSUME NEW S, IsFiniteSet(S), NEW x \in S, NEW f, f[x] \in Int, \A i \in S : i # x => f[i] = 0
  PROVE  Total(S, f) = f[x]
<1>1. IsFiniteSet(S \ {x}) /\ \A i \in S \ {x} : f[i] = 0
  BY FS_Subset
<1>2. Total(S \ {x}, f) = 0
  BY <1>1, TotalZero
<1>3. \A i \in S : f[i] \in Int
  OBVIOUS
<1>4. Total(S, f) = f[x] + Total(S \ {x}, f)
  BY <1>3, TotalRemove
<1> QED BY <1>2, <1>4

(* The groups of a set make up the whole.                                  *)
LEMMA TotalGroups ==
  ASSUME NEW S, IsFiniteSet(S), NEW f, \A i \in S : f[i] \in Int,
         NEW K, IsFiniteSet(K), NEW group,
         \A k \in K : group[k] \in SUBSET S,
         \A i \in S : \E k \in K : i \in group[k] /\ \A j \in K : i \in group[j] => j = k
  PROVE  Total(K, [k \in K |-> Total(group[k], f)]) = Total(S, f)
<1> DEFINE m == [k \in K |-> [i \in S |-> IF i \in group[k] THEN f[i] ELSE 0]]
           row == [k \in K |-> Total(S, m[k])]
           each == [i \in S |-> Total(K, [k \in K |-> m[k][i]])]
           all == [k \in K |-> Total(group[k], f)]
<1>1. \A k \in K, i \in S : m[k][i] \in Int
  OBVIOUS
<1>2. Total(K, row) = Total(S, each)
  <2> HIDE DEF m
  <2> QED BY <1>1, TotalSwap
<1>3. Total(K, row) = Total(K, all)
  <2>1. ASSUME NEW k \in K PROVE row[k] = all[k]
    <3> DEFINE h == m[k]
               G == group[k]
    <3>1. /\ G \in SUBSET S /\ \A i \in G : f[i] \in Int
          /\ \A i \in G : h[i] = f[i]
          /\ \A i \in S \ G : h[i] = 0
      OBVIOUS
    <3> HIDE DEF h, G
    <3>2. Total(S, h) = Total(G, f)
      BY <3>1, TotalWithin
    <3> HIDE DEF m
    <3> QED BY <3>2 DEF h, G
  <2> HIDE DEF row, all
  <2> QED BY <2>1, TotalSame
<1>4. Total(S, each) = Total(S, f)
  <2>1. ASSUME NEW i \in S PROVE each[i] = f[i]
    <3> DEFINE c == [k \in K |-> m[k][i]]
    <3>1. PICK k \in K : i \in group[k] /\ \A j \in K : i \in group[j] => j = k
      OBVIOUS
    <3>2. c[k] = f[i] /\ c[k] \in Int /\ \A j \in K : j # k => c[j] = 0
      BY <3>1
    <3>3. each[i] = Total(K, c)
      OBVIOUS
    <3> HIDE DEF c, each
    <3>4. Total(K, c) = c[k]
      BY <3>2, TotalSingle
    <3> QED BY <3>2, <3>3, <3>4
  <2> HIDE DEF each
  <2> QED BY <2>1, TotalSame
<1> HIDE DEF row, each, all
<1> QED BY <1>2, <1>3, <1>4 DEF all

(* One more, and two by two up to 2n.                                      *)
LEMMA TotalUpTo ==
  ASSUME NEW n \in Nat, NEW f, \A s \in 1 .. n : f[s] \in Int, NEW m \in 0 .. n - 1
  PROVE  /\ Total(1 .. m, f) \in Int
         /\ Total(1 .. m + 1, f) = Total(1 .. m, f) + f[m + 1]
<1> DEFINE S == 1 .. n
           T == 1 .. m
           x == m + 1
<1>1. /\ \A s \in S : f[s] \in Int
      /\ T \in SUBSET S /\ x \in S \ T /\ T \cup {x} = 1 .. m + 1
  OBVIOUS
<1>2. IsFiniteSet(S)
  BY FS_Interval
<1> HIDE DEF S, T, x
<1>3. Total(T, f) \in Int /\ Total(T \cup {x}, f) = Total(T, f) + f[x]
  BY <1>1, <1>2, TotalAdd
<1> QED BY <1>1, <1>3 DEF T, x

(* The odd and the even terms, two by two.                                 *)
LEMMA TotalPairs ==
  ASSUME NEW n \in Nat, NEW f, \A s \in 1 .. 2 * n : f[s] \in Int
  PROVE  Total(1 .. 2 * n, f)
         = Total(1 .. n, [k \in 1 .. n |-> f[2 * k - 1] + f[2 * k]])
<1> DEFINE pair == [k \in 1 .. n |-> f[2 * k - 1] + f[2 * k]]
           C == {m \in 0 .. n : Total(1 .. 2 * m, f) = Total(1 .. m, pair)}
<1>0. \A k \in 1 .. n : pair[k] \in Int /\ pair[k] = f[2 * k - 1] + f[2 * k]
  OBVIOUS
<1>f. IsFiniteSet(1 .. n) /\ IsFiniteSet(1 .. 2 * n)
  BY FS_Interval
<1> HIDE DEF pair
<1>1. 0 \in C
  <2>1. 1 .. 2 * 0 = {} /\ 1 .. 0 = {}
    OBVIOUS
  <2> QED BY <2>1, TotalEmpty
<1>2. ASSUME NEW m \in 0 .. n - 1, m \in C PROVE m + 1 \in C
  <2>1. Total(1 .. m + 1, pair) = Total(1 .. m, pair) + pair[m + 1]
    BY <1>0, TotalUpTo
  <2>2. /\ Total(1 .. 2 * m, f) \in Int
        /\ Total(1 .. 2 * m + 1, f) = Total(1 .. 2 * m, f) + f[2 * m + 1]
    <3>1. 2 * n \in Nat /\ 2 * m \in 0 .. 2 * n - 1
      OBVIOUS
    <3> QED BY <3>1, TotalUpTo
  <2>3. Total(1 .. 2 * (m + 1), f) = Total(1 .. 2 * m + 1, f) + f[2 * m + 2]
    <3> DEFINE l == 2 * m + 1
    <3>1. 2 * n \in Nat /\ l \in 0 .. 2 * n - 1 /\ l + 1 = 2 * m + 2 /\ 2 * (m + 1) = l + 1
      OBVIOUS
    <3> HIDE DEF l
    <3>2. Total(1 .. l + 1, f) = Total(1 .. l, f) + f[l + 1]
      BY <3>1, TotalUpTo
    <3> QED BY <3>1, <3>2 DEF l
  <2>4. pair[m + 1] = f[2 * m + 1] + f[2 * m + 2] /\ f[2 * m + 1] \in Int /\ f[2 * m + 2] \in Int
    <3>1. m + 1 \in 1 .. n /\ 2 * (m + 1) - 1 = 2 * m + 1 /\ 2 * (m + 1) = 2 * m + 2
          /\ 2 * m + 1 \in 1 .. 2 * n /\ 2 * m + 2 \in 1 .. 2 * n
      OBVIOUS
    <3> QED BY <1>0, <3>1
  <2>5. Total(1 .. 2 * m, f) = Total(1 .. m, pair)
    BY <1>2
  <2>6. Total(1 .. 2 * (m + 1), f) = Total(1 .. m + 1, pair)
    <3> DEFINE a == Total(1 .. 2 * m, f)
               x == f[2 * m + 1]
               y == f[2 * m + 2]
    <3>1. a \in Int /\ x \in Int /\ y \in Int
      BY <2>2, <2>4
    <3>2. Total(1 .. 2 * (m + 1), f) = (a + x) + y /\ Total(1 .. m + 1, pair) = a + (x + y)
      BY <2>1, <2>2, <2>3, <2>4, <2>5
    <3> HIDE DEF a, x, y
    <3>3. (a + x) + y = a + (x + y)
      BY <3>1
    <3> QED BY <3>2, <3>3
  <2> QED BY <2>6
<1>3. n \in C
  <2> HIDE DEF C
  <2> QED BY <1>1, <1>2, StepByStep
<1> QED BY <1>3 DEF pair

(* What is near, term by term, is near in all.                             *)
LEMMA TotalNear ==
  ASSUME NEW S, IsFiniteSet(S), NEW b \in Nat, NEW f, NEW g, NEW n,
         \A i \in S : f[i] \in Int /\ g[i] \in Int /\ n[i] \in Nat
                      /\ Apart(f[i], g[i]) <= b * n[i]
  PROVE  Apart(Total(S, f), Total(S, g)) <= b * Total(S, n)
<1> DEFINE near == [i \in S |-> b * n[i]]
           up(h) == [i \in S |-> h[i] + near[i]]
<1>1. /\ \A i \in S : f[i] \in Int
      /\ \A i \in S : g[i] \in Int
      /\ \A i \in S : n[i] \in Int /\ n[i] \in Nat
  OBVIOUS
<1>2. \A i \in S : near[i] \in Int
  OBVIOUS
<1>3. \A i \in S : f[i] <= up(g)[i] /\ g[i] <= up(f)[i] /\ up(g)[i] \in Int /\ up(f)[i] \in Int
  <2>1. ASSUME NEW i \in S PROVE f[i] <= g[i] + near[i] /\ g[i] <= f[i] + near[i]
    <3>1. near[i] = b * n[i]
      OBVIOUS
    <3> HIDE DEF near
    <3> QED BY <1>2, <3>1 DEF Apart
  <2> HIDE DEF near
  <2> QED BY <1>1, <1>2, <2>1
<1>4. Total(S, near) = b * Total(S, n)
  BY <1>1, TotalTimes
<1> HIDE DEF near
<1>5. /\ Total(S, up(g)) = Total(S, g) + Total(S, near)
      /\ Total(S, up(f)) = Total(S, f) + Total(S, near)
  BY <1>1, <1>2, TotalPlus
<1> HIDE DEF up
<1>6. Total(S, f) <= Total(S, up(g)) /\ Total(S, g) <= Total(S, up(f))
  BY <1>1, <1>3, TotalAtMost
<1>7. Total(S, f) \in Int /\ Total(S, g) \in Int /\ Total(S, near) \in Int
  BY <1>1, <1>2, TotalInt
<1> QED BY <1>4, <1>5, <1>6, <1>7 DEF Apart

-----------------------------------------------------------------------------
(* The arithmetic of a bill.                                               *)

(* The same of an allocation in which weights may be zero.                 *)
LEMMA AllocateWithZerosExact ==
  ASSUME NEW S \in SUBSET Nat, IsFiniteSet(S), NEW total \in Nat, NEW weight \in [S -> Nat]
  PROVE  LET part == AllocateWithZeros(total, weight)
             whole == Total(S, weight)
         IN /\ part \in [S -> Nat]
            /\ whole > 0 \/ total = 0 => Total(S, part) = total
            /\ total <= whole => \A i \in S : part[i] <= weight[i]
            /\ whole > 0 => \A i \in S : Near(whole * part[i], total * weight[i], whole)
<1> DEFINE some == {i \in S : weight[i] > 0}
           w == Only(some, weight)
           few == Allocate(total, w)
           part == [i \in S |-> IF i \in some THEN few[i] ELSE 0]
           whole == Total(S, weight)
<1>1. AllocateWithZeros(total, weight) = part
  BY DEF AllocateWithZeros
<1>2. /\ some \in SUBSET S /\ some \in SUBSET Nat /\ IsFiniteSet(some)
      /\ \A i \in S \ some : weight[i] = 0
      /\ \A i \in some : weight[i] \in Nat \ {0}
  <2>1. /\ some \in SUBSET S /\ some \in SUBSET Nat
    OBVIOUS
  <2>2. ASSUME NEW i \in S
        PROVE  /\ i \notin some => weight[i] = 0
               /\ i \in some => weight[i] \in Nat \ {0}
    <3>1. weight[i] \in Nat /\ (i \in some <=> weight[i] > 0)
      OBVIOUS
    <3> QED BY <3>1
  <2> HIDE DEF some
  <2> QED BY <2>1, <2>2, FS_Subset
<1>3. w \in [some -> Nat \ {0}] /\ \A i \in some : w[i] = weight[i]
  BY <1>2 DEF Only
<1> HIDE DEF some
<1>4. whole = Total(some, w) /\ whole \in Nat
  <2>1. \A i \in S : weight[i] \in Int
    OBVIOUS
  <2>2. whole = Total(some, weight) + Total(S \ some, weight)
    BY <1>2, <2>1, TotalSplit
  <2>3. IsFiniteSet(S \ some)
    BY FS_Subset
  <2>4. Total(S \ some, weight) = 0
    BY <1>2, <2>3, TotalZero
  <2>5. Total(some, weight) = Total(some, w)
    BY <1>3, TotalSame
  <2>6. Total(some, weight) \in Nat
    <3>1. \A i \in some : weight[i] \in Nat
      BY <1>2
    <3> QED BY <1>2, <3>1, TotalNat
  <2> HIDE DEF w, whole
  <2> QED BY <2>2, <2>4, <2>5, <2>6
<1> HIDE DEF w, whole
<1>5. CASE some = {}
  <2>1. part \in [S -> Nat] /\ \A i \in S : part[i] = 0
    BY <1>5
  <2>2. Total(S, part) = 0
    <3> HIDE DEF part
    <3> QED BY <2>1, TotalZero
  <2>3. whole = 0
    BY <1>4, <1>5, TotalEmpty
  <2> HIDE DEF part
  <2> QED BY <1>1, <2>1, <2>2, <2>3 DEF whole
<1>6. CASE some # {}
  <2>1. /\ whole \in Nat \ {0} /\ few \in [some -> Nat] /\ Total(some, few) = total
        /\ \A i \in some : Near(whole * few[i], total * w[i], whole)
        /\ total <= whole => \A i \in some : few[i] <= w[i]
    BY <1>2, <1>3, <1>4, <1>6, AllocateExact
  <2> HIDE DEF few
  <2>2. part \in [S -> Nat]
    BY <2>1
  <2>3. Total(S, part) = total
    <3>1. \A i \in some : few[i] \in Int
      BY <2>1
    <3> HIDE DEF part
    <3>2. (\A i \in some : part[i] = few[i]) /\ (\A i \in S \ some : part[i] = 0)
      BY <1>2 DEF part
    <3>3. (\A i \in S : part[i] \in Int) /\ IsFiniteSet(S \ some)
      BY <2>2, FS_Subset
    <3>4. Total(S, part) = Total(some, part) + Total(S \ some, part)
      BY <1>2, <3>3, TotalSplit
    <3>5. Total(some, part) = Total(some, few)
      BY <3>2, TotalSame
    <3>6. Total(S \ some, part) = 0
      BY <3>2, <3>3, TotalZero
    <3>7. total \in Int /\ Total(some, few) = total
      BY <2>1
    <3> QED BY <3>4, <3>5, <3>6, <3>7
  <2>4. ASSUME total <= whole, NEW i \in S PROVE part[i] <= weight[i]
    <3>1. CASE i \in some
      BY <1>3, <2>1, <2>4, <3>1
    <3>2. CASE i \notin some
      BY <1>2, <3>2
    <3> QED BY <3>1, <3>2
  <2>5. ASSUME NEW i \in S
        PROVE  Near(whole * part[i], total * weight[i], whole)
    <3>1. CASE i \in some
      BY <1>3, <2>1, <3>1
    <3>2. CASE i \notin some
      <4>1. part[i] = 0 /\ total * weight[i] = 0 /\ whole * part[i] = 0
        BY <1>2, <2>1, <3>2
      <4> QED BY <2>1, <4>1 DEF Near
    <3> QED BY <3>1, <3>2
  <2> HIDE DEF part
  <2> QED BY <1>1, <2>1, <2>2, <2>3, <2>4, <2>5 DEF whole
<1> QED BY <1>5, <1>6

(* money.js: what is rounded to céntimos is a whole number of them,        *)
LEMMA Rounded ==
  ASSUME NEW x \in Nat, NEW d \in Nat \ {0}
  PROVE  DivideRound(x, d) \in Nat
<1> DEFINE a == x + d \div 2
<1>1. a \in Nat
  OBVIOUS
<1> HIDE DEF a
<1>2. a \div d \in Nat
  BY <1>1, DivMod
<1> QED BY <1>2 DEF DivideRound, a

(* and what needs no rounding stays as it is.                              *)
LEMMA RoundedExactly ==
  ASSUME NEW n \in Nat, NEW d \in Nat \ {0}
  PROVE  DivideRound(n * d, d) = n
<1> DEFINE h == d \div 2
           b == n * d + h
<1>1. h \in Nat /\ h < d
  OBVIOUS
<1> HIDE DEF h
<1>2. b \in Int /\ b = d * n + h
  BY <1>1
<1> DEFINE q == b \div d
           r == b % d
<1> HIDE DEF b
<1>3. b = d * q + r /\ q \in Int /\ r \in Nat /\ r < d
  BY <1>2, DivMod
<1> HIDE DEF q, r
<1>4. d * q < d * (n + 1) /\ d * n < d * (q + 1)
  BY <1>1, <1>2, <1>3
<1>5. q < n + 1 /\ n < q + 1
  BY <1>3, <1>4, Cancel
<1>6. q = n
  BY <1>3, <1>5
<1> QED BY <1>6 DEF DivideRound, q, b, h

(* A percentage of an amount, and of nothing.                              *)
LEMMA BasisPoints ==
  ASSUME NEW x \in Nat, NEW bps \in Nat
  PROVE  ApplyBps(x, bps) \in Nat /\ ApplyBps(0, bps) = 0
<1> DEFINE y == x * bps
           d == 10000
<1>1. y \in Nat /\ d \in Nat \ {0} /\ 0 * bps = 0 /\ 0 * d = 0 /\ 0 \in Nat
  OBVIOUS
<1> HIDE DEF y, d
<1>2. DivideRound(y, d) \in Nat /\ DivideRound(0 * d, d) = 0
  BY <1>1, Rounded, RoundedExactly
<1> QED BY <1>1, <1>2 DEF ApplyBps, y, d

(* An amount in the currency of the bill, and the same at par.             *)
LEMMA Exchange ==
  ASSUME NEW x \in Nat, NEW fx \in Nat
  PROVE  ApplyRate(x, fx) \in Nat /\ ApplyRate(0, fx) = 0 /\ ApplyRate(x, RateScale) = x
<1> DEFINE y == x * fx
           d == RateScale
<1>1. y \in Nat /\ d \in Nat \ {0} /\ 0 * fx = 0 /\ 0 * d = 0 /\ 0 \in Nat
  BY DividingAssumption
<1> HIDE DEF y, d
<1>2. DivideRound(y, d) \in Nat /\ DivideRound(0 * d, d) = 0 /\ DivideRound(x * d, d) = x
  BY <1>1, Rounded, RoundedExactly
<1> QED BY <1>1, <1>2 DEF ApplyRate, y, d

-----------------------------------------------------------------------------
(* The bill and its slots.                                                 *)

(* The slots are numbers, two to each rate and one for the service.        *)
LEMMA SlotsAreSlots ==
  /\ Len(Vats) \in Nat /\ Groups = 1 .. Len(Vats)
  /\ IsFiniteSet(Slots) /\ Slots \in SUBSET Nat
  /\ ServiceGroup = Len(Vats) + 1 /\ Base(ServiceGroup) = 2 * Len(Vats) + 1
  /\ IsFiniteSet(Groups \cup {ServiceGroup}) /\ Groups \cup {ServiceGroup} \in SUBSET Nat
  /\ \A k \in Groups : /\ k \in Nat /\ Base(k) \in Slots /\ Vat(k) \in Slots
                       /\ Base(k) # Vat(k) /\ Base(k) # Base(ServiceGroup) /\ Vat(k) # Base(ServiceGroup)
                       /\ (Base(k) + 1) \div 2 = k /\ (Vat(k) + 1) \div 2 = k
                       /\ Vat(k) # Base((Vat(k) + 1) \div 2) /\ k # ServiceGroup
                       /\ Vats[k] \in Nat
<1>1. Len(Vats) \in Nat /\ Groups = 1 .. Len(Vats) /\ Vats \in Seq(Nat)
  BY CartsAssumption DEF Groups
<1> DEFINE n == Len(Vats)
<1>2. IsFiniteSet(1 .. 2 * n + 1) /\ IsFiniteSet(1 .. n + 1)
  <2> HIDE DEF n
  <2>1. 2 * n + 1 \in Int /\ n + 1 \in Int
    BY <1>1 DEF n
  <2> QED BY <2>1, FS_Interval
<1>3. Groups \cup {ServiceGroup} = 1 .. n + 1
  BY <1>1 DEF ServiceGroup
<1>4. ASSUME NEW k \in Groups
      PROVE  /\ k \in Nat /\ Base(k) \in Slots /\ Vat(k) \in Slots
             /\ Base(k) # Vat(k) /\ Base(k) # Base(ServiceGroup) /\ Vat(k) # Base(ServiceGroup)
             /\ (Base(k) + 1) \div 2 = k /\ (Vat(k) + 1) \div 2 = k
             /\ Vat(k) # Base((Vat(k) + 1) \div 2) /\ k # ServiceGroup
             /\ Vats[k] \in Nat
  <2>1. k \in 1 .. n
    BY <1>1
  <2>2. (2 * k - 1 + 1) \div 2 = k /\ (2 * k + 1) \div 2 = k
    BY <1>1, <2>1
  <2>3. Vats[k] \in Nat
    BY <1>1, <2>1
  <2> QED BY <1>1, <2>1, <2>2, <2>3 DEF Base, Vat, Slots, ServiceGroup
<1>5. 1 .. 2 * n + 1 \in SUBSET Nat /\ 1 .. n + 1 \in SUBSET Nat /\ Base(ServiceGroup) = 2 * n + 1
  BY <1>1 DEF Base, ServiceGroup
<1> QED BY <1>1, <1>2, <1>3, <1>4, <1>5 DEF Slots, ServiceGroup

(* Every other slot is the base or the VAT of a rate.                      *)
LEMMA EachSlot ==
  ASSUME NEW s \in Slots, s # Base(ServiceGroup)
  PROVE  \E k \in Groups : s = Base(k) \/ s = Vat(k)
<1> DEFINE k == (s + 1) \div 2
<1>1. /\ Len(Vats) \in Nat /\ Groups = 1 .. Len(Vats)
      /\ s \in 1 .. 2 * Len(Vats) + 1 /\ s # 2 * Len(Vats) + 1
  BY SlotsAreSlots DEF Slots
<1>2. k \in 1 .. Len(Vats) /\ (s = 2 * k - 1 \/ s = 2 * k)
  BY <1>1
<1> QED BY <1>1, <1>2 DEF Base, Vat

(* The sum of the slots: of each rate its base and its VAT, and the        *)
(* service.                                                                *)
LEMMA TotalOfSlots ==
  ASSUME NEW f, \A s \in Slots : f[s] \in Int
  PROVE  Total(Slots, f) = Total(Groups, [k \in Groups |-> f[Base(k)] + f[Vat(k)]])
                           + f[Base(ServiceGroup)]
<1> DEFINE n == Len(Vats)
           m == 2 * n
<1>1. n \in Nat /\ Groups = 1 .. n /\ Slots = 1 .. m + 1 /\ Base(ServiceGroup) = m + 1
  BY SlotsAreSlots DEF Slots
<1> HIDE DEF n
<1>2. Total(1 .. m + 1, f) = Total(1 .. m, f) + f[m + 1]
  <2>1. m + 1 \in Nat /\ m \in 0 .. (m + 1) - 1 /\ \A s \in 1 .. m + 1 : f[s] \in Int
    BY <1>1
  <2> HIDE DEF m
  <2> QED BY <2>1, TotalUpTo
<1>3. Total(1 .. 2 * n, f) = Total(1 .. n, [k \in 1 .. n |-> f[2 * k - 1] + f[2 * k]])
  <2>1. \A s \in 1 .. 2 * n : f[s] \in Int
    BY <1>1
  <2> QED BY <1>1, <2>1, TotalPairs
<1> QED BY <1>1, <1>2, <1>3 DEF Base, Vat

(* A bill's slots make up what is due, and nothing is due for lines that   *)
(* are worth nothing.                                                      *)
BillRight(b) ==
  LET lines == DOMAIN b.units
  IN /\ lines \in SUBSET Nat /\ IsFiniteSet(lines) /\ lines = 1 .. Cardinality(lines)
     /\ b.units \in [lines -> Nat \ {0}] /\ b.subtotal \in [lines -> Nat]
     /\ \A i \in lines : \E price \in Nat : b.subtotal[i] = price * b.units[i]
     /\ b.due \in Nat /\ (b.due > 0 => Total(lines, b.subtotal) > 0)
     /\ b.slots \in [Slots -> Nat] /\ Total(Slots, b.slots) = b.due

(* recalculateTotals and stateForBill: that is so of every bill, in any    *)
(* currency, whatever its lines and its service charge.                    *)
LEMMA BillIsRight ==
  ASSUME NEW lines \in Carts, NEW fx \in FxRates, NEW bps \in ServiceBps
  PROVE  BillRight(Bill(lines, fx, bps))
<1> DEFINE L == DOMAIN lines
           subtotal == [i \in L |-> lines[i].price * lines[i].units]
           units == [i \in L |-> lines[i].units]
           rate == [i \in L |-> LineBps(lines[i])]
           service == ApplyBps(SumOver(subtotal), bps)
           at == [k \in Groups |-> LinesAt(rate, k)]
           worth == [k \in Groups |-> Total(at[k], subtotal)]
           vat == [k \in Groups |-> ApplyBps(worth[k], Vats[k])]
           due == TotalDue(subtotal, rate, service, fx)
           minor == InMinor(subtotal, rate, service)
           gross == Total(L, subtotal) + service + Total(Groups, vat)
           b == Bill(lines, fx, bps)
<1>1. /\ L \in SUBSET Nat /\ IsFiniteSet(L) /\ IsFiniteSet(Groups) /\ L = 1 .. Cardinality(L)
      /\ \A i \in L : lines[i].price \in Nat /\ lines[i].units \in Nat \ {0}
      /\ \A i \in L : \E k \in Groups : Vats[k] = rate[i]
      /\ \A k, j \in Groups : Vats[k] = Vats[j] => k = j
  <2>1. lines \in Seq([price : Nat, units : Nat \ {0}, category : STRING, bps : Nat \cup {Nothing}])
    BY CartsAssumption
  <2>2. L = 1 .. Len(lines) /\ Len(lines) \in Nat
    BY <2>1
  <2>3. \A i \in L : lines[i].price \in Nat /\ lines[i].units \in Nat \ {0}
    <3> DEFINE T == [price : Nat, units : Nat \ {0}, category : STRING, bps : Nat \cup {Nothing}]
    <3>1. lines \in Seq(T)
      BY <2>1
    <3> HIDE DEF T
    <3>2. ASSUME NEW i \in L PROVE lines[i] \in T
      BY <2>2, <3>1
    <3> HIDE DEF L
    <3> QED BY <3>2 DEF T
  <2>4. IsFiniteSet(L) /\ L = 1 .. Cardinality(L)
    <3> DEFINE m == Len(lines)
    <3>1. m \in Int /\ 1 \in Int /\ m >= 0 /\ L = 1 .. m
      BY <2>2
    <3> HIDE DEF m, L
    <3>2. IsFiniteSet(1 .. m) /\ Cardinality(1 .. m) = IF 1 > m THEN 0 ELSE m - 1 + 1
      BY <3>1, FS_Interval
    <3> QED BY <3>1, <3>2
  <2>5. IsFiniteSet(Groups)
    BY SlotsAreSlots, FS_Interval
  <2>6. \A i \in L : \E k \in Groups : Vats[k] = rate[i]
    BY CartsAssumption DEF Groups
  <2>7. \A k, j \in Groups : Vats[k] = Vats[j] => k = j
    BY CartsAssumption DEF Groups
  <2>8. L \in SUBSET Nat
    BY <2>2
  <2> HIDE DEF L, rate
  <2> QED BY <2>3, <2>4, <2>5, <2>6, <2>7, <2>8
<1>f. IsFiniteSet(L) /\ IsFiniteSet(Groups)
  BY <1>1
<1>2. fx \in Nat /\ bps \in Nat
  BY DividingAssumption
<1>3. b = [units |-> units, subtotal |-> subtotal, rate |-> rate,
           due |-> due, slots |-> ToVes(minor, due, fx)]
  BY DEF Bill
<1>4. /\ units \in [L -> Nat \ {0}] /\ subtotal \in [L -> Nat]
      /\ \A i \in L : \E price \in Nat : subtotal[i] = price * units[i]
  <2>1. ASSUME NEW i \in L
        PROVE  /\ units[i] \in Nat \ {0} /\ subtotal[i] \in Nat
               /\ \E price \in Nat : subtotal[i] = price * units[i]
    <3>1. subtotal[i] = lines[i].price * units[i] /\ lines[i].price \in Nat /\ units[i] \in Nat \ {0}
      BY <1>1
    <3> QED BY <3>1
  <2> QED BY <2>1
<1>5. SumOver(subtotal) = Total(L, subtotal) /\ Total(L, subtotal) \in Nat
  <2>1. SumOver(subtotal) = Total(L, subtotal)
    BY TotalOf
  <2>2. \A i \in L : subtotal[i] \in Nat
    BY <1>4
  <2> HIDE DEF subtotal, L
  <2> QED BY <1>1, <2>1, <2>2, TotalNat
<1>6. \A k \in Groups : at[k] = LinesAt(rate, k) /\ at[k] \in SUBSET L /\ IsFiniteSet(at[k])
  <2>1. ASSUME NEW k \in Groups PROVE at[k] = LinesAt(rate, k) /\ at[k] \in SUBSET L
    BY DEF LinesAt
  <2> HIDE DEF at, L
  <2> QED BY <1>1, <2>1, FS_Subset
<1>7. \A i \in L : \E k \in Groups : i \in at[k] /\ \A j \in Groups : i \in at[j] => j = k
  <2>1. ASSUME NEW i \in L, NEW k \in Groups PROVE i \in at[k] <=> Vats[k] = rate[i]
    BY DEF LinesAt
  <2>2. ASSUME NEW i \in L
        PROVE  \E k \in Groups : i \in at[k] /\ \A j \in Groups : i \in at[j] => j = k
    <3>1. PICK k \in Groups : Vats[k] = rate[i]
      BY <1>1
    <3> HIDE DEF at, rate, L
    <3>2. \A j \in Groups : i \in at[j] => j = k
      BY <1>1, <2>1, <3>1
    <3>3. i \in at[k]
      BY <2>1, <3>1
    <3> QED BY <3>2, <3>3
  <2> QED BY <2>2
<1> HIDE DEF at, subtotal
<1>8. \A k \in Groups : worth[k] \in Nat /\ worth[k] = Worth(subtotal, LinesAt(rate, k))
  <2>1. ASSUME NEW k \in Groups PROVE worth[k] \in Nat
    <3>1. at[k] \in SUBSET L /\ IsFiniteSet(at[k]) /\ \A i \in at[k] : subtotal[i] \in Nat
      BY <1>4, <1>6
    <3>2. Total(at[k], subtotal) \in Nat
      BY <3>1, TotalNat
    <3> QED BY <3>2
  <2>2. ASSUME NEW k \in Groups PROVE worth[k] = Worth(subtotal, LinesAt(rate, k))
    BY <1>6 DEF Worth, Total
  <2> QED BY <2>1, <2>2
<1>9. Total(Groups, worth) = Total(L, subtotal)
  <2>1. \A i \in L : subtotal[i] \in Int
    BY <1>4
  <2>2. \A k \in Groups : at[k] \in SUBSET L
    BY <1>6
  <2> HIDE DEF L
  <2> QED BY <1>f, <1>7, <2>1, <2>2, TotalGroups DEF worth
<1> HIDE DEF worth
<1>10. service \in Nat
  BY <1>2, <1>5, BasisPoints
<1>11. \A k \in Groups : vat[k] \in Nat
  BY <1>8, SlotsAreSlots, BasisPoints
<1>12. Total(Groups, vat) \in Nat
  <2> HIDE DEF vat
  <2> QED BY <1>1, <1>11, TotalNat
<1>13. gross \in Nat
  <2> HIDE DEF service, vat, L
  <2> QED BY <1>5, <1>10, <1>12
<1>14. due = ApplyRate(gross, fx) /\ due \in Nat
  <2>1. SumOver([k \in Groups |-> ApplyBps(Worth(subtotal, LinesAt(rate, k)), Vats[k])])
        = Total(Groups, vat)
    <3> DEFINE v == [k \in Groups |-> ApplyBps(Worth(subtotal, LinesAt(rate, k)), Vats[k])]
    <3>1. \A k \in Groups : v[k] = vat[k]
      BY <1>8
    <3>2. SumOver(v) = Total(Groups, v)
      BY TotalOf
    <3> HIDE DEF v, vat
    <3>3. Total(Groups, v) = Total(Groups, vat)
      BY <3>1, TotalSame
    <3> QED BY <3>2, <3>3 DEF v
  <2>2. due = ApplyRate(gross, fx)
    <3> HIDE DEF service, vat, rate
    <3> QED BY <1>5, <2>1 DEF TotalDue
  <2> HIDE DEF gross, due
  <2> QED BY <1>2, <1>13, <2>2, Exchange
<1>15. /\ minor \in [Slots -> Nat] /\ minor[Base(ServiceGroup)] = service
       /\ \A k \in Groups : minor[Base(k)] = worth[k] /\ minor[Vat(k)] = vat[k]
  <2>1. minor[Base(ServiceGroup)] = service
    <3>1. Base(ServiceGroup) \in Slots
      BY SlotsAreSlots DEF Slots
    <3> HIDE DEF service, rate
    <3> QED BY <3>1 DEF InMinor
  <2>2. ASSUME NEW k \in Groups PROVE minor[Base(k)] = worth[k] /\ minor[Vat(k)] = vat[k]
    <3>1. /\ Base(k) \in Slots /\ Vat(k) \in Slots
          /\ Base(k) # Base(ServiceGroup) /\ Vat(k) # Base(ServiceGroup) /\ Vat(k) # Base(k)
          /\ (Base(k) + 1) \div 2 = k /\ (Vat(k) + 1) \div 2 = k
      BY SlotsAreSlots
    <3>2. vat[k] = VatOn(subtotal, LinesAt(rate, k), Vats[k])
      BY <1>8 DEF VatOn
    <3> HIDE DEF service, rate, vat
    <3>3. minor[Base(k)] = Worth(subtotal, LinesAt(rate, k))
      BY <3>1 DEF InMinor
    <3>4. minor[Vat(k)] = VatOn(subtotal, LinesAt(rate, k), Vats[k])
      BY <3>1 DEF InMinor
    <3> QED BY <1>8, <3>2, <3>3, <3>4
  <2>3. ASSUME NEW s \in Slots, s # Base(ServiceGroup)
        PROVE  \E k \in Groups : s = Base(k) \/ s = Vat(k)
    BY <2>3, EachSlot
  <2>4. minor = [s \in Slots |-> minor[s]]
    BY DEF InMinor
  <2> HIDE DEF minor, service, vat
  <2>5. \A s \in Slots : minor[s] \in Nat
    BY <1>8, <1>10, <1>11, <2>1, <2>2, <2>3
  <2> QED BY <2>1, <2>2, <2>4, <2>5
<1> HIDE DEF minor, service
<1>16. Total(Slots, minor) = gross
  <2> DEFINE pair == [k \in Groups |-> minor[Base(k)] + minor[Vat(k)]]
             both == [k \in Groups |-> worth[k] + vat[k]]
  <2>1. \A s \in Slots : minor[s] \in Int
    BY <1>15
  <2>2. Total(Slots, minor) = Total(Groups, pair) + service
    BY <1>15, <2>1, TotalOfSlots
  <2> HIDE DEF vat
  <2>3. Total(Groups, both) = Total(Groups, worth) + Total(Groups, vat)
    <3>1. \A k \in Groups : worth[k] \in Int
      <4>1. ASSUME NEW k \in Groups PROVE worth[k] \in Nat
        BY <1>8
      <4> QED BY <4>1
    <3>2. \A k \in Groups : vat[k] \in Int
      BY <1>11
    <3> QED BY <1>f, <3>1, <3>2, TotalPlus
  <2>4. \A k \in Groups : pair[k] = both[k]
    BY <1>15
  <2> HIDE DEF pair, both
  <2>5. Total(Groups, pair) = Total(Groups, both)
    BY <2>4, TotalSame
  <2> HIDE DEF L
  <2> QED BY <1>5, <1>9, <1>10, <1>12, <2>2, <2>3, <2>5
<1> HIDE DEF gross, due
<1>17. /\ ToVes(minor, due, fx) \in [Slots -> Nat]
       /\ Total(Slots, ToVes(minor, due, fx)) = due
  <2>1. SumOver(minor) = gross
    <3>1. minor = [s \in Slots |-> minor[s]]
      BY <1>15
    <3> QED BY <1>16, <3>1, TotalOf
  <2>2. CASE fx = RateScale
    <3>1. due = gross
      BY <1>2, <1>13, <1>14, <2>2, Exchange
    <3> QED BY <1>15, <1>16, <2>2, <3>1 DEF ToVes
  <2>3. CASE gross = 0
    <3>1. due = 0
      BY <1>2, <1>14, <2>3, Exchange
    <3> QED BY <1>15, <1>16, <2>1, <2>3, <3>1 DEF ToVes
  <2>4. CASE fx # RateScale /\ gross # 0
    <3>1. ToVes(minor, due, fx) = AllocateWithZeros(due, minor)
      BY <2>1, <2>4 DEF ToVes
    <3>2. Total(Slots, minor) > 0
      BY <1>13, <1>16, <2>4
    <3>3. /\ AllocateWithZeros(due, minor) \in [Slots -> Nat]
          /\ Total(Slots, AllocateWithZeros(due, minor)) = due
      BY <1>14, <1>15, <3>2, SlotsAreSlots, AllocateWithZerosExact
    <3> QED BY <3>1, <3>3
  <2> QED BY <2>2, <2>3, <2>4
<1>18. due > 0 => Total(L, subtotal) > 0
  <2>1. ASSUME Total(L, subtotal) = 0 PROVE due = 0
    <3>1. \A i \in L : subtotal[i] = 0
      <4>1. \A i \in L : subtotal[i] \in Nat
        BY <1>4
      <4> HIDE DEF L
      <4> QED BY <1>f, <2>1, <4>1, TotalNat
    <3>2. service = 0
      BY <1>2, <1>5, <2>1, BasisPoints DEF service
    <3>3. ASSUME NEW k \in Groups PROVE vat[k] = 0
      <4>1. \A i \in at[k] : subtotal[i] = 0
        BY <1>6, <3>1
      <4>2. worth[k] = 0
        BY <1>6, <4>1, TotalZero DEF worth
      <4> QED BY <4>2, SlotsAreSlots, BasisPoints
    <3>4. Total(Groups, vat) = 0
      <4> HIDE DEF vat
      <4> QED BY <1>1, <3>3, TotalZero
    <3>5. gross = 0
      <4> HIDE DEF vat, L
      <4> QED BY <2>1, <3>2, <3>4 DEF gross
    <3> QED BY <1>2, <1>14, <3>5, Exchange
  <2> QED BY <1>5, <1>14, <2>1
<1>19. DOMAIN b.units = L
  BY <1>3
<1> HIDE DEF b, units, rate
<1>20. /\ b.units = units /\ b.subtotal = subtotal /\ b.due = due
       /\ b.slots = ToVes(minor, due, fx)
  BY <1>3
<1> HIDE DEF L
<1> QED BY <1>1, <1>4, <1>14, <1>17, <1>18, <1>19, <1>20 DEF BillRight, b

-----------------------------------------------------------------------------
(* What the payments declare.                                              *)

(* What is paid and declared, payment by payment.                          *)
PaymentsRight ==
  /\ BillRight(bill)
  /\ DOMAIN paid = People /\ DOMAIN declared = People /\ linked \in [People -> BOOLEAN]
  /\ split # Nothing => \A p \in DOMAIN split.amount : p \in People /\ split.amount[p] \in Nat
  /\ \A p \in People : linked[p] => split # Nothing /\ p \in DOMAIN split.amount
  /\ \A p \in People : paid[p] # Nothing => paid[p] \in Nat \ {0}
  /\ \A p \in Invoiced :
       /\ paid[p] # Nothing
       /\ declared[p].slots \in [Slots -> Nat] /\ Total(Slots, declared[p].slots) = paid[p]

(* What was paid is the sum of the payments.                               *)
LEMMA PaidIsSum ==
  ASSUME PaymentsRight
  PROVE  /\ IsFiniteSet({p \in People : paid[p] # Nothing})
         /\ Paid = Total({p \in People : paid[p] # Nothing}, paid)
         /\ Paid \in Nat /\ Outstanding \in Int
<1> DEFINE P == {p \in People : paid[p] # Nothing}
           f == [p \in P |-> paid[p]]
<1>1. IsFiniteSet(P) /\ \A p \in P : paid[p] \in Nat /\ f[p] = paid[p]
  BY DividingAssumption, FS_Subset DEF PaymentsRight
<1>2. Paid = Total(P, f)
  BY TotalOf DEF Paid
<1> HIDE DEF f, P
<1>3. Total(P, f) = Total(P, paid) /\ Total(P, paid) \in Nat
  BY <1>1, TotalSame, TotalNat
<1>4. bill.due \in Nat
  BY DEF PaymentsRight, BillRight
<1> QED BY <1>1, <1>2, <1>3, <1>4 DEF P, Outstanding

(* What is left undeclared is what the bill has less what was invoiced.    *)
LEMMA UndeclaredIsLeft ==
  ASSUME PaymentsRight
  PROVE  /\ IsFiniteSet(Invoiced)
         /\ \A s \in Slots : Undeclared[s] \in Int
         /\ Undeclared = [s \in Slots |-> Undeclared[s]]
         /\ SumOver(Undeclared) = Total(Slots, Undeclared)
         /\ Total(Slots, Undeclared) = bill.due - Total(Invoiced, paid)
<1> DEFINE m == [s \in Slots |-> [p \in Invoiced |-> declared[p].slots[s]]]
           gone == [s \in Slots |-> Total(Invoiced, m[s])]
           each == [p \in Invoiced |-> Total(Slots, [s \in Slots |-> m[s][p]])]
<1>0. IsFiniteSet(Slots) /\ IsFiniteSet(Invoiced)
  BY SlotsAreSlots, DividingAssumption, FS_Subset DEF Invoiced
<1>1. \A s \in Slots, p \in Invoiced : m[s][p] \in Int
  BY DEF PaymentsRight
<1>2. ASSUME NEW s \in Slots
      PROVE  /\ gone[s] \in Int /\ bill.slots[s] \in Int
             /\ Undeclared[s] = bill.slots[s] - gone[s]
  <2>1. gone[s] \in Int
    <3> DEFINE f == m[s]
    <3>1. \A p \in Invoiced : f[p] \in Int
      BY <1>1
    <3>2. gone[s] = Total(Invoiced, f)
      OBVIOUS
    <3> HIDE DEF f, gone
    <3> QED BY <1>0, <3>1, <3>2, TotalInt
  <2>2. SumOver([p \in Invoiced |-> declared[p].slots[s]]) = gone[s]
    BY TotalOf
  <2>3. Undeclared[s] = bill.slots[s] - SumOver([p \in Invoiced |-> declared[p].slots[s]])
    BY DEF Undeclared
  <2> HIDE DEF gone
  <2> QED BY <2>1, <2>2, <2>3 DEF PaymentsRight, BillRight
<1>3. Total(Slots, gone) = Total(Invoiced, each)
  <2> HIDE DEF m
  <2> QED BY <1>0, <1>1, TotalSwap
<1>4. Total(Invoiced, each) = Total(Invoiced, paid)
  <2>1. ASSUME NEW p \in Invoiced PROVE each[p] = paid[p]
    <3>1. \A s \in Slots : [t \in Slots |-> m[t][p]][s] = declared[p].slots[s]
      OBVIOUS
    <3>2. Total(Slots, [s \in Slots |-> m[s][p]]) = Total(Slots, declared[p].slots)
      <4> DEFINE c == [t \in Slots |-> m[t][p]]
      <4>1. \A s \in Slots : c[s] = declared[p].slots[s]
        BY <3>1
      <4> HIDE DEF c
      <4> QED BY <4>1, TotalSame DEF c
    <3>3. each[p] = Total(Slots, [s \in Slots |-> m[s][p]])
      OBVIOUS
    <3> HIDE DEF each, m
    <3> QED BY <3>2, <3>3 DEF PaymentsRight
  <2> HIDE DEF each
  <2> QED BY <2>1, TotalSame
<1> HIDE DEF gone, each, m
<1>5. Total(Slots, bill.slots) = Total(Slots, Undeclared) + Total(Slots, gone)
  <2>1. /\ \A s \in Slots : Undeclared[s] \in Int
        /\ \A s \in Slots : gone[s] \in Int
    BY <1>2
  <2> DEFINE both == [s \in Slots |-> Undeclared[s] + gone[s]]
  <2>2. Total(Slots, both) = Total(Slots, Undeclared) + Total(Slots, gone)
    BY <1>0, <2>1, TotalPlus
  <2>3. \A s \in Slots : bill.slots[s] = both[s]
    BY <1>2
  <2> HIDE DEF both
  <2>4. Total(Slots, bill.slots) = Total(Slots, both)
    BY <2>3, TotalSame
  <2> QED BY <2>2, <2>4
<1>6. Total(Slots, Undeclared) \in Int /\ Total(Slots, gone) \in Int
  BY <1>0, <1>2, TotalInt
<1>7. Total(Slots, bill.slots) = bill.due
  BY DEF PaymentsRight, BillRight
<1>8. Undeclared = [s \in Slots |-> Undeclared[s]]
  BY DEF Undeclared
<1>9. SumOver(Undeclared) = Total(Slots, Undeclared)
  BY <1>8, TotalOf
<1> QED BY <1>0, <1>2, <1>3, <1>4, <1>5, <1>6, <1>7, <1>8, <1>9

(* When the whole bill is paid and invoiced nothing is left.               *)
LEMMA AllDeclared ==
  ASSUME PaymentsRight, \A s \in Slots : Undeclared[s] >= 0, Outstanding = 0,
         \A p \in People : paid[p] # Nothing => p \in Invoiced
  PROVE  \A s \in Slots : Undeclared[s] = 0
<1>1. Invoiced = {p \in People : paid[p] # Nothing}
  BY DEF PaymentsRight, Invoiced
<1>2. Total(Slots, Undeclared) = bill.due - Paid
  BY <1>1, PaidIsSum, UndeclaredIsLeft
<1>3. bill.due - Paid = 0
  BY DEF Outstanding
<1>4. \A s \in Slots : Undeclared[s] \in Nat
  BY UndeclaredIsLeft
<1> QED BY <1>2, <1>3, <1>4, SlotsAreSlots, TotalNat

(* The rates and the service, between which a payment is allocated.        *)
AllGroups == Groups \cup {ServiceGroup}

(* Their total.                                                            *)
LEMMA TotalOfGroups ==
  ASSUME NEW f, \A k \in AllGroups : f[k] \in Int
  PROVE  Total(AllGroups, f) = Total(Groups, f) + f[ServiceGroup]
<1>1. /\ IsFiniteSet(AllGroups) /\ Groups \in SUBSET AllGroups /\ ServiceGroup \in AllGroups \ Groups
      /\ Groups \cup {ServiceGroup} = AllGroups
  BY SlotsAreSlots DEF AllGroups
<1>2. Total(Groups \cup {ServiceGroup}, f) = Total(Groups, f) + f[ServiceGroup]
  <2> HIDE DEF AllGroups
  <2> QED BY <1>1, TotalAdd
<1> QED BY <1>1, <1>2

(* What a payment is composed of, by which it is allocated.                *)
LEMMA CompositionIsNat ==
  ASSUME PaymentsRight, NEW p \in People, NEW group \in [AllGroups -> Nat]
  PROVE  \A k \in AllGroups : Composition(p, group)[k] \in Nat
<1>1. CASE ~ Itemised(p)
  BY <1>1 DEF Composition
<1>2. CASE Itemised(p)
  <2>1. p \in DOMAIN split.amount /\ IsFiniteSet(DOMAIN split.amount)
    <3>1. split # Nothing /\ p \in DOMAIN split.amount /\ DOMAIN split.amount \in SUBSET People
      BY <1>2 DEF PaymentsRight, Itemised
    <3> QED BY <3>1, DividingAssumption, FS_Subset
  <2>2. ASSUME NEW i \in SourceLines(p) PROVE Share(p, i) \in Nat
    <3>1. i \in Lines /\ ClaimsOf(p, i) # {} /\ p \in Claimants(i)
      BY <1>2, <2>1 DEF SourceLines, Claimants
    <3> DEFINE n == Cardinality(Claimants(i))
               S == 1 .. n
    <3>2. n \in Nat /\ n # 0
      <4>1. IsFiniteSet(Claimants(i))
        BY <2>1, FS_Subset DEF Claimants
      <4> QED BY <3>1, <4>1, FS_CardinalityType, FS_EmptySet
    <3> HIDE DEF n
    <3>3. S \in SUBSET Nat /\ IsFiniteSet(S) /\ 1 \in S /\ Even(S) \in [S -> Nat \ {0}]
      BY <3>2, FS_Interval DEF Even
    <3>4. bill.subtotal[i] \in Nat
      BY <3>1 DEF PaymentsRight, BillRight, Lines
    <3> HIDE DEF S
    <3>5. Allocate(bill.subtotal[i], Even(S)) \in [S -> Nat]
      BY <3>3, <3>4, AllocateExact
    <3>6. Allocate(bill.subtotal[i], Even(S))[1] \in Nat
      BY <3>3, <3>5
    <3> QED BY <1>2, <3>6 DEF Share, S, n
  <2>3. ASSUME NEW k \in AllGroups PROVE Composition(p, group)[k] \in Nat
    <3> DEFINE f == [i \in SourceAt(p, k) |-> Share(p, i)]
    <3>1. IsFiniteSet(SourceAt(p, k)) /\ SourceAt(p, k) \in SUBSET SourceLines(p)
      <4>1. SourceAt(p, k) \in SUBSET Lines /\ SourceAt(p, k) \in SUBSET SourceLines(p)
        BY DEF SourceAt, SourceLines
      <4>2. IsFiniteSet(Lines)
        BY DEF PaymentsRight, BillRight, Lines
      <4> QED BY <4>1, <4>2, FS_Subset
    <3>2. SumOver(f) = Total(SourceAt(p, k), f)
      BY TotalOf
    <3>3. \A i \in SourceAt(p, k) : f[i] \in Nat
      BY <2>2, <3>1
    <3> HIDE DEF f
    <3>4. Total(SourceAt(p, k), f) \in Nat
      BY <3>1, <3>3, TotalNat
    <3>5. Composition(p, group)[k] = IF k = ServiceGroup THEN 0 ELSE SumOver(f)
      BY <1>2 DEF Composition, f, AllGroups
    <3> QED BY <3>2, <3>4, <3>5
  <2> QED BY <2>3
<1> QED BY <1>1, <1>2

(* An invoice is of what was paid, and takes no more of a slot than is     *)
(* left of it.                                                             *)
LEMMA InvoiceFits ==
  ASSUME PaymentsRight, NEW p \in People, paid[p] \in Nat, NEW left \in [Slots -> Nat],
         paid[p] <= Total(Slots, left)
  PROVE  LET slots == AllocatePayment(p, left)
         IN /\ slots \in [Slots -> Nat] /\ Total(Slots, slots) = paid[p]
            /\ \A s \in Slots : slots[s] <= left[s]
<1> DEFINE group == GroupLeft(left)
           part == AllocateCapped(paid[p], Composition(p, group), group)
           two(k) == {Base(k), Vat(k)}
           divided(k) == AllocateWithZeros(part[k], Only(two(k), left))
           slots == AllocatePayment(p, left)
<1>1. /\ \A k \in Groups : /\ group[k] = left[Base(k)] + left[Vat(k)] /\ k \in AllGroups
                           /\ left[Base(k)] \in Nat /\ left[Vat(k)] \in Nat
      /\ group[ServiceGroup] = left[Base(ServiceGroup)] /\ left[Base(ServiceGroup)] \in Nat
      /\ group \in [AllGroups -> Nat]
      /\ ServiceGroup \in AllGroups /\ Base(ServiceGroup) \in Slots
  <2>1. Base(ServiceGroup) \in Slots
    BY SlotsAreSlots DEF Slots
  <2>2. ASSUME NEW k \in Groups
        PROVE  /\ group[k] = left[Base(k)] + left[Vat(k)] /\ k \in AllGroups
               /\ left[Base(k)] \in Nat /\ left[Vat(k)] \in Nat
    BY SlotsAreSlots DEF GroupLeft, AllGroups
  <2>3. group[ServiceGroup] = left[Base(ServiceGroup)] /\ left[Base(ServiceGroup)] \in Nat
    BY <2>1 DEF GroupLeft
  <2>4. group = [k \in AllGroups |-> group[k]]
    BY DEF GroupLeft, AllGroups
  <2> HIDE DEF group
  <2>5. \A k \in AllGroups : group[k] \in Nat
    BY <2>2, <2>3 DEF AllGroups
  <2>6. group \in [AllGroups -> Nat]
    BY <2>4, <2>5
  <2> QED BY <2>1, <2>2, <2>3, <2>6 DEF AllGroups
<1>2. Total(AllGroups, group) = Total(Slots, left)
  <2> DEFINE pair == [k \in Groups |-> left[Base(k)] + left[Vat(k)]]
  <2>1. \A s \in Slots : left[s] \in Int
    OBVIOUS
  <2>2. Total(Slots, left) = Total(Groups, pair) + left[Base(ServiceGroup)]
    BY <2>1, TotalOfSlots
  <2>3. \A k \in AllGroups : group[k] \in Int
    BY <1>1
  <2>4. \A k \in Groups : group[k] = pair[k]
    BY <1>1
  <2> HIDE DEF group, pair
  <2>5. Total(AllGroups, group) = Total(Groups, group) + group[ServiceGroup]
    BY <2>3, TotalOfGroups
  <2>6. Total(Groups, group) = Total(Groups, pair)
    BY <2>4, TotalSame
  <2> QED BY <1>1, <2>2, <2>5, <2>6
<1>3. /\ DOMAIN part = AllGroups
      /\ \A k \in AllGroups : part[k] \in Nat /\ part[k] <= group[k]
      /\ Total(AllGroups, part) = paid[p]
  <2>1. \A k \in AllGroups : Composition(p, group)[k] \in Nat
    BY <1>1, CompositionIsNat
  <2>2. AllGroups \in SUBSET Nat /\ IsFiniteSet(AllGroups)
    BY SlotsAreSlots DEF AllGroups
  <2>3. paid[p] <= Total(AllGroups, group)
    BY <1>2
  <2> HIDE DEF group
  <2> QED BY <1>1, <2>1, <2>2, <2>3, AllocateCappedExact
<1> HIDE DEF part, group
<1>4. ASSUME NEW k \in Groups
      PROVE  /\ divided(k)[Base(k)] \in Nat /\ divided(k)[Base(k)] <= left[Base(k)]
             /\ divided(k)[Vat(k)] \in Nat /\ divided(k)[Vat(k)] <= left[Vat(k)]
             /\ divided(k)[Base(k)] + divided(k)[Vat(k)] = part[k]
  <2> DEFINE b == Base(k)
             v == Vat(k)
             S == {b, v}
             w == Only(S, left)
             d == AllocateWithZeros(part[k], w)
  <2>1. b \in Slots /\ v \in Slots /\ b # v /\ b \in Nat /\ v \in Nat
    BY SlotsAreSlots
  <2> HIDE DEF b, v
  <2>2. S \in SUBSET Nat /\ IsFiniteSet(S) /\ IsFiniteSet({v}) /\ S \ {b} = {v} /\ {v} \ {v} = {}
    <3>1. IsFiniteSet({b}) /\ IsFiniteSet({v})
      BY FS_Singleton
    <3>2. IsFiniteSet({b} \cup {v}) /\ {b} \cup {v} = S
      BY <3>1, FS_AddElement
    <3> QED BY <2>1, <3>1, <3>2
  <2>3. w \in [S -> Nat] /\ w[b] = left[b] /\ w[v] = left[v]
    BY <2>1 DEF Only
  <2>a. ASSUME NEW f, f[b] \in Int, f[v] \in Int PROVE Total(S, f) = f[b] + f[v]
    <3>1. \A i \in S : f[i] \in Int
      BY <2>a
    <3>2. Total(S, f) = f[b] + Total(S \ {b}, f)
      <4>1. b \in S
        OBVIOUS
      <4> HIDE DEF S
      <4> QED BY <2>2, <3>1, <4>1, TotalRemove
    <3>3. Total({v}, f) = f[v]
      <4>1. v \in {v} /\ \A i \in {v} : i # v => f[i] = 0
        OBVIOUS
      <4> QED BY <2>a, <2>2, <4>1, TotalSingle
    <3> QED BY <2>2, <3>2, <3>3
  <2>4. Total(S, w) = left[b] + left[v] /\ left[b] \in Nat /\ left[v] \in Nat
    <3>1. left[b] \in Nat /\ left[v] \in Nat
      BY <2>1
    <3> HIDE DEF S, w
    <3>2. Total(S, w) = w[b] + w[v]
      BY <2>3, <2>a, <3>1
    <3> QED BY <2>3, <3>1, <3>2
  <2>5. part[k] \in Nat /\ part[k] <= Total(S, w)
    BY <1>1, <1>3, <2>4 DEF b, v
  <2> HIDE DEF w
  <2>6. /\ d \in [S -> Nat]
        /\ Total(S, w) > 0 \/ part[k] = 0 => Total(S, d) = part[k]
        /\ part[k] <= Total(S, w) => \A i \in S : d[i] <= w[i]
    <3> HIDE DEF S
    <3> QED BY <2>2, <2>3, <2>5, AllocateWithZerosExact
  <2>7. Total(S, d) = part[k]
    <3> HIDE DEF d, S
    <3> QED BY <2>4, <2>5, <2>6
  <2>8. d[b] \in Nat /\ d[v] \in Nat /\ d[b] <= left[b] /\ d[v] <= left[v]
    <3> HIDE DEF d
    <3> QED BY <2>3, <2>5, <2>6
  <2>9. Total(S, d) = d[b] + d[v]
    <3> HIDE DEF d, S
    <3> QED BY <2>8, <2>a
  <2> QED BY <2>7, <2>8, <2>9 DEF b, v, w
<1>5. /\ slots = [s \in Slots |-> slots[s]]
      /\ slots[Base(ServiceGroup)] = part[ServiceGroup]
      /\ \A k \in Groups : /\ slots[Base(k)] = divided(k)[Base(k)]
                           /\ slots[Vat(k)] = divided(k)[Vat(k)]
  <2>1. slots = [s \in Slots |-> IF s = Base(ServiceGroup) THEN part[ServiceGroup]
                                 ELSE divided((s + 1) \div 2)[s]]
    BY DEF AllocatePayment, part, group
  <2> HIDE DEF slots, divided
  <2>2. slots = [s \in Slots |-> slots[s]] /\ slots[Base(ServiceGroup)] = part[ServiceGroup]
    BY <1>1, <2>1
  <2>3. ASSUME NEW k \in Groups
        PROVE slots[Base(k)] = divided(k)[Base(k)] /\ slots[Vat(k)] = divided(k)[Vat(k)]
    <3>1. /\ Base(k) \in Slots /\ Vat(k) \in Slots
          /\ Base(k) # Base(ServiceGroup) /\ Vat(k) # Base(ServiceGroup)
          /\ (Base(k) + 1) \div 2 = k /\ (Vat(k) + 1) \div 2 = k
      BY SlotsAreSlots
    <3> QED BY <2>1, <3>1
  <2> QED BY <2>2, <2>3
<1> HIDE DEF slots, divided
<1>6. ASSUME NEW s \in Slots PROVE slots[s] \in Nat /\ slots[s] <= left[s]
  <2>1. CASE s = Base(ServiceGroup)
    BY <1>1, <1>3, <1>5, <2>1
  <2>2. CASE s # Base(ServiceGroup)
    <3>1. PICK k \in Groups : s = Base(k) \/ s = Vat(k)
      BY <2>2, EachSlot
    <3> QED BY <1>4, <1>5, <3>1
  <2> QED BY <2>1, <2>2
<1>7. Total(Slots, slots) = paid[p]
  <2> DEFINE pair == [k \in Groups |-> slots[Base(k)] + slots[Vat(k)]]
  <2>1. \A s \in Slots : slots[s] \in Int
    BY <1>6
  <2>2. Total(Slots, slots) = Total(Groups, pair) + slots[Base(ServiceGroup)]
    BY <2>1, TotalOfSlots
  <2>3. \A k \in AllGroups : part[k] \in Int
    BY <1>3
  <2>4. \A k \in Groups : pair[k] = part[k]
    BY <1>4, <1>5
  <2> HIDE DEF pair
  <2>5. Total(AllGroups, part) = Total(Groups, part) + part[ServiceGroup]
    BY <2>3, TotalOfGroups
  <2>6. Total(Groups, pair) = Total(Groups, part)
    BY <2>4, TotalSame
  <2> QED BY <1>3, <1>5, <2>2, <2>5, <2>6
<1>8. slots \in [Slots -> Nat]
  BY <1>5, <1>6
<1> QED BY <1>6, <1>7, <1>8 DEF slots

-----------------------------------------------------------------------------
(* The invariant of Dividing, and the steps that pay and invoice.          *)

(* What a plan owes to the plan's own numbers, and, by items, to the       *)
(* claims that were divided.                                               *)
HeldOf(plan, p, i) == {k \in DOMAIN plan.claims[i] : p \in plan.claims[i][k].people}
ExactOf(b, plan, p) ==
  plan.of * SumOver([i \in DOMAIN b.units |->
    SumOver([k \in HeldOf(plan, p, i) |->
      (b.subtotal[i] * plan.claims[i][k].units * Parts)
        \div (b.units[i] * Cardinality(plan.claims[i][k].people))])])
CountOf(b, plan, p) == SumOver([i \in DOMAIN b.units |-> Cardinality(HeldOf(plan, p, i))])

(* SplitIsExact, of a plan.                                                *)
PlanRight(b, plan) ==
  /\ DOMAIN plan.amount \in SUBSET People
  /\ \A p \in DOMAIN plan.amount : plan.amount[p] \in Nat
  /\ SumOver(plan.amount) = plan.of
  /\ plan.mode = "ITEMS" =>
       \A p \in DOMAIN plan.amount :
         IF CountOf(b, plan, p) = 0 THEN plan.amount[p] = 0
         ELSE Apart(plan.amount[p] * SumOver(b.subtotal) * Parts, ExactOf(b, plan, p))
              < 2 * CountOf(b, plan, p) * SumOver(b.subtotal) * Parts

(* The inductive invariant: the bill stays what it was, what is paid and   *)
(* declared is right, no slot is overdrawn, and the plan is exact.         *)
DividingInv ==
  /\ \E lines \in Carts, fx \in FxRates, bps \in ServiceBps : bill = Bill(lines, fx, bps)
  /\ PaymentsRight
  /\ \A s \in Slots : Undeclared[s] >= 0
  /\ split # Nothing => PlanRight(bill, split)

(* It is what the run checks.                                              *)
LEMMA PlanIsExact == (split # Nothing => PlanRight(bill, split)) => SplitIsExact
BY DEF PlanRight, SplitIsExact, ExactOf, Exactly, CountOf, ClaimsHeld, HeldOf, ClaimsOf, Lines

(* Before anybody pays.                                                    *)
LEMMA DividingStarts == DividingInit => DividingInv
<1> SUFFICES ASSUME DividingInit PROVE DividingInv
  OBVIOUS
<1>1. \E lines \in Carts, fx \in FxRates, bps \in ServiceBps : bill = Bill(lines, fx, bps)
  BY DEF DividingInit
<1>2. BillRight(bill)
  BY <1>1, BillIsRight
<1>3. Invoiced = {} /\ split = Nothing
  BY DEF DividingInit, Invoiced
<1>4. PaymentsRight
  BY <1>2, <1>3 DEF DividingInit, PaymentsRight
<1>5. ASSUME NEW s \in Slots PROVE Undeclared[s] >= 0
  <2> DEFINE f == [p \in {} |-> declared[p].slots[s]]
  <2>1. SumOver(f) = Total({}, f)
    BY TotalOf
  <2>2. Undeclared[s] = bill.slots[s] - SumOver(f)
    BY <1>3 DEF Undeclared
  <2> HIDE DEF f
  <2>3. Total({}, f) = 0
    BY TotalEmpty
  <2> QED BY <1>2, <2>1, <2>2, <2>3 DEF BillRight
<1> QED BY <1>1, <1>3, <1>4, <1>5 DEF DividingInv

(* A payment: nothing more is declared.                                    *)
LEMMA PayKeeps ==
  ASSUME DividingInv, NEW p \in People, NEW amount, amount \in Int, NEW share \in BOOLEAN,
         share => split # Nothing /\ p \in DOMAIN split.amount, Pay(p, amount, share)
  PROVE  DividingInv'
<1>1. /\ paid[p] = Nothing /\ amount \in Nat \ {0}
      /\ paid' = [paid EXCEPT ![p] = amount] /\ linked' = [linked EXCEPT ![p] = share]
      /\ bill' = bill /\ split' = split /\ declared' = declared
  BY DEF Pay
<1>2. PaymentsRight'
  <2>1. PaymentsRight /\ p \notin Invoiced
    BY <1>1 DEF DividingInv, PaymentsRight
  <2>2. Invoiced' = Invoiced
    BY <1>1 DEF Invoiced
  <2>3. \A q \in Invoiced : q \in People /\ paid'[q] = paid[q]
    BY <1>1, <2>1 DEF PaymentsRight, Invoiced
  <2>4. DOMAIN paid' = People /\ linked' \in [People -> BOOLEAN]
    BY <1>1, <2>1 DEF PaymentsRight
  <2>5. \A q \in People : linked'[q] => split # Nothing /\ q \in DOMAIN split.amount
    BY <1>1, <2>1 DEF PaymentsRight
  <2>6. \A q \in People : paid'[q] # Nothing => paid'[q] \in Nat \ {0}
    BY <1>1, <2>1 DEF PaymentsRight
  <2> QED BY <1>1, <2>1, <2>2, <2>3, <2>4, <2>5, <2>6 DEF PaymentsRight
<1>3. Undeclared' = Undeclared
  BY <1>1 DEF Undeclared, Invoiced
<1> QED BY <1>1, <1>2, <1>3 DEF DividingInv

(* An invoice: what it declares was still undeclared (InvoiceFits).        *)
LEMMA InvoiceKeeps ==
  ASSUME DividingInv, NEW p \in People, Invoice(p)
  PROVE  DividingInv'
<1> DEFINE slots == AllocatePayment(p, Undeclared)
           rec == [slots |-> slots, lines |-> ItemLines(p, slots)]
<1>1. /\ paid[p] # Nothing /\ declared[p] = Nothing /\ paid[p] <= SumOver(Undeclared)
      /\ declared' = [declared EXCEPT ![p] = rec]
      /\ bill' = bill /\ split' = split /\ paid' = paid /\ linked' = linked
  BY DEF Invoice
<1>2. rec.slots = slots
  OBVIOUS
<1>3. PaymentsRight /\ p \notin Invoiced /\ paid[p] \in Nat
  BY <1>1 DEF DividingInv, PaymentsRight, Invoiced
<1>4. Undeclared \in [Slots -> Nat] /\ paid[p] <= Total(Slots, Undeclared)
  <2>1. \A s \in Slots : Undeclared[s] \in Nat
    BY <1>3, UndeclaredIsLeft DEF DividingInv
  <2> QED BY <1>1, <1>3, <2>1, UndeclaredIsLeft
<1>5. /\ slots \in [Slots -> Nat] /\ Total(Slots, slots) = paid[p]
      /\ \A s \in Slots : slots[s] <= Undeclared[s]
  BY <1>3, <1>4, InvoiceFits
<1> HIDE DEF slots, rec
<1>6. /\ DOMAIN declared' = People /\ declared'[p] = rec
      /\ \A q \in People : q # p => declared'[q] = declared[q]
  BY <1>1, <1>3 DEF PaymentsRight
<1>7. CASE rec = Nothing
  <2>1. Invoiced' = Invoiced /\ \A q \in Invoiced : declared'[q] = declared[q]
    BY <1>1, <1>3, <1>6, <1>7 DEF Invoiced
  <2>2. PaymentsRight'
    BY <1>1, <1>3, <1>6, <2>1 DEF PaymentsRight
  <2>3. Undeclared' = Undeclared
    BY <1>1, <2>1 DEF Undeclared
  <2> QED BY <1>1, <2>2, <2>3 DEF DividingInv
<1>8. CASE rec # Nothing
  <2>1. Invoiced' = Invoiced \cup {p} /\ \A q \in Invoiced : q # p /\ declared'[q] = declared[q]
    BY <1>1, <1>3, <1>6, <1>8 DEF Invoiced
  <2>2. PaymentsRight'
    <3>1. ASSUME NEW q \in Invoiced'
          PROVE  /\ paid[q] # Nothing
                 /\ declared'[q].slots \in [Slots -> Nat]
                 /\ Total(Slots, declared'[q].slots) = paid[q]
      <4>1. CASE q = p
        BY <1>1, <1>2, <1>5, <1>6, <4>1
      <4>2. CASE q # p
        <5>1. q \in Invoiced /\ declared'[q] = declared[q]
          BY <2>1, <4>2
        <5> QED BY <1>3, <5>1 DEF PaymentsRight
      <4> QED BY <4>1, <4>2
    <3> QED BY <1>1, <1>3, <1>6, <3>1 DEF PaymentsRight
  <2>3. ASSUME NEW s \in Slots PROVE Undeclared'[s] >= 0
    <3> DEFINE f == [q \in Invoiced |-> declared[q].slots[s]]
               g == [q \in Invoiced \cup {p} |-> declared'[q].slots[s]]
    <3>1. Undeclared[s] = bill.slots[s] - SumOver(f) /\ SumOver(f) = Total(Invoiced, f)
      BY TotalOf DEF Undeclared
    <3>2. Undeclared'[s] = bill.slots[s] - SumOver(g) /\ SumOver(g) = Total(Invoiced \cup {p}, g)
      BY <1>1, <2>1, TotalOf DEF Undeclared
    <3>3. \A q \in Invoiced : g[q] = f[q] /\ f[q] \in Int
      BY <1>3, <2>1 DEF PaymentsRight
    <3>4. g[p] = slots[s] /\ slots[s] \in Int /\ slots[s] <= Undeclared[s]
      BY <1>2, <1>5, <1>6
    <3> HIDE DEF f, g
    <3>5. IsFiniteSet(Invoiced) /\ IsFiniteSet(Invoiced \cup {p}) /\ Undeclared[s] \in Int
      BY <1>3, UndeclaredIsLeft, FS_AddElement
    <3>6. Total(Invoiced \cup {p}, g) = Total(Invoiced, g) + g[p] /\ Total(Invoiced, g) \in Int
      <4>1. \A q \in Invoiced \cup {p} : g[q] \in Int
        BY <3>3, <3>4
      <4>2. Invoiced \in SUBSET (Invoiced \cup {p}) /\ p \in (Invoiced \cup {p}) \ Invoiced
        BY <1>3
      <4> QED BY <3>5, <4>1, <4>2, TotalAdd
    <3>7. Total(Invoiced, g) = Total(Invoiced, f)
      BY <3>3, TotalSame
    <3>8. bill.slots[s] \in Int
      BY <1>3 DEF PaymentsRight, BillRight
    <3> QED BY <3>1, <3>2, <3>4, <3>5, <3>6, <3>7, <3>8
  <2> QED BY <1>1, <2>2, <2>3 DEF DividingInv
<1> QED BY <1>7, <1>8

(* What the run checks follows.                                            *)
LEMMA DeclaredFollows == DividingInv => DeclaredToTheCentimo
<1> SUFFICES ASSUME DividingInv PROVE DeclaredToTheCentimo
  OBVIOUS
<1>1. PaymentsRight /\ \A s \in Slots : Undeclared[s] >= 0
  BY DEF DividingInv
<1>2. SumOver(bill.slots) = bill.due
  <2>1. bill.slots = [s \in Slots |-> bill.slots[s]] /\ Total(Slots, bill.slots) = bill.due
    BY <1>1 DEF PaymentsRight, BillRight
  <2> QED BY <2>1, TotalOf
<1>3. ASSUME NEW p \in Invoiced PROVE SumOver(declared[p].slots) = paid[p]
  <2>1. /\ declared[p].slots = [s \in Slots |-> declared[p].slots[s]]
        /\ Total(Slots, declared[p].slots) = paid[p]
    BY <1>1 DEF PaymentsRight
  <2> QED BY <2>1, TotalOf
<1>4. ASSUME Outstanding = 0, \A p \in People : paid[p] # Nothing => p \in Invoiced
      PROVE  \A s \in Slots : Undeclared[s] = 0
  BY <1>1, <1>4, AllDeclared
<1> QED BY <1>1, <1>2, <1>3, <1>4 DEF DeclaredToTheCentimo

-----------------------------------------------------------------------------
(* A claim goes through three roundings: the balance over the lines, a line*)
(* over its claims, a claim over its people.                               *)

(* Two numbers are as near, times the same, as they are.                   *)
LEMMA NearTimes ==
  ASSUME NEW m \in Nat \ {0}, NEW x \in Int, NEW y \in Int, NEW d \in Int
  PROVE  Near(x, y, d) <=> Near(m * x, m * y, m * d)
<1>1. m * (y + d) = m * y + m * d /\ m * (x + d) = m * x + m * d
  OBVIOUS
<1>2. y + d \in Int /\ x + d \in Int
  OBVIOUS
<1>3. (m * x < m * (y + d) <=> x < y + d) /\ (m * y < m * (x + d) <=> y < x + d)
  <2> DEFINE a == y + d
             b == x + d
  <2>1. a \in Int /\ b \in Int
    OBVIOUS
  <2> HIDE DEF a, b
  <2> QED BY <2>1, Cancel DEF a, b
<1> QED BY <1>1, <1>3 DEF Near

(* A claim, through the three roundings it is divided by, is within two    *)
(* céntimos of what it comes to.                                           *)
LEMMA OneClaim ==
  ASSUME NEW of \in Nat, NEW units \in Nat \ {0}, NEW price \in Nat, NEW u \in Nat \ {0}, u <= units,
         NEW n \in Nat \ {0}, NEW whole \in Nat \ {0},
         NEW line \in Nat, NEW claim \in Nat, NEW part \in Nat,
         Near(whole * line, of * (price * units), whole),
         Near(units * claim, line * u, units),
         Near(n * part, claim, n), n = 1 => part = claim
  PROVE  Near(n * (whole * part), of * (price * u), n * (2 * whole))
<1> DEFINE x == of * price
           c == whole * claim
           t == x * u
<1>1. x \in Nat /\ c \in Nat /\ t \in Nat
  OBVIOUS
<1>2. Near(units * c, units * t, units * (2 * whole))
  <2>1. Near(u * (whole * line), u * (of * (price * units)), u * whole)
    <3> DEFINE a == whole * line
               b == of * (price * units)
    <3>1. a \in Int /\ b \in Int /\ Near(a, b, whole) /\ whole \in Int
      OBVIOUS
    <3> HIDE DEF a, b
    <3>2. Near(u * a, u * b, u * whole)
      BY <3>1, NearTimes
    <3> QED BY <3>2 DEF a, b
  <2>2. Near(whole * (units * claim), whole * (line * u), whole * units)
    <3> DEFINE a == units * claim
               b == line * u
    <3>1. a \in Int /\ b \in Int /\ Near(a, b, units) /\ units \in Int
      OBVIOUS
    <3> HIDE DEF a, b
    <3>2. Near(whole * a, whole * b, whole * units)
      BY <3>1, NearTimes
    <3> QED BY <3>2 DEF a, b
  <2> DEFINE a == whole * (units * claim)
             b == whole * (line * u)
             e == u * (of * (price * units))
  <2>3. a \in Int /\ b \in Int /\ e \in Int /\ u * (whole * line) = b
        /\ units * c = a /\ units * t = e
    OBVIOUS
  <2>4. u * whole <= whole * units /\ units * (2 * whole) = whole * units + whole * units
    BY Cancel
  <2> HIDE DEF a, b, e, c, t
  <2>5. Near(b, e, u * whole) /\ Near(a, b, whole * units)
    BY <2>1, <2>2, <2>3 DEF a, b, e
  <2> DEFINE v == u * whole
             w == whole * units
  <2>6. v \in Int /\ w \in Int
    OBVIOUS
  <2> HIDE DEF v, w
  <2> QED BY <2>3, <2>4, <2>5, <2>6 DEF Near, v, w
<1>3. Near(c, t, 2 * whole)
  <2> HIDE DEF c, t
  <2>1. 2 * whole \in Int /\ c \in Int /\ t \in Int
    BY <1>1
  <2> QED BY <1>2, <2>1, NearTimes
<1>4. of * (price * u) = t
  OBVIOUS
<1> HIDE DEF c, t, x
<1>5. CASE n = 1
  <2>1. n * (whole * part) = c /\ n * (2 * whole) = 2 * whole
    BY <1>5 DEF c
  <2> QED BY <1>3, <1>4, <2>1
<1>6. CASE n >= 2
  <2>1. Near(whole * (n * part), whole * claim, whole * n)
    <3> DEFINE a == n * part
    <3>1. a \in Int /\ Near(a, claim, n) /\ claim \in Int /\ n \in Int
      OBVIOUS
    <3> HIDE DEF a
    <3>2. Near(whole * a, whole * claim, whole * n)
      BY <3>1, NearTimes
    <3> QED BY <3>2 DEF a
  <2> DEFINE y == n * (whole * part)
             m == whole * n
  <2>2. y \in Int /\ m \in Int /\ whole * (n * part) = y /\ n * (2 * whole) = m + m /\ m >= 2 * whole
    <3>1. whole * 2 <= whole * n
      BY <1>6, Cancel
    <3> QED BY <3>1
  <2> HIDE DEF y, m
  <2>3. Near(y, c, m)
    BY <2>1, <2>2 DEF c, m
  <2>4. Near(y, t, m + m)
    BY <1>1, <1>3, <2>2, <2>3 DEF Near
  <2> QED BY <1>4, <2>2, <2>4 DEF y
<1> QED BY <1>5, <1>6

(* Claims as splitEngine.js accepts them: some of the people, some units.  *)
ClaimsRight(who, claims) ==
  \A i \in Lines :
    /\ DOMAIN claims[i] \in SUBSET Nat /\ IsFiniteSet(DOMAIN claims[i])
    /\ \A k \in DOMAIN claims[i] :
         /\ claims[i][k].people \in SUBSET who /\ claims[i][k].people # {}
         /\ claims[i][k].units \in Nat \ {0}

(* What ByItems divides, step by step: a line's part, a claim's, a         *)
(* person's.                                                               *)
OfLine == AllocateWithZeros(Outstanding, bill.subtotal)
UnitsOf(claims, i) == [k \in DOMAIN claims[i] |-> claims[i][k].units]
OfClaim(claims, i) == AllocateWithZeros(OfLine[i], UnitsOf(claims, i))
OfPeople(claims, i, k) == Allocate(OfClaim(claims, i)[k], Even(claims[i][k].people))
Mine(claims, p, i) == {k \in DOMAIN claims[i] : p \in claims[i][k].people}
Owed(claims, p, i) == SumOver([k \in Mine(claims, p, i) |-> OfPeople(claims, i, k)[p]])

(* ByItems, in these words.                                                *)
LEMMA ItemsOwed ==
  ASSUME NEW who, NEW claims
  PROVE  ByItems(who, claims) = [p \in who |-> SumOver([i \in Lines |-> Owed(claims, p, i)])]
BY DEF ByItems, Grouped, OfLine, UnitsOf, OfClaim, OfPeople, Mine, Owed

(* While something is left to pay the bill has lines, worth something.     *)
LEMMA LinesPay ==
  ASSUME PaymentsRight, Outstanding > 0
  PROVE  /\ Lines \in SUBSET Nat /\ IsFiniteSet(Lines) /\ Lines = 1 .. Cardinality(Lines)
         /\ Cardinality(Lines) \in Lines /\ 1 \in Lines
         /\ bill.units \in [Lines -> Nat \ {0}] /\ bill.subtotal \in [Lines -> Nat]
         /\ Outstanding \in Nat \ {0} /\ Total(Lines, bill.subtotal) \in Nat \ {0}
<1>1. /\ Lines \in SUBSET Nat /\ IsFiniteSet(Lines) /\ Lines = 1 .. Cardinality(Lines)
      /\ bill.units \in [Lines -> Nat \ {0}] /\ bill.subtotal \in [Lines -> Nat]
      /\ bill.due \in Nat /\ (bill.due > 0 => Total(Lines, bill.subtotal) > 0)
  BY DEF PaymentsRight, BillRight, Lines
<1>2. Outstanding = bill.due - Paid /\ Paid \in Nat
  BY PaidIsSum DEF Outstanding
<1>3. Outstanding \in Nat \ {0} /\ bill.due > 0
  BY <1>1, <1>2
<1>4. Total(Lines, bill.subtotal) \in Nat \ {0}
  <2>1. \A i \in Lines : bill.subtotal[i] \in Nat
    BY <1>1
  <2>2. Total(Lines, bill.subtotal) \in Nat
    BY <1>1, <2>1, TotalNat
  <2> QED BY <1>1, <1>3, <2>2
<1>5. Cardinality(Lines) \in Nat /\ Cardinality(Lines) # 0
  <2>1. Lines # {}
    BY <1>4, TotalEmpty
  <2> QED BY <1>1, <2>1, FS_EmptySet, FS_CardinalityType
<1> DEFINE n == Cardinality(Lines)
<1>6. n \in 1 .. n /\ 1 \in 1 .. n
  BY <1>5
<1> QED BY <1>1, <1>3, <1>4, <1>6

(* A line's part is divided among its claims, and a claim's among its      *)
(* people.                                                                 *)
LineRight(claims, i) ==
  LET units == UnitsOf(claims, i)
      D == DOMAIN claims[i]
      part == OfClaim(claims, i)
  IN /\ D \in SUBSET Nat /\ IsFiniteSet(D) /\ units \in [D -> Nat \ {0}]
     /\ \A k \in D : units[k] <= bill.units[i]
     /\ OfLine[i] \in Nat
     /\ Near(Total(Lines, bill.subtotal) * OfLine[i], Outstanding * bill.subtotal[i],
             Total(Lines, bill.subtotal))
     /\ part \in [D -> Nat] /\ Total(D, part) = OfLine[i]
     /\ \A k \in D : Near(bill.units[i] * part[k], OfLine[i] * units[k], bill.units[i])

(* splitEngine.js: a line's part is near its due, and is divided among its *)
(* claims.                                                                 *)
LEMMA OneLine ==
  ASSUME PaymentsRight, Outstanding > 0, NEW who \in SUBSET People, NEW claims,
         ClaimsRight(who, claims), Complete(claims), NEW i \in Lines
  PROVE  LineRight(claims, i)
<1> DEFINE units == UnitsOf(claims, i)
           D == DOMAIN claims[i]
           part == OfClaim(claims, i)
           whole == Total(Lines, bill.subtotal)
<1>1. /\ Lines \in SUBSET Nat /\ IsFiniteSet(Lines) /\ bill.subtotal \in [Lines -> Nat]
      /\ Outstanding \in Nat /\ whole \in Nat \ {0} /\ bill.units[i] \in Nat \ {0}
  BY LinesPay
<1>2. D \in SUBSET Nat /\ IsFiniteSet(D) /\ units \in [D -> Nat \ {0}]
  BY DEF ClaimsRight, UnitsOf
<1>3. OfLine \in [Lines -> Nat] /\ Near(whole * OfLine[i], Outstanding * bill.subtotal[i], whole)
  <2>1. whole > 0
    BY <1>1
  <2>2. /\ OfLine \in [Lines -> Nat]
        /\ \A j \in Lines : Near(whole * OfLine[j], Outstanding * bill.subtotal[j], whole)
    BY <1>1, <2>1, AllocateWithZerosExact DEF OfLine
  <2> QED BY <2>2
<1>4. OfLine[i] \in Nat
  BY <1>3
<1> HIDE DEF whole
<1>5. Total(D, units) = bill.units[i]
  <2>1. SumOver(units) = bill.units[i]
    BY DEF Complete, UnitsOf
  <2>2. SumOver(units) = Total(D, units)
    <3>1. units = [k \in D |-> units[k]]
      BY DEF UnitsOf
    <3> HIDE DEF units
    <3> QED BY <3>1, TotalOf
  <2> QED BY <2>1, <2>2
<1>6. \A k \in D : units[k] <= bill.units[i]
  <2>1. \A k \in D : units[k] \in Nat
    BY <1>2
  <2>2. IsFiniteSet(D)
    BY <1>2
  <2> HIDE DEF units, D
  <2>3. \A k \in D : units[k] <= Total(D, units)
    BY <2>1, <2>2, TotalNat
  <2> QED BY <1>5, <2>3
<1>7. part = AllocateWithZeros(OfLine[i], units)
  BY DEF OfClaim
<1> HIDE DEF units, D, part
<1>8. /\ part \in [D -> Nat] /\ Total(D, part) = OfLine[i]
      /\ \A k \in D : Near(bill.units[i] * part[k], OfLine[i] * units[k], bill.units[i])
  <2>1. Total(D, units) > 0 /\ units \in [D -> Nat]
    BY <1>1, <1>2, <1>5
  <2> DEFINE a == OfLine[i]
             w == Total(D, units)
  <2>2. a \in Nat /\ part = AllocateWithZeros(a, units)
    BY <1>4, <1>7
  <2> HIDE DEF a
  <2>3. /\ part \in [D -> Nat] /\ Total(D, part) = a
        /\ \A k \in D : Near(w * part[k], a * units[k], w)
    BY <1>2, <2>1, <2>2, AllocateWithZerosExact
  <2> QED BY <1>5, <2>3 DEF a
<1> QED BY <1>2, <1>3, <1>4, <1>6, <1>8 DEF whole, D, units, part, LineRight

(* A claim's part among its people,                                        *)
ShareRight(who, P, part, total) ==
  /\ P \in SUBSET who /\ IsFiniteSet(P) /\ Cardinality(P) \in Nat \ {0}
  /\ total \in Nat /\ part \in [P -> Nat] /\ Total(P, part) = total
  /\ \A p \in P : /\ Near(Cardinality(P) * part[p], total, Cardinality(P))
                  /\ Cardinality(P) = 1 => part[p] = total

(* which is all of it.                                                     *)
LEMMA OneShare ==
  ASSUME PaymentsRight, Outstanding > 0, NEW who \in SUBSET People, NEW claims,
         ClaimsRight(who, claims), Complete(claims), NEW i \in Lines, NEW k \in DOMAIN claims[i]
  PROVE  ShareRight(who, claims[i][k].people, OfPeople(claims, i, k), OfClaim(claims, i)[k])
<1> DEFINE P == claims[i][k].people
           n == Cardinality(P)
           part == OfPeople(claims, i, k)
           total == OfClaim(claims, i)[k]
           even == Even(P)
<1>1. total \in Nat
  BY OneLine DEF LineRight
<1>2. P \in SUBSET who /\ P # {} /\ P \in SUBSET Nat /\ IsFiniteSet(P)
  <2>1. P \in SUBSET who /\ P # {} /\ P \in SUBSET People
    BY DEF ClaimsRight
  <2> HIDE DEF P
  <2> QED BY <2>1, DividingAssumption, FS_Subset
<1>3. n \in Nat \ {0}
  BY <1>2, FS_CardinalityType, FS_EmptySet
<1>4. part = Allocate(total, even) /\ even \in [P -> Nat \ {0}] /\ \A p \in P : even[p] = 1
  BY DEF OfPeople, Even
<1> HIDE DEF P, part, total, even
<1>5. Total(P, even) = n
  BY <1>2, <1>4, TotalCount
<1>6. /\ part \in [P -> Nat] /\ Total(P, part) = total
      /\ \A p \in P : Near(n * part[p], total * even[p], n)
  <2>1. /\ part \in [P -> Nat] /\ Total(P, part) = total
        /\ \A p \in P : Near(Total(P, even) * part[p], total * even[p], Total(P, even))
    BY <1>1, <1>2, <1>4, AllocateExact
  <2> QED BY <1>5, <2>1
<1>7. ASSUME NEW p \in P PROVE Near(n * part[p], total, n) /\ (n = 1 => part[p] = total)
  <2>1. total * even[p] = total
    BY <1>1, <1>4
  <2>2. ASSUME n = 1 PROVE part[p] = total
    <3>1. \A q \in P : q # p => part[q] = 0
      <4>1. P = {p}
        BY <1>2, <2>2, FS_Singleton
      <4> QED BY <4>1
    <3>2. part[p] \in Int
      BY <1>6
    <3>3. Total(P, part) = part[p]
      BY <1>2, <3>1, <3>2, TotalSingle
    <3> QED BY <1>6, <3>3
  <2> QED BY <1>6, <2>1, <2>2
<1> QED BY <1>1, <1>2, <1>3, <1>6, <1>7 DEF P, n, part, total, ShareRight

(* What a person owes for a line, as a sum over its claims.                *)
LEMMA OwedNat ==
  ASSUME PaymentsRight, Outstanding > 0, NEW who \in SUBSET People, NEW claims,
         ClaimsRight(who, claims), Complete(claims), NEW p \in who, NEW i \in Lines
  PROVE  /\ IsFiniteSet(Mine(claims, p, i)) /\ Mine(claims, p, i) \in SUBSET (DOMAIN claims[i])
         /\ \A k \in Mine(claims, p, i) : OfPeople(claims, i, k)[p] \in Nat
         /\ Owed(claims, p, i)
            = Total(Mine(claims, p, i), [k \in Mine(claims, p, i) |-> OfPeople(claims, i, k)[p]])
         /\ Owed(claims, p, i) \in Nat
<1> DEFINE M == Mine(claims, p, i)
           f == [k \in M |-> OfPeople(claims, i, k)[p]]
<1>1. M \in SUBSET (DOMAIN claims[i]) /\ IsFiniteSet(M)
  <2>1. IsFiniteSet(DOMAIN claims[i])
    BY OneLine DEF LineRight
  <2>2. M \in SUBSET (DOMAIN claims[i])
    BY DEF Mine
  <2> HIDE DEF M
  <2> QED BY <2>1, <2>2, FS_Subset
<1>2. ASSUME NEW k \in M PROVE OfPeople(claims, i, k)[p] \in Nat
  <2>1. k \in DOMAIN claims[i] /\ p \in claims[i][k].people
    BY DEF Mine
  <2>2. OfPeople(claims, i, k) \in [claims[i][k].people -> Nat]
    BY <2>1, OneShare DEF ShareRight
  <2> QED BY <2>1, <2>2
<1>3. Owed(claims, p, i) = SumOver(f) /\ SumOver(f) = Total(M, f)
  BY TotalOf DEF Owed
<1>4. \A k \in M : f[k] \in Nat
  BY <1>2
<1> HIDE DEF f, M
<1>5. Total(M, f) \in Nat
  BY <1>1, <1>4, TotalNat
<1> QED BY <1>1, <1>2, <1>3, <1>5 DEF M, f

(* A line's part is owed by its people, and by nobody else.                *)
LEMMA OwedForLine ==
  ASSUME PaymentsRight, Outstanding > 0, NEW who \in SUBSET People, NEW claims,
         ClaimsRight(who, claims), Complete(claims), NEW i \in Lines
  PROVE  Total(who, [p \in who |-> Owed(claims, p, i)]) = OfLine[i]
<1> DEFINE D == DOMAIN claims[i]
           P(k) == claims[i][k].people
           cell == [p \in who |-> [k \in D |-> IF p \in P(k) THEN OfPeople(claims, i, k)[p] ELSE 0]]
           row == [p \in who |-> Total(D, cell[p])]
           column == [k \in D |-> Total(who, [p \in who |-> cell[p][k]])]
           owed == [p \in who |-> Owed(claims, p, i)]
<1>1. IsFiniteSet(who) /\ IsFiniteSet(D)
  BY DividingAssumption, FS_Subset, OneLine DEF LineRight
<1>2. ASSUME NEW k \in D
      PROVE  /\ P(k) \in SUBSET who /\ IsFiniteSet(P(k))
             /\ OfPeople(claims, i, k) \in [P(k) -> Nat]
             /\ Total(P(k), OfPeople(claims, i, k)) = OfClaim(claims, i)[k]
  <2> HIDE DEF cell, row, column, owed
  <2>1. k \in DOMAIN claims[i]
    OBVIOUS
  <2>2. ShareRight(who, P(k), OfPeople(claims, i, k), OfClaim(claims, i)[k])
    BY <2>1, OneShare
  <2> QED BY <2>2 DEF ShareRight
<1>3. ASSUME NEW p \in who, NEW k \in D
      PROVE  /\ cell[p][k] \in Int
             /\ p \in P(k) => cell[p][k] = OfPeople(claims, i, k)[p]
             /\ p \notin P(k) => cell[p][k] = 0
  <2>1. cell[p][k] = IF p \in P(k) THEN OfPeople(claims, i, k)[p] ELSE 0
    OBVIOUS
  <2> HIDE DEF cell
  <2> QED BY <1>2, <2>1
<1>4. ASSUME NEW p \in who PROVE owed[p] = row[p]
  <2> DEFINE M == Mine(claims, p, i)
             f == [k \in M |-> OfPeople(claims, i, k)[p]]
             h == cell[p]
  <2>1. M \in SUBSET D /\ (\A k \in D : k \in M <=> p \in P(k))
    BY DEF Mine
  <2>2. /\ \A k \in M : f[k] \in Int
        /\ owed[p] = Total(M, f)
    BY OwedNat
  <2>3. /\ \A k \in M : h[k] = f[k]
        /\ \A k \in D \ M : h[k] = 0
    <3>1. \A k \in M : f[k] = OfPeople(claims, i, k)[p]
      OBVIOUS
    <3> HIDE DEF cell, f, M
    <3> QED BY <1>3, <2>1, <3>1
  <2>4. row[p] = Total(D, h)
    OBVIOUS
  <2> HIDE DEF cell, row, owed, M, f, h, D
  <2>5. Total(D, h) = Total(M, f)
    BY <1>1, <2>1, <2>2, <2>3, TotalWithin
  <2> QED BY <2>2, <2>4, <2>5
<1>5. ASSUME NEW k \in D PROVE column[k] = OfClaim(claims, i)[k]
  <2> DEFINE h == [p \in who |-> cell[p][k]]
             f == OfPeople(claims, i, k)
             S == P(k)
  <2>1. \A p \in who : h[p] = cell[p][k]
    OBVIOUS
  <2>2. column[k] = Total(who, h)
    OBVIOUS
  <2> HIDE DEF cell, column, h, f
  <2>3. /\ S \in SUBSET who /\ \A p \in S : f[p] \in Int
        /\ Total(S, f) = OfClaim(claims, i)[k]
    BY <1>2 DEF f
  <2>4. /\ \A p \in S : h[p] = f[p]
        /\ \A p \in who \ S : h[p] = 0
    BY <1>3, <2>1, <2>3 DEF f
  <2> HIDE DEF S
  <2>5. Total(who, h) = Total(S, f)
    BY <1>1, <2>3, <2>4, TotalWithin
  <2> QED BY <2>2, <2>3, <2>5
<1>6. Total(who, row) = Total(D, column)
  <2>1. \A p \in who, k \in D : cell[p][k] \in Int
    BY <1>3
  <2> HIDE DEF cell, D
  <2> QED BY <1>1, <2>1, TotalSwap
<1> HIDE DEF row, column, owed, cell
<1>7. Total(who, owed) = Total(who, row)
  BY <1>4, TotalSame
<1>8. Total(D, column) = Total(D, OfClaim(claims, i))
  BY <1>5, TotalSame
<1>9. Total(D, OfClaim(claims, i)) = OfLine[i]
  BY OneLine DEF LineRight
<1> QED BY <1>6, <1>7, <1>8, <1>9 DEF owed

(* By items, what is left of the bill is divided to the céntimo.           *)
LEMMA ItemsAreAll ==
  ASSUME PaymentsRight, Outstanding > 0, NEW who \in SUBSET People, NEW claims,
         ClaimsRight(who, claims), Complete(claims)
  PROVE  /\ \A p \in who : /\ ByItems(who, claims)[p] \in Nat
                           /\ ByItems(who, claims)[p]
                              = Total(Lines, [i \in Lines |-> Owed(claims, p, i)])
         /\ Total(who, ByItems(who, claims)) = Outstanding
<1> DEFINE cell == [p \in who |-> [i \in Lines |-> Owed(claims, p, i)]]
           row == [p \in who |-> Total(Lines, cell[p])]
           column == [i \in Lines |-> Total(who, [p \in who |-> cell[p][i]])]
           amount == ByItems(who, claims)
<1>1. IsFiniteSet(who) /\ IsFiniteSet(Lines)
  BY DividingAssumption, FS_Subset, LinesPay
<1>2. \A p \in who, i \in Lines : cell[p][i] = Owed(claims, p, i) /\ cell[p][i] \in Nat
  BY OwedNat
<1>3. ASSUME NEW p \in who
      PROVE  /\ amount[p] = row[p] /\ amount[p] \in Nat
             /\ amount[p] = Total(Lines, [i \in Lines |-> Owed(claims, p, i)])
  <2> DEFINE f == [i \in Lines |-> Owed(claims, p, i)]
  <2>1. amount[p] = SumOver(f) /\ SumOver(f) = Total(Lines, f)
    BY ItemsOwed, TotalOf
  <2>2. row[p] = Total(Lines, f)
    OBVIOUS
  <2>3. \A i \in Lines : f[i] \in Nat
    BY <1>2
  <2> HIDE DEF amount, row, f, cell
  <2>4. Total(Lines, f) \in Nat
    BY <1>1, <2>3, TotalNat
  <2> QED BY <2>1, <2>2, <2>4 DEF f
<1>4. Total(who, row) = Total(Lines, column)
  <2>1. \A p \in who, i \in Lines : cell[p][i] \in Int
    BY <1>2
  <2> HIDE DEF cell
  <2> QED BY <1>1, <2>1, TotalSwap
<1>5. ASSUME NEW i \in Lines PROVE column[i] = OfLine[i]
  <2> DEFINE f == [p \in who |-> cell[p][i]]
             g == [p \in who |-> Owed(claims, p, i)]
  <2>1. column[i] = Total(who, f) /\ \A p \in who : f[p] = g[p]
    OBVIOUS
  <2> HIDE DEF f, g, column, cell
  <2>2. Total(who, f) = Total(who, g)
    BY <2>1, TotalSame
  <2>3. Total(who, g) = OfLine[i]
    BY OwedForLine DEF g
  <2> QED BY <2>1, <2>2, <2>3
<1> HIDE DEF row, column, amount, cell
<1>6. Total(who, amount) = Total(who, row)
  BY <1>3, TotalSame
<1>7. Total(Lines, column) = Total(Lines, OfLine)
  BY <1>5, TotalSame
<1>8. Total(Lines, OfLine) = Outstanding
  <2> DEFINE of == Outstanding
  <2>1. /\ of \in Nat /\ Total(Lines, bill.subtotal) > 0
        /\ Lines \in SUBSET Nat /\ bill.subtotal \in [Lines -> Nat]
    BY LinesPay
  <2>2. OfLine = AllocateWithZeros(of, bill.subtotal)
    BY DEF OfLine
  <2> HIDE DEF of
  <2>3. Total(Lines, OfLine) = of
    BY <1>1, <2>1, <2>2, AllocateWithZerosExact
  <2> QED BY <2>3 DEF of
<1> QED BY <1>3, <1>4, <1>6, <1>7, <1>8 DEF amount

(* A division that leaves nothing.                                         *)
LEMMA DivExact ==
  ASSUME NEW b \in Nat \ {0}, NEW x \in Nat
  PROVE  (b * x) \div b = x
<1> DEFINE a == b * x
           q == a \div b
           r == a % b
<1>1. a \in Int
  OBVIOUS
<1> HIDE DEF a
<1>2. a = b * q + r /\ q \in Int /\ r \in Nat /\ r < b
  BY <1>1, DivMod
<1> HIDE DEF q, r
<1>3. b * q < b * (x + 1) /\ b * x < b * (q + 1)
  BY <1>2 DEF a
<1>4. q < x + 1 /\ x < q + 1
  BY <1>2, <1>3, Cancel
<1> QED BY <1>2, <1>4 DEF q, a

(* What a claim comes to for each of its people, in Parts of a céntimo     *)
(* times the worth of the bill.                                            *)
Worthy(claims, i, k) ==
  (bill.subtotal[i] * claims[i][k].units * Parts)
    \div (bill.units[i] * Cardinality(claims[i][k].people))

(* One claim's part for one of its people.                                 *)
LEMMA CellNear ==
  ASSUME PaymentsRight, Outstanding > 0, NEW who \in SUBSET People, NEW claims,
         ClaimsRight(who, claims), Complete(claims), NEW p \in who, NEW i \in Lines,
         NEW k \in Mine(claims, p, i)
  PROVE  LET m == Total(Lines, bill.subtotal) * Parts
             part == OfPeople(claims, i, k)[p]
             x == Worthy(claims, i, k)
         IN /\ part \in Nat /\ x \in Nat
            /\ Apart(m * part, Outstanding * x) <= (2 * m - 1) * 1
<1> DEFINE whole == Total(Lines, bill.subtotal)
           m == whole * Parts
           part == OfPeople(claims, i, k)[p]
           of == Outstanding
           P == claims[i][k].people
           n == Cardinality(P)
           u == claims[i][k].units
           U == bill.units[i]
           line == OfLine[i]
           claim == OfClaim(claims, i)[k]
           x == Worthy(claims, i, k)
<1>1. of \in Nat /\ whole \in Nat \ {0} /\ U \in Nat \ {0} /\ bill.subtotal[i] \in Nat
  BY LinesPay
<1>2. k \in DOMAIN claims[i] /\ p \in P
  BY DEF Mine
<1>3. PICK price \in Nat : bill.subtotal[i] = price * U
  BY DEF PaymentsRight, BillRight, Lines
<1>4. /\ u \in Nat \ {0} /\ u <= U /\ line \in Nat /\ claim \in Nat
      /\ Near(whole * line, of * bill.subtotal[i], whole)
      /\ Near(U * claim, line * u, U)
  <2>1. UnitsOf(claims, i)[k] = u
    BY <1>2 DEF UnitsOf
  <2>2. u \in Nat \ {0}
    BY <1>2 DEF ClaimsRight
  <2>0. LineRight(claims, i)
    BY OneLine
  <2>3. u <= U /\ line \in Nat
    BY <1>2, <2>0, <2>1 DEF LineRight
  <2>c. claim \in Nat
    BY <1>2, <2>0 DEF LineRight
  <2>4. Near(whole * line, of * bill.subtotal[i], whole)
    BY <2>0 DEF LineRight
  <2>5. Near(U * claim, line * u, U)
    BY <1>2, <2>0, <2>1 DEF LineRight
  <2> QED BY <2>2, <2>3, <2>4, <2>5, <2>c
<1>5. /\ P \in SUBSET who /\ IsFiniteSet(P) /\ n \in Nat \ {0} /\ part \in Nat
      /\ Near(n * part, claim, n) /\ (n = 1 => part = claim)
  <2>1. ShareRight(who, P, OfPeople(claims, i, k), claim)
    BY <1>2, OneShare
  <2> QED BY <1>2, <2>1 DEF ShareRight
<1>6. PICK d \in Nat \ {0} : Parts = n * d
  <2>1. n <= Cardinality(People) /\ Cardinality(People) \in Nat
    <3>1. P \in SUBSET People /\ IsFiniteSet(People)
      BY <1>5, DividingAssumption
    <3> HIDE DEF P
    <3> QED BY <3>1, FS_Subset, FS_CardinalityType
  <2>2. Parts % n = 0 /\ Parts \in Nat \ {0}
    BY <1>5, <2>1, DividingAssumption
  <2> DEFINE e == Parts \div n
  <2>3. Parts = n * e + 0 /\ e \in Nat
    <3> HIDE DEF n
    <3>1. Parts = n * (Parts \div n) + (Parts % n) /\ Parts \div n \in Nat
      BY <1>5, <2>2, DivMod
    <3> QED BY <2>2, <3>1
  <2> HIDE DEF e, n
  <2>4. e # 0 /\ Parts = n * e
    BY <1>5, <2>2, <2>3
  <2> QED BY <2>3, <2>4
<1> HIDE DEF whole, part, of, n, u, U, line, claim, P
<1>7. x = price * u * d /\ x \in Nat
  <2> DEFINE a == U * n
             y == price * u * d
  <2>1. a \in Nat \ {0} /\ y \in Nat
    BY <1>1, <1>4, <1>5
  <2>2. bill.subtotal[i] * u * Parts = a * y
    BY <1>1, <1>3, <1>4, <1>5, <1>6
  <2>3. x = (bill.subtotal[i] * u * Parts) \div a
    BY DEF Worthy, u, U, n, P
  <2> HIDE DEF a, y
  <2>4. (a * y) \div a = y
    BY <2>1, DivExact
  <2> QED BY <2>1, <2>2, <2>3, <2>4 DEF y
<1>8. Near(n * (whole * part), of * (price * u), n * (2 * whole))
  BY <1>1, <1>3, <1>4, <1>5, OneClaim
<1>9. Near(m * part, of * x, 2 * m)
  <2> DEFINE a == n * (whole * part)
             b == of * (price * u)
             c == n * (2 * whole)
  <2>1. a \in Int /\ b \in Int /\ c \in Int
    BY <1>1, <1>4, <1>5
  <2>2. d * a = m * part /\ d * b = of * x /\ d * c = 2 * m
    BY <1>1, <1>4, <1>5, <1>6, <1>7
  <2> HIDE DEF a, b, c, m, x
  <2>3. Near(a, b, c)
    BY <1>8 DEF a, b, c
  <2>4. Near(d * a, d * b, d * c)
    BY <2>1, <2>3, NearTimes
  <2> QED BY <2>2, <2>4
<1>10. m * part \in Int /\ of * x \in Int /\ m \in Int
  BY <1>1, <1>5, <1>7, DividingAssumption
<1> HIDE DEF x, m
<1>11. Apart(m * part, of * x) <= (2 * m - 1) * 1
  <2> DEFINE a == m * part
             b == of * x
  <2> HIDE DEF a, b
  <2>1. a \in Int /\ b \in Int /\ m \in Int /\ Near(a, b, 2 * m)
    BY <1>9, <1>10 DEF a, b
  <2>2. Apart(a, b) <= (2 * m - 1) * 1
    BY <2>1 DEF Apart, Near
  <2> QED BY <2>2 DEF a, b
<1> QED BY <1>5, <1>7, <1>11 DEF m, whole, part, of, x

(* All of a person's claims: each adds its own two céntimos at most, and   *)
(* without a claim there is nothing to pay.                                *)
LEMMA ItemsNear ==
  ASSUME PaymentsRight, Outstanding > 0, NEW who \in SUBSET People, NEW claims,
         ClaimsRight(who, claims), Complete(claims), NEW p \in who
  PROVE  LET amount == ByItems(who, claims)[p]
             whole == Total(Lines, bill.subtotal)
             held == [i \in Lines |-> Cardinality(Mine(claims, p, i))]
             worth == [i \in Lines |->
                         Total(Mine(claims, p, i), [k \in Mine(claims, p, i) |-> Worthy(claims, i, k)])]
         IN /\ Total(Lines, held) = 0 => amount = 0
            /\ Total(Lines, held) # 0 =>
                 Apart(amount * whole * Parts, Outstanding * Total(Lines, worth))
                 < 2 * Total(Lines, held) * whole * Parts
<1> DEFINE amount == ByItems(who, claims)[p]
           whole == Total(Lines, bill.subtotal)
           m == whole * Parts
           b == 2 * m - 1
           of == Outstanding
           M(i) == Mine(claims, p, i)
           cell(i) == [k \in M(i) |-> OfPeople(claims, i, k)[p]]
           due(i) == [k \in M(i) |-> Worthy(claims, i, k)]
           owed == [i \in Lines |-> Owed(claims, p, i)]
           held == [i \in Lines |-> Cardinality(M(i))]
           worth == [i \in Lines |-> Total(M(i), due(i))]
<1>1. /\ IsFiniteSet(Lines) /\ of \in Nat /\ whole \in Nat \ {0}
      /\ amount = Total(Lines, owed) /\ amount \in Nat
  BY LinesPay, ItemsAreAll
<1>2. m \in Nat \ {0} /\ b \in Nat
  <2>1. Parts \in Nat \ {0}
    BY DividingAssumption
  <2>2. m \in Nat \ {0}
    BY <1>1, <2>1
  <2> HIDE DEF m
  <2> QED BY <2>2
<1>3. ASSUME NEW i \in Lines
      PROVE  /\ IsFiniteSet(M(i)) /\ held[i] \in Nat /\ worth[i] \in Int /\ owed[i] \in Nat
             /\ held[i] = 0 => owed[i] = 0
             /\ Apart(m * owed[i], of * worth[i]) <= b * held[i]
  <2> DEFINE S == M(i)
             f == cell(i)
             g == due(i)
             mf == [k \in S |-> m * f[k]]
             og == [k \in S |-> of * g[k]]
             one == [k \in S |-> 1]
  <2>1. /\ IsFiniteSet(S) /\ owed[i] = Total(S, f) /\ owed[i] \in Nat
        /\ held[i] = Cardinality(S) /\ worth[i] = Total(S, g)
    BY OwedNat
  <2>2. ASSUME NEW k \in S
        PROVE  f[k] \in Nat /\ g[k] \in Nat /\ Apart(m * f[k], of * g[k]) <= b * 1
    <3> DEFINE y == OfPeople(claims, i, k)[p]
               x == Worthy(claims, i, k)
    <3>1. y \in Nat
      BY CellNear
    <3>2. x \in Nat
      BY CellNear
    <3>3. Apart(m * y, of * x) <= b * 1
      BY CellNear
    <3>4. f[k] = y /\ g[k] = x
      OBVIOUS
    <3> HIDE DEF f, g, y, x, m, b, of
    <3> QED BY <3>1, <3>2, <3>3, <3>4
  <2>3. /\ \A k \in S : f[k] \in Int
        /\ \A k \in S : g[k] \in Int
        /\ \A k \in S : mf[k] = m * f[k] /\ og[k] = of * g[k] /\ one[k] = 1
    BY <2>2
  <2> HIDE DEF f, g, S, M, owed, held, worth
  <2>4. Total(S, mf) = m * Total(S, f)
    <3>1. m \in Int
      BY <1>2
    <3> HIDE DEF m, one, og, b
    <3> QED BY <2>1, <2>3, <3>1, TotalTimes
  <2>5. Total(S, og) = of * Total(S, g)
    <3>1. of \in Int
      BY <1>1
    <3> HIDE DEF of, one, mf, m, b
    <3> QED BY <2>1, <2>3, <3>1, TotalTimes
  <2> HIDE DEF m, b, of, mf, og, one
  <2>6. \A k \in S : mf[k] \in Int /\ og[k] \in Int /\ one[k] \in Nat
                     /\ Apart(mf[k], og[k]) <= b * one[k]
    BY <1>1, <1>2, <2>2, <2>3
  <2>7. Apart(Total(S, mf), Total(S, og)) <= b * Total(S, one)
    BY <1>2, <2>1, <2>6, TotalNear
  <2>8. Total(S, one) = Cardinality(S)
    BY <2>1, <2>3, TotalCount
  <2>9. worth[i] \in Int /\ held[i] \in Nat
    BY <2>1, <2>3, TotalInt, FS_CardinalityType
  <2>10. held[i] = 0 => owed[i] = 0
    <3>1. ASSUME held[i] = 0 PROVE owed[i] = 0
      <4>1. S = {}
        BY <2>1, <3>1, FS_EmptySet
      <4> QED BY <2>1, <4>1, TotalEmpty
    <3> QED BY <3>1
  <2> QED BY <2>1, <2>4, <2>5, <2>7, <2>8, <2>9, <2>10 DEF S
<1> HIDE DEF owed, held, worth, m, b, of
<1>4. \A i \in Lines : held[i] \in Nat
  BY <1>3
<1>5. Total(Lines, held) \in Nat /\ (Total(Lines, held) = 0 => \A i \in Lines : held[i] = 0)
  BY <1>1, <1>4, TotalNat
<1>6. Total(Lines, held) = 0 => amount = 0
  <2>1. ASSUME Total(Lines, held) = 0 PROVE amount = 0
    <3>1. \A i \in Lines : owed[i] = 0
      BY <1>3, <1>5, <2>1
    <3> HIDE DEF amount
    <3> QED BY <1>1, <3>1, TotalZero
  <2> QED BY <2>1
<1>7. Apart(m * amount, of * Total(Lines, worth)) <= b * Total(Lines, held)
  <2> DEFINE f == [i \in Lines |-> m * owed[i]]
             g == [i \in Lines |-> of * worth[i]]
  <2>1. /\ \A i \in Lines : owed[i] \in Int
        /\ \A i \in Lines : worth[i] \in Int
        /\ m \in Int /\ of \in Int
    BY <1>1, <1>2, <1>3
  <2>2. Total(Lines, f) = m * Total(Lines, owed)
    <3> HIDE DEF g
    <3> QED BY <1>1, <2>1, TotalTimes
  <2>3. Total(Lines, g) = of * Total(Lines, worth)
    <3> HIDE DEF f
    <3> QED BY <1>1, <2>1, TotalTimes
  <2>4. \A i \in Lines : f[i] = m * owed[i] /\ g[i] = of * worth[i]
    OBVIOUS
  <2> HIDE DEF f, g, amount
  <2>5. \A i \in Lines : f[i] \in Int /\ g[i] \in Int /\ held[i] \in Nat
                         /\ Apart(f[i], g[i]) <= b * held[i]
    BY <1>3, <2>1, <2>4
  <2>6. Apart(Total(Lines, f), Total(Lines, g)) <= b * Total(Lines, held)
    BY <1>1, <1>2, <2>5, TotalNear
  <2> QED BY <1>1, <2>2, <2>3, <2>6
<1>8. Total(Lines, held) # 0 =>
        Apart(amount * whole * Parts, of * Total(Lines, worth))
        < 2 * Total(Lines, held) * whole * Parts
  <2>1. Parts \in Nat
    BY DividingAssumption
  <2> DEFINE h == Total(Lines, held)
             w == of * Total(Lines, worth)
  <2> HIDE DEF amount, whole, h
  <2>2. /\ m * amount = amount * whole * Parts /\ h \in Nat
        /\ 2 * h * whole * Parts = 2 * (m * h) /\ m * h \in Nat
        /\ b * h = 2 * (m * h) - h
    BY <1>1, <1>2, <1>5, <2>1 DEF m, b, h
  <2>3. Apart(m * amount, w) <= b * h
    BY <1>7 DEF h
  <2>4. Apart(m * amount, w) \in Int
    <3>1. w \in Int
      <4>1. \A i \in Lines : worth[i] \in Int
        BY <1>3
      <4>2. Total(Lines, worth) \in Int
        BY <1>1, <4>1, TotalInt
      <4> QED BY <1>1, <4>2
    <3>2. m * amount \in Int
      BY <1>1, <1>2
    <3> QED BY <3>1, <3>2 DEF Apart
  <2> DEFINE x == m * amount
             y == m * h
  <2> HIDE DEF w, m, b
  <2>5. h # 0 => Apart(x, w) < 2 * y
    <3> DEFINE z == b * h
    <3>1. z = 2 * y - h /\ y \in Nat /\ h \in Nat /\ Apart(x, w) <= z /\ Apart(x, w) \in Int
      BY <2>2, <2>3, <2>4
    <3> HIDE DEF x, y, z
    <3> QED BY <3>1
  <2> QED BY <2>2, <2>5 DEF h, w
<1> QED BY <1>6, <1>8 DEF amount, whole, held, worth, of

-----------------------------------------------------------------------------
(* The plans, and the theorems.                                            *)

(* What a plan divides exactly, in any mode but by items.                  *)
LEMMA PlanOf ==
  ASSUME PaymentsRight, NEW mode, mode # "ITEMS", NEW claims, NEW amount, NEW S \in SUBSET People,
         amount \in [S -> Nat], SumOver(amount) = Outstanding
  PROVE  PlanRight(bill, [mode |-> mode, of |-> Outstanding, claims |-> claims, amount |-> amount])
BY DEF PlanRight

(* One pays everything (splitEngine.js, FULL),                             *)
LEMMA FullIsExact ==
  ASSUME PaymentsRight, NEW p \in People, Plan("FULL", NoClaims, [q \in {p} |-> Outstanding]),
         Outstanding > 0
  PROVE  PlanRight(bill, split')
<1> DEFINE amount == [q \in {p} |-> Outstanding]
<1>1. amount \in [{p} -> Nat] /\ {p} \in SUBSET People /\ amount[p] = Outstanding
  BY LinesPay
<1>2. SumOver(amount) = Outstanding
  <2>1. SumOver(amount) = Total({p}, amount)
    BY TotalOf
  <2>2. amount[p] \in Int /\ p \in {p} /\ \A i \in {p} : i # p => amount[i] = 0
    BY <1>1
  <2> HIDE DEF amount
  <2>3. Total({p}, amount) = amount[p]
    BY <2>2, FS_Singleton, TotalSingle
  <2> QED BY <1>1, <2>1, <2>3
<1> HIDE DEF amount
<1>3. PlanRight(bill, [mode |-> "FULL", of |-> Outstanding, claims |-> NoClaims, amount |-> amount])
  BY <1>1, <1>2, PlanOf
<1> QED BY <1>3 DEF Plan, amount

(* everybody the same (EQUAL),                                             *)
LEMMA EqualIsExact ==
  ASSUME PaymentsRight, NEW who \in SUBSET People, who # {}, Outstanding > 0,
         Plan("EQUAL", NoClaims, Allocate(Outstanding, Even(who)))
  PROVE  PlanRight(bill, split')
<1> DEFINE of == Outstanding
           even == Even(who)
           amount == Allocate(of, even)
<1>1. of \in Nat /\ who \in SUBSET Nat /\ IsFiniteSet(who) /\ even \in [who -> Nat \ {0}]
  <2>1. of \in Nat
    BY LinesPay
  <2>2. who \in SUBSET Nat /\ IsFiniteSet(who)
    BY DividingAssumption, FS_Subset
  <2>3. even \in [who -> Nat \ {0}]
    BY DEF Even
  <2> QED BY <2>1, <2>2, <2>3
<1> HIDE DEF of, even
<1>2. amount \in [who -> Nat] /\ Total(who, amount) = of
  BY <1>1, AllocateExact
<1> HIDE DEF amount
<1>3. amount = [p \in who |-> amount[p]]
  BY <1>2
<1>4. SumOver(amount) = of
  BY <1>2, <1>3, TotalOf
<1>5. PlanRight(bill, [mode |-> "EQUAL", of |-> Outstanding, claims |-> NoClaims, amount |-> amount])
  BY <1>2, <1>4, PlanOf DEF of
<1> QED BY <1>5 DEF Plan, amount, of, even

(* what they agreed (CUSTOM),                                              *)
LEMMA CustomIsExact ==
  ASSUME PaymentsRight, NEW p \in People, NEW q \in People, NEW a \in Some \cup {0}, a <= Outstanding,
         Outstanding > 0, NEW amount, amount = [r \in {p, q} |-> IF r = p THEN a ELSE Outstanding - a],
         SumOver(amount) = Outstanding, Plan("CUSTOM", NoClaims, amount)
  PROVE  PlanRight(bill, split')
<1>1. a \in Nat /\ Outstanding - a \in Nat
  <2>1. Outstanding \in Nat
    BY LinesPay
  <2>2. a \in Nat
    BY DividingAssumption
  <2> QED BY <2>1, <2>2
<1>2. amount \in [{p, q} -> Nat] /\ {p, q} \in SUBSET People
  BY <1>1
<1>3. PlanRight(bill, [mode |-> "CUSTOM", of |-> Outstanding, claims |-> NoClaims, amount |-> amount])
  BY <1>2, PlanOf
<1> QED BY <1>3 DEF Plan

(* by items: the claims that are made are claims,                          *)
LEMMA ClaimsAreRight ==
  ASSUME PaymentsRight, Outstanding > 0, NEW who \in SUBSET People,
         NEW first \in Claims(who, 1), NEW last \in Claims(who, Cardinality(Lines))
  PROVE  ClaimsRight(who, [i \in Lines |-> IF i = 1 THEN first ELSE last])
<1>1. ASSUME NEW i \in Lines, NEW c \in Claims(who, i)
      PROVE  /\ DOMAIN c \in SUBSET Nat /\ IsFiniteSet(DOMAIN c)
             /\ \A k \in DOMAIN c : /\ c[k].people \in SUBSET who /\ c[k].people # {}
                                    /\ c[k].units \in Nat \ {0}
  <2> DEFINE one == [people : (SUBSET who) \ {{}}, units : 1 .. bill.units[i]]
  <2>1. bill.units[i] \in Nat
    BY LinesPay
  <2>2. \A d \in one : d.people \in SUBSET who /\ d.people # {} /\ d.units \in Nat \ {0}
    BY <2>1
  <2>3. c \in {<<>>} \cup {<<d>> : d \in one} \cup {<<d, e>> : d, e \in one}
    BY DEF Claims
  <2> HIDE DEF one
  <2>4. DOMAIN c = 1 .. 0 \/ DOMAIN c = 1 .. 1 \/ DOMAIN c = 1 .. 2
    BY <2>3
  <2>5. \A k \in DOMAIN c : c[k] \in one
    BY <2>3
  <2>6. DOMAIN c \in SUBSET Nat
    BY <2>4
  <2>7. IsFiniteSet(DOMAIN c)
    <3>1. \A n \in Nat : IsFiniteSet(1 .. n)
      BY FS_Interval
    <3>2. 0 \in Nat /\ 1 \in Nat /\ 2 \in Nat
      OBVIOUS
    <3>3. \E n \in Nat : DOMAIN c = 1 .. n
      BY <2>4, <3>2
    <3> QED BY <3>1, <3>3
  <2> QED BY <2>2, <2>5, <2>6, <2>7
<1>2. 1 \in Lines /\ Cardinality(Lines) \in Lines
  BY LinesPay
<1> DEFINE claims == [i \in Lines |-> IF i = 1 THEN first ELSE last]
<1>3. \A i \in Lines : claims[i] = first \/ claims[i] = last
  OBVIOUS
<1> HIDE DEF claims
<1>4. ASSUME NEW i \in Lines
      PROVE  /\ DOMAIN claims[i] \in SUBSET Nat /\ IsFiniteSet(DOMAIN claims[i])
             /\ \A k \in DOMAIN claims[i] :
                  /\ claims[i][k].people \in SUBSET who /\ claims[i][k].people # {}
                  /\ claims[i][k].units \in Nat \ {0}
  <2>1. CASE claims[i] = first
    BY <1>1, <1>2, <2>1
  <2>2. CASE claims[i] = last
    BY <1>1, <1>2, <2>2
  <2> QED BY <1>3, <2>1, <2>2
<1> QED BY <1>4 DEF ClaimsRight, claims

(* and divide the bill exactly (ITEMS).                                    *)
LEMMA ItemsAreExact ==
  ASSUME PaymentsRight, Outstanding > 0, NEW who \in SUBSET People, NEW claims,
         ClaimsRight(who, claims), Complete(claims), Plan("ITEMS", claims, ByItems(who, claims))
  PROVE  PlanRight(bill, split')
<1> DEFINE amount == ByItems(who, claims)
           plan == [mode |-> "ITEMS", of |-> Outstanding, claims |-> claims, amount |-> amount]
           whole == Total(Lines, bill.subtotal)
           held(p) == [i \in Lines |-> Cardinality(Mine(claims, p, i))]
           due(p, i) == [k \in Mine(claims, p, i) |-> Worthy(claims, i, k)]
           worth(p) == [i \in Lines |-> Total(Mine(claims, p, i), due(p, i))]
<1>1. split' = plan
  BY DEF Plan
<1>2. DOMAIN amount = who /\ amount = [p \in who |-> amount[p]]
  BY ItemsOwed
<1>3. (\A p \in who : amount[p] \in Nat) /\ Total(who, amount) = Outstanding
  BY ItemsAreAll
<1>4. SumOver(amount) = Outstanding
  <2> HIDE DEF amount
  <2> QED BY <1>2, <1>3, TotalOf
<1>5. SumOver(bill.subtotal) = whole
  <2>1. bill.subtotal = [i \in Lines |-> bill.subtotal[i]]
    BY LinesPay
  <2> QED BY <2>1, TotalOf
<1>6. ASSUME NEW p \in who
      PROVE  IF CountOf(bill, plan, p) = 0 THEN amount[p] = 0
             ELSE Apart(amount[p] * SumOver(bill.subtotal) * Parts, ExactOf(bill, plan, p))
                  < 2 * CountOf(bill, plan, p) * SumOver(bill.subtotal) * Parts
  <2>1. /\ Total(Lines, held(p)) = 0 => amount[p] = 0
        /\ Total(Lines, held(p)) # 0 =>
             Apart(amount[p] * whole * Parts, Outstanding * Total(Lines, worth(p)))
             < 2 * Total(Lines, held(p)) * whole * Parts
    <3> HIDE DEF amount
    <3> QED BY ItemsNear DEF amount
  <2>2. CountOf(bill, plan, p) = Total(Lines, held(p))
    <3>1. CountOf(bill, plan, p) = SumOver(held(p))
      BY DEF CountOf, HeldOf, Mine, Lines
    <3> QED BY <3>1, TotalOf
  <2>3. ExactOf(bill, plan, p) = Outstanding * Total(Lines, worth(p))
    <3> DEFINE w == [i \in Lines |-> SumOver(due(p, i))]
    <3>1. ExactOf(bill, plan, p) = Outstanding * SumOver(w)
      BY DEF ExactOf, HeldOf, Mine, Worthy, Lines
    <3>2. \A i \in Lines : SumOver(due(p, i)) = Total(Mine(claims, p, i), due(p, i))
      BY TotalOf
    <3>3. w = worth(p)
      BY <3>2
    <3>4. SumOver(worth(p)) = Total(Lines, worth(p))
      BY TotalOf
    <3> QED BY <3>1, <3>3, <3>4
  <2> HIDE DEF amount, plan, held, worth, whole
  <2> QED BY <1>5, <2>1, <2>2, <2>3 DEF Apart
<1>7. /\ plan.amount = amount /\ plan.of = Outstanding
  OBVIOUS
<1> HIDE DEF plan, amount
<1> QED BY <1>1, <1>2, <1>3, <1>4, <1>6, <1>7 DEF PlanRight

(* A plan: exact when it is made, and the bill and the payments stay.      *)
LEMMA PreviewKeeps ==
  ASSUME DividingInv, PreviewSplit
  PROVE  DividingInv'
<1>1. PaymentsRight
  BY DEF DividingInv
<1>2. split = Nothing /\ Outstanding > 0 /\ UNCHANGED <<bill, paid, linked, declared>>
  BY DEF PreviewSplit, SplitFull, SplitEqually, SplitCustom, SplitByItems, Divisible
<1>3. PlanRight(bill, split')
  <2>1. CASE \E p \in People : SplitFull(p)
    BY <1>1, <1>2, <2>1, FullIsExact DEF SplitFull
  <2>2. ASSUME NEW who \in (SUBSET People) \ {{}}, SplitEqually(who) PROVE PlanRight(bill, split')
    BY <1>1, <1>2, <2>2, EqualIsExact DEF SplitEqually
  <2>3. ASSUME NEW who \in (SUBSET People) \ {{}},
               NEW first \in Claims(who, 1), NEW last \in Claims(who, Cardinality(Lines)),
               SplitByItems(who, [i \in Lines |-> IF i = 1 THEN first ELSE last])
        PROVE  PlanRight(bill, split')
    <3> DEFINE claims == [i \in Lines |-> IF i = 1 THEN first ELSE last]
    <3>1. ClaimsRight(who, claims)
      BY <1>1, <1>2, ClaimsAreRight
    <3>2. Complete(claims) /\ Plan("ITEMS", claims, ByItems(who, claims))
      BY <2>3 DEF SplitByItems
    <3> HIDE DEF claims
    <3> QED BY <1>1, <1>2, <3>1, <3>2, ItemsAreExact
  <2>4. ASSUME NEW p \in People, NEW q \in People, NEW a \in Some \cup {0}, a <= Outstanding,
               SplitCustom([r \in {p, q} |-> IF r = p THEN a ELSE Outstanding - a])
        PROVE  PlanRight(bill, split')
    <3> DEFINE amount == [r \in {p, q} |-> IF r = p THEN a ELSE Outstanding - a]
    <3>1. SumOver(amount) = Outstanding /\ Plan("CUSTOM", NoClaims, amount)
      BY <2>4 DEF SplitCustom
    <3>2. amount = [r \in {p, q} |-> IF r = p THEN a ELSE Outstanding - a]
      OBVIOUS
    <3> HIDE DEF amount
    <3> QED BY <1>1, <1>2, <2>4, <3>1, <3>2, CustomIsExact
  <2> QED BY <2>1, <2>2, <2>3, <2>4 DEF PreviewSplit
<1>4. PaymentsRight'
  <2>1. \A p \in People : ~ linked[p]
    BY <1>1, <1>2 DEF PaymentsRight
  <2> QED BY <1>1, <1>2, <1>3, <2>1 DEF PaymentsRight, PlanRight, Invoiced
<1>5. Undeclared' = Undeclared
  BY <1>2 DEF Undeclared, Invoiced
<1> QED BY <1>2, <1>3, <1>4, <1>5 DEF DividingInv

(* Every step.                                                             *)
LEMMA DividingKeeps == DividingInv /\ [DividingStep]_dividingVars => DividingInv'
<1> SUFFICES ASSUME DividingInv, [DividingStep]_dividingVars PROVE DividingInv'
  OBVIOUS
<1>1. CASE PreviewSplit
  BY <1>1, PreviewKeeps
<1>2. ASSUME NEW p \in People, PayShare(p) PROVE DividingInv'
  <2>1. split # Nothing /\ p \in DOMAIN split.amount /\ Pay(p, split.amount[p], TRUE)
    BY <1>2 DEF PayShare
  <2>2. split.amount[p] \in Int
    BY <2>1 DEF DividingInv, PlanRight
  <2> QED BY <2>1, <2>2, PayKeeps
<1>3. ASSUME NEW p \in People, NEW a \in Some, PayFreely(p, a) PROVE DividingInv'
  <2>1. Pay(p, a, FALSE)
    BY <1>3 DEF PayFreely
  <2>2. a \in Int
    BY DividingAssumption
  <2> QED BY <2>1, <2>2, PayKeeps
<1>4. ASSUME NEW p \in People, Invoice(p) PROVE DividingInv'
  BY <1>4, InvoiceKeeps
<1>5. CASE UNCHANGED dividingVars
  <2>1. UNCHANGED <<bill, split, paid, linked, declared>>
    BY <1>5 DEF dividingVars
  <2>2. PaymentsRight'
    BY <2>1 DEF DividingInv, PaymentsRight, Invoiced
  <2>3. Undeclared' = Undeclared
    BY <2>1 DEF Undeclared, Invoiced
  <2> QED BY <2>1, <2>2, <2>3 DEF DividingInv
<1> QED BY <1>1, <1>2, <1>3, <1>4, <1>5 DEF DividingStep

(* The invariant holds of every bill, plan, payment and invoice, in any    *)
(* order.                                                                  *)
THEOREM DividingInvariant == DividingSpec => []DividingInv
<1>1. DividingInit => DividingInv
  BY DividingStarts
<1> QED BY <1>1, DividingKeeps, PTL DEF DividingSpec

(* splitEngine.js, "Exactness is structural": every plan divides what was  *)
(* left of the bill to the céntimo, and by items nobody owes for what they *)
(* did not claim, nor is off by more than two céntimos a claim, for any    *)
(* lines, people, claims and currency.                                     *)
THEOREM SplitExact == DividingSpec => []SplitIsExact
<1>1. DividingInv => SplitIsExact
  BY PlanIsExact DEF DividingInv
<1> QED BY <1>1, DividingInvariant, PTL

(* fiscalAllocation.js, "N facturas que suman exactamente la cuenta":      *)
(* whoever pays what and whichever payment is invoiced first, the invoices *)
(* are of what was paid, overdraw no slot of the bill and end by declaring *)
(* all of it.                                                              *)
THEOREM DeclaredExactly == DividingSpec => []DeclaredToTheCentimo
BY DeclaredFollows, DividingInvariant, PTL

(* The plan, the payments and the invoices keep their types.               *)
THEOREM DividingTypeCorrect == DividingSpec => []DividingTypeOK
<1>1. DividingInv => DividingTypeOK
  BY DEF DividingInv, PaymentsRight, DividingTypeOK
<1> QED BY <1>1, DividingInvariant, PTL
=============================================================================
