------------------------------ MODULE Reports ------------------------------
(***************************************************************************)
(* What the staff read of the money: the tips of a shift, and the feed of  *)
(* payments that a screen polls (tips.js, dashboard.js, routes/payments.js)*)
(* and, because the tips of a bill are those of whoever serves it *now*,   *)
(* who serves a bill (PATCH /bills/:id/server).                            *)
(*                                                                         *)
(* A row is stamped with NOW(), which in PostgreSQL is the moment its      *)
(* transaction began, and is seen by others once the transaction commits:  *)
(* between the two the clock runs on.  A report reads in three statements, *)
(* and the answer of a poll carries the clock of the server at a moment    *)
(* after its statement ran.                                                *)
(*                                                                         *)
(* Shift w is the window [w, w + 1).  Refunds are not in the program.      *)
(***************************************************************************)
EXTENDS Integers, FiniteSets, FiniteSetsExt

CONSTANTS Payments, Bills, BillOf,   \* BillOf[p]: the bill p pays
          Waiters, Managers,         \* disjoint sets of people
          Patches,                   \* requests to change who serves a bill
          Limit,                     \* entries of a page of the feed
          LastMoment,                \* bound: the clock stops here
          NoOne

ASSUME ReportsAssumption ==
  /\ BillOf \in [Payments -> Bills]
  /\ Waiters \cap Managers = {} /\ NoOne \notin Waiters \cup Managers
  /\ Limit \in Nat \ {0} /\ LastMoment \in Nat

VARIABLES
  clock,
  payment,    \* the payments as committed: [status, declared, settled]
  writing,    \* the transactions on them: NoOne, or [to, at]
  served,     \* bills.served_by
  patches,    \* [by, to, bill, step]
  report,     \* the report being read
  counted,    \* the payments whose tips the reports of each shift added up
  feed,       \* the client that polls: [since, rows, step]
  found,      \* the settled payments that the statements of its polls could see
  shown       \* those it was shown

money == <<payment, writing>>
serving == <<served, patches>>
reading == <<report, counted>>
polling == <<feed, found, shown>>
reportVars == <<clock, money, serving, reading, polling>>

Staff == Waiters \cup Managers
Moments == 0..LastMoment
Shifts == Moments
Idle == [step |-> "IDLE"]
Patch == [by : Staff, to : Staff \cup {NoOne}, bill : Bills, step : {"CHECKED", "LOCKED"}]
ReportRead == [shift : Shifts, total : SUBSET Payments, byServer : SUBSET Payments,
            step : {"METHODS", "SERVERS"}]

ReportsTypeOK ==
  /\ clock \in Moments
  /\ payment \in [Payments -> [status : {"NONE", "PENDING", "SUCCEEDED"},
                           declared : Moments, settled : Moments]]
  /\ writing \in [Payments -> [to : {"PENDING", "SUCCEEDED"}, at : Moments] \cup {NoOne}]
  /\ served \in [Bills -> Staff \cup {NoOne}]
  /\ patches \in [Patches -> Patch \cup {Idle}]
  /\ report \in ReportRead \cup {Idle}
  /\ counted \in [Shifts -> SUBSET Payments]
  /\ feed \in [since : Moments \cup {NoOne}, rows : SUBSET Payments, step : {"IDLE", "READ"}]
  /\ found \subseteq Payments /\ shown \subseteq Payments

ReportsInit ==
  /\ clock = 0
  /\ payment = [p \in Payments |-> [status |-> "NONE", declared |-> 0, settled |-> 0]]
  /\ writing = [p \in Payments |-> NoOne]
  /\ served \in [Bills -> Waiters \cup {NoOne}]
  /\ patches = [q \in Patches |-> Idle]
  /\ report = Idle /\ counted = [w \in Shifts |-> {}]
  /\ feed = [since |-> NoOne, rows |-> {}, step |-> "IDLE"]
  /\ found = {} /\ shown = {}

Pass ==
  /\ clock < LastMoment /\ clock' = clock + 1
  /\ UNCHANGED <<money, serving, reading, polling>>

-----------------------------------------------------------------------------
(* Money: a declaration writes a PENDING payment, and a confirmation, a    *)
(* charge or a sale at the till one that has SUCCEEDED.                    *)

Begin(p, to) ==
  /\ writing[p] = NoOne /\ payment[p].status # to /\ payment[p].status # "SUCCEEDED"
  /\ writing' = [writing EXCEPT ![p] = [to |-> to, at |-> clock]]
  /\ UNCHANGED <<clock, payment, serving, reading, polling>>

Commit(p) ==
  /\ writing[p] # NoOne
  /\ payment' = [payment EXCEPT ![p].status = writing[p].to,
                        ![p].declared = IF writing[p].to = "PENDING" THEN writing[p].at ELSE @,
                        ![p].settled = IF writing[p].to = "SUCCEEDED" THEN writing[p].at ELSE @]
  /\ writing' = [writing EXCEPT ![p] = NoOne]
  /\ UNCHANGED <<clock, serving, reading, polling>>

-----------------------------------------------------------------------------
(* Who serves a bill.  Anybody may take a bill that nobody serves, for     *)
(* themselves; only a manager corrects.  The waiter's request reads the    *)
(* bill FOR UPDATE and writes it in the same transaction.                  *)

LockedBy(q, b) == patches[q].step = "LOCKED" /\ patches[q].bill = b

(* Wrong: the row is read without a lock.                                  *)
NeverLocked(b) == TRUE
BillFree(b) == \A q \in Patches : ~LockedBy(q, b)

AskServer(q, by, to, b) ==
  /\ patches[q] = Idle
  /\ patches' = [patches EXCEPT ![q] = [by |-> by, to |-> to, bill |-> b, step |-> "CHECKED"]]
  /\ UNCHANGED <<clock, money, served, reading, polling>>

ForThemselves(q) == patches[q].by \in Waiters
MayTake(q) == patches[q].to = patches[q].by /\ served[patches[q].bill] \in {NoOne, patches[q].by}

ReadServer(q) ==
  /\ patches[q].step = "CHECKED" /\ ForThemselves(q) /\ BillFree(patches[q].bill)
  /\ patches' = [patches EXCEPT ![q] = IF MayTake(q) THEN [@ EXCEPT !.step = "LOCKED"] ELSE Idle]
  /\ UNCHANGED <<clock, money, served, reading, polling>>

WriteServer(q) ==
  /\ \/ patches[q].step = "LOCKED"
     \/ patches[q].step = "CHECKED" /\ ~ForThemselves(q) /\ BillFree(patches[q].bill)
  /\ served' = [served EXCEPT ![patches[q].bill] = patches[q].to]
  /\ patches' = [patches EXCEPT ![q] = Idle]
  /\ UNCHANGED <<clock, money, reading, polling>>

-----------------------------------------------------------------------------
(* The tips of a shift: the total by method, then by who serves, then the  *)
(* bills nobody serves.                                                    *)

Within(w) == {p \in Payments : payment[p].status = "SUCCEEDED" /\ w <= payment[p].settled /\ payment[p].settled < w + 1}

ReadMethods(w) ==
  /\ report = Idle
  /\ report' = [shift |-> w, total |-> Within(w), byServer |-> {}, step |-> "METHODS"]
  /\ UNCHANGED <<clock, money, serving, counted, polling>>

ReadServers ==
  /\ report.step = "METHODS"
  /\ report' = [report EXCEPT !.byServer = Within(report.shift), !.step = "SERVERS"]
  /\ UNCHANGED <<clock, money, serving, counted, polling>>

(* The list of the bills nobody serves changes no figure of the report.    *)
Hand ==
  /\ report.step = "SERVERS"
  /\ counted' = [counted EXCEPT ![report.shift] = @ \cup report.total \cup report.byServer]
  /\ report' = Idle
  /\ UNCHANGED <<clock, money, serving, polling>>

-----------------------------------------------------------------------------
(* The feed.  Entries are ordered by their moment; with a cursor a page    *)
(* holds the oldest ones after it, without one the latest of all.          *)

Entries(since) ==
  {p \in Payments : \/ payment[p].status = "SUCCEEDED" /\ (since # NoOne => payment[p].settled > since)
                    \/ payment[p].status = "PENDING" /\ (since # NoOne => payment[p].declared > since)}
Moment(p) == IF payment[p].status = "PENDING" THEN payment[p].declared ELSE payment[p].settled

(* A page of the entries S: as many as fit, and none left out that comes   *)
(* before one that is in.                                                  *)
Page(S, latest) ==
  {T \in SUBSET S : /\ Cardinality(T) = (IF Cardinality(S) <= Limit THEN Cardinality(S) ELSE Limit)
                    /\ \A p \in T, q \in S \ T : IF latest THEN Moment(p) >= Moment(q)
                                                          ELSE Moment(p) <= Moment(q)}

Settled(S) == {p \in S : payment[p].status = "SUCCEEDED"}

Poll ==
  /\ feed.step = "IDLE"
  /\ \E T \in Page(Entries(feed.since), feed.since = NoOne) :
       feed' = [feed EXCEPT !.rows = Settled(T), !.step = "READ"]
  /\ found' = IF feed.since = NoOne THEN found ELSE found \cup Settled(Entries(feed.since))
  /\ UNCHANGED <<clock, money, serving, reading, shown>>

(* The answer: asOf is the clock now, and the client's next cursor.        *)
AnswerPoll ==
  /\ feed.step = "READ"
  /\ shown' = shown \cup feed.rows
  /\ feed' = [since |-> clock, rows |-> {}, step |-> "IDLE"]
  /\ UNCHANGED <<clock, money, serving, reading, found>>

-----------------------------------------------------------------------------
Paying == \E p \in Payments : Commit(p) \/ \E to \in {"PENDING", "SUCCEEDED"} : Begin(p, to)
Serving ==
  \E q \in Patches :
    \/ \E by \in Staff, to \in Staff \cup {NoOne}, b \in Bills : AskServer(q, by, to, b)
    \/ ReadServer(q) \/ WriteServer(q)
Tips == ReadServers \/ Hand \/ \E w \in Shifts : ReadMethods(w)
Watching == Poll \/ AnswerPoll
ReportsStep == Pass \/ Paying \/ Serving \/ Tips \/ Watching

ReportsSpec == ReportsInit /\ [][ReportsStep]_reportVars

-----------------------------------------------------------------------------
(* Consecutive shifts tile: however often the reports are asked for, while *)
(* payments settle and before the clock is through with a shift, no tip is *)
(* handed out with two of them (tips.js: half-open windows over the moment *)
(* a payment settled, and not the one it was declared).                    *)
TipsCountedOnce ==
  \A p \in Payments : Cardinality({w \in Shifts : p \in counted[w]}) <= 1

(* A waiter never takes a bill, and with it the tips, from a colleague:    *)
(* the server of a bill that has one is changed by managers only, also     *)
(* when two people claim the bill at once (routes/bills.js: FOR UPDATE).   *)
ClaimTakesFromNobody ==
  [][\A b \in Bills : served'[b] # served[b] /\ served[b] # NoOne =>
       \E q \in Patches : patches[q] # Idle /\ patches'[q] = Idle
                          /\ patches[q].bill = b /\ patches[q].by \in Managers]_reportVars

(* A screen that polls with the `asOf` of the previous answer is shown     *)
(* every payment that was there to be read when it polled, at once or with *)
(* a later page (dashboard.js: "the limit takes the *oldest* of those and  *)
(* the client walks forward").                                             *)
EveryPaymentIsShown ==
  feed.step = "IDLE" => \A p \in found : p \in shown \/ payment[p].settled > feed.since
=============================================================================
