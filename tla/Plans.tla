------------------------------- MODULE Plans -------------------------------
(***************************************************************************)
(* The plan of a restaurant and what it lets it do (plans.js,              *)
(* entitlements.js, middleware/plan.js, scripts/plan.js).  A plan is       *)
(* changed from the command line or from the console, in one transaction   *)
(* that locks the restaurant, counts what the new plan would take away,    *)
(* and writes the plan together with the audit entry that is the only      *)
(* trace of it.  Issuing an invoice asks for the plan first and, in a      *)
(* later transaction, inserts a row that references the restaurant: it     *)
(* waits for whoever holds the row FOR UPDATE.                             *)
(***************************************************************************)
EXTENDS Naturals, Sequences, SequencesExt

CONSTANTS Ladder, Invoicing,   \* Invoicing: the tiers that include fiscalInvoicing
          Trial,              \* the tier of a trial
          Changes,            \* changes of plan under way
          Issues,             \* invoices
          MaxEntries          \* bound: entries of the audit

ASSUME PlansAssumption ==
  Invoicing \subseteq Ladder /\ Trial \in Ladder \ Invoicing /\ MaxEntries \in Nat

VARIABLES
  tier, trialEnds,   \* restaurants.plan_tier; is there a trial_ends_at?
  trail,             \* audit_logs PLAN_CHANGED: [from, to, forced, used]
  changes,           \* [step, to, forced, days, from, used]
  issues             \* "NONE", "ALLOWED" by the plan, "INSERTED", "ISSUED"
planVars == <<tier, trialEnds, trail, changes, issues>>

NoChange == [step |-> "NONE"]
Change == [step : {"ASKED", "LOCKED", "COUNTED"}, to : Ladder, forced : BOOLEAN, days : BOOLEAN,
           from : Ladder, used : BOOLEAN]
Entry == [from : Ladder, to : Ladder, forced : BOOLEAN, used : BOOLEAN]

PlansTypeOK ==
  /\ tier \in Ladder /\ trialEnds \in BOOLEAN
  /\ trail \in Seq(Entry) /\ Len(trail) <= MaxEntries
  /\ changes \in [Changes -> Change \cup {NoChange}]
  /\ issues \in [Issues -> {"NONE", "ALLOWED", "INSERTED", "ISSUED"}]

PlansInit ==
  /\ tier = Trial /\ trialEnds = TRUE /\ trail = <<>>
  /\ changes = [c \in Changes |-> NoChange]
  /\ issues = [i \in Issues |-> "NONE"]

Issued == \E i \in Issues : issues[i] = "ISSUED"

-----------------------------------------------------------------------------
(* FOR UPDATE on the restaurant, and the FOR KEY SHARE of a foreign key.   *)

(* Wrong: the row is not locked.                                           *)
NobodyHolds == FALSE
LockedForChange == \E c \in Changes : changes[c].step \in {"LOCKED", "COUNTED"}
Lockable == ~LockedForChange /\ \A i \in Issues : issues[i] # "INSERTED"

(* From the console.  The command line looks the restaurant up first, and  *)
(* asks for nothing when it has that plan already.                         *)
AskChange(c, to, forced, days) ==
  /\ changes[c] = NoChange /\ Len(trail) < MaxEntries
  /\ changes' = [changes EXCEPT ![c] = [step |-> "ASKED", to |-> to, forced |-> forced,
                                        days |-> days, from |-> tier, used |-> FALSE]]
  /\ UNCHANGED <<tier, trialEnds, trail, issues>>

Lock(c) ==
  /\ changes[c].step = "ASKED" /\ Lockable /\ Len(trail) < MaxEntries
  /\ changes' = [changes EXCEPT ![c].step = "LOCKED", ![c].from = tier]
  /\ UNCHANGED <<tier, trialEnds, trail, issues>>

Loses(c) == changes[c].from \in Invoicing /\ changes[c].to \notin Invoicing

(* USAGE is asked only of a capability that is enforced and would be lost. *)
Count(c) ==
  /\ changes[c].step = "LOCKED"
  /\ LET used == Loses(c) /\ Issued
     IN changes' = [changes EXCEPT ![c] = IF used /\ ~changes[c].forced THEN NoChange
                                          ELSE [@ EXCEPT !.step = "COUNTED", !.used = used]]
  /\ UNCHANGED <<tier, trialEnds, trail, issues>>

Write(c) ==
  /\ changes[c].step = "COUNTED" /\ Len(trail) < MaxEntries
  /\ tier' = changes[c].to
  /\ trialEnds' = (tier' = Trial /\ (changes[c].days \/ trialEnds))
  /\ trail' = Append(trail, [from |-> changes[c].from, to |-> changes[c].to,
                             forced |-> changes[c].used, used |-> Loses(c) /\ Issued])
  /\ changes' = [changes EXCEPT ![c] = NoChange]
  /\ UNCHANGED issues

(* The audit entry cannot be written, or the process dies: all of it is    *)
(* undone.                                                                 *)
UndoChange(c) ==
  /\ changes[c] # NoChange
  /\ changes' = [changes EXCEPT ![c] = NoChange]
  /\ UNCHANGED <<tier, trialEnds, trail, issues>>

-----------------------------------------------------------------------------
(* requirePlan, assertPlanAllows: the plan is read on each request.        *)
PlanAllows(i) ==
  /\ issues[i] = "NONE" /\ tier \in Invoicing
  /\ issues' = [issues EXCEPT ![i] = "ALLOWED"]
  /\ UNCHANGED <<tier, trialEnds, trail, changes>>

InsertInvoice(i) ==
  /\ issues[i] = "ALLOWED" /\ ~LockedForChange
  /\ issues' = [issues EXCEPT ![i] = "INSERTED"]
  /\ UNCHANGED <<tier, trialEnds, trail, changes>>

CommitInvoice(i) ==
  /\ issues[i] = "INSERTED"
  /\ issues' = [issues EXCEPT ![i] = "ISSUED"]
  /\ UNCHANGED <<tier, trialEnds, trail, changes>>

DropInvoice(i) ==
  /\ issues[i] \in {"ALLOWED", "INSERTED"}
  /\ issues' = [issues EXCEPT ![i] = "NONE"]
  /\ UNCHANGED <<tier, trialEnds, trail, changes>>

-----------------------------------------------------------------------------
PlansStep ==
  \/ \E c \in Changes : Lock(c) \/ Count(c) \/ Write(c) \/ UndoChange(c)
  \/ \E c \in Changes, to \in Ladder, forced, days \in BOOLEAN : AskChange(c, to, forced, days)
  \/ \E i \in Issues : PlanAllows(i) \/ InsertInvoice(i) \/ CommitInvoice(i) \/ DropInvoice(i)

PlansSpec == PlansInit /\ [][PlansStep]_planVars

-----------------------------------------------------------------------------
(* The trail is the whole story of the plan: each entry starts where the   *)
(* one before it ended and the last one ended in today's plan, and no      *)
(* entry takes invoicing from a restaurant that has issued an invoice      *)
(* without saying that it was forced, whoever changed it at the same time  *)
(* (plans.js: FOR UPDATE, "o el rastro diría que se pasó de un plan del    *)
(* que ya no se venía").                                                   *)
TrailIsTheStory ==
  /\ \A k \in 1..Len(trail) : trail[k].from = IF k = 1 THEN Trial ELSE trail[k - 1].to
  /\ tier = IF trail = <<>> THEN Trial ELSE Last(trail).to
  /\ \A k \in 1..Len(trail) : trail[k].used => trail[k].forced
=============================================================================
