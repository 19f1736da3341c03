---------------------------- MODULE Subscriptions ----------------------------
(***************************************************************************)
(* What a restaurant owes for using the system (services/platformBilling,  *)
(* billingRun and subscriptionNotices): a charge for each period, renewed  *)
(* and reminded of by a nightly pass, payments recorded by operators or    *)
(* confirmed from the notices of the restaurant.                           *)
(*                                                                         *)
(* One restaurant is modelled; two share nothing here but the price list.  *)
(* A day is a number, and a period is counted in days.                     *)
(***************************************************************************)
EXTENDS Integers, FiniteSets, FiniteSetsExt

CONSTANTS
  Charges,      \* charges that may ever be made
  Notices,      \* "I have paid", sent by the restaurant
  Operators,    \* transactions of the console at once
  Passes,       \* nightly passes, which may overlap or be started by hand
  Tiers,        \* the plans in use, TRIAL among them
  Statuses,     \* the standings in use
  Starts,       \* days an operator may ask a period to start on
  Length,       \* [cycles -> days of a period]
  Agreed,       \* whether a price may be agreed with the restaurant
  Listed,       \* paid tiers with a price in the list
  Amount,       \* what a period costs
  DueDays, Week,
  CatchUp,      \* periods a pass catches up with at most
  LastDay,      \* bound: the days that are looked at
  MaxAtOnce,    \* bound: transactions and passes under way at once
  MaxApplied,   \* bound: money recorded for one charge
  MaxUnheard,   \* bound: answers of the mail provider that are lost, once a reminder lost so many
  None

Cycles == DOMAIN Length
Kinds == {"ISSUED", "OVERDUE", "OVERDUE_7"}

ASSUME SubscriptionsAssumption ==
  /\ IsFiniteSet(Charges)
  /\ "TRIAL" \in Tiers /\ Listed \subseteq Tiers \ {"TRIAL"}
  /\ "ACTIVE" \in Statuses /\ Statuses \subseteq {"ACTIVE", "SUSPENDED", "CANCELLED"}
  /\ FALSE \in Agreed /\ Agreed \subseteq BOOLEAN
  /\ Starts \subseteq Nat /\ Length \in [Cycles -> Nat \ {0}]
  /\ Amount \in Nat \ {0} /\ DueDays \in Nat /\ Week \in Nat \ {0}
  /\ CatchUp \in Nat \ {0} /\ LastDay \in Nat /\ MaxAtOnce \in Nat /\ MaxApplied \in Nat
  /\ MaxUnheard \in Nat
  /\ None \notin Charges /\ None \notin Notices

VARIABLES
  today,
  client,      \* the plan of the restaurant and its subscription
  charges,
  applied,     \* the sum of the payments recorded for a charge
  notices,
  paidFor,     \* payments recorded from a notice
  settledShort,    \* charges an operator settled with less, by the audit
  transactions,    \* void or payment transactions that wait for their charge
  passes,
  marks,       \* billing_reminders: the reminders a charge has had
  sent,        \* the mails the owner got, of which the pass heard
  unheard      \* the mails the owner got although the pass was told they failed

billing == <<charges, applied, notices, paidFor, settledShort, transactions>>
nightly == <<passes, marks, sent, unheard>>
billingVars == <<today, client, billing, nightly>>

Charge == [start : Nat, end : Nat, status : {"OPEN", "PAID", "VOID"}]
Notice == [charge : Charges \cup {None}, status : {"PENDING", "CONFIRMED", "REJECTED"}]
Transaction == [kind : {"VOID", "PAY"}, charge : Charges \cup {None},
            notice : Notices \cup {None}, seen : 0..MaxApplied]
Mail == [charge : Charges, kind : Kinds, marked : SUBSET Kinds]
Pass == [day : 0..LastDay, rounds : 0..CatchUp, todo : SUBSET Charges,
         step : {"RENEW", "REMIND"}, mail : Mail \cup {None}]

ASSUME NoneIsNoRow == None \notin Notice

BillingTypeOK ==
  /\ today \in 0..LastDay
  /\ client \in [tier : Tiers, status : Statuses, cycle : Cycles, agreed : Agreed]
  /\ charges \in [Charges -> Charge \cup {None}]
  /\ applied \in [Charges -> 0..MaxApplied]
  /\ notices \in [Notices -> Notice \cup {None}]
  /\ paidFor \in [Notices -> Nat]
  /\ settledShort \subseteq Charges
  /\ transactions \in [Operators -> Transaction \cup {None}]
  /\ passes \in [Passes -> Pass \cup {None}]
  /\ marks \in [Charges -> SUBSET Kinds]
  /\ sent \in [Charges -> [Kinds -> Nat]] /\ unheard \in [Charges -> [Kinds -> Nat]]

BillingInit ==
  /\ today = 0
  /\ \E c \in Cycles :
       client = [tier |-> "TRIAL", status |-> "ACTIVE", cycle |-> c, agreed |-> FALSE]
  /\ charges = [c \in Charges |-> None] /\ applied = [c \in Charges |-> 0]
  /\ notices = [n \in Notices |-> None] /\ paidFor = [n \in Notices |-> 0]
  /\ settledShort = {} /\ transactions = [o \in Operators |-> None]
  /\ passes = [p \in Passes |-> None]
  /\ marks = [c \in Charges |-> {}]
  /\ sent = [c \in Charges |-> [k \in Kinds |-> 0]] /\ unheard = sent

-----------------------------------------------------------------------------
(* What the rows say.                                                      *)

Live(c) == charges[c] # None /\ charges[c].status # "VOID"
Open(c) == charges[c] # None /\ charges[c].status = "OPEN"
Due(c) == charges[c].start + DueDays

(* The end of the last live period, or None before the first charge.       *)
Ends == {charges[c].end : c \in {d \in Charges : Live(d)}}
LastEnd == IF Ends = {} THEN None ELSE Max(Ends)

(* An agreed price goes before the list, also during a trial.              *)
HasPrice == client.agreed \/ client.tier \in Listed

Busy == {o \in Operators : transactions[o] # None} \cup {p \in Passes : passes[p] # None}
MayBegin == Cardinality(Busy) < MaxAtOnce

-----------------------------------------------------------------------------
(* The console: plan and subscription, each under the lock of the          *)
(* restaurant.  A change of plan that would be blocked may be forced.      *)

NextDay == today < LastDay /\ today' = today + 1 /\ UNCHANGED <<client, billing, nightly>>

ChangePlan(tier) ==
  /\ client' = [client EXCEPT !.tier = tier]
  /\ UNCHANGED <<today, billing, nightly>>

UpdateSubscription(status, cycle, agreed) ==
  /\ client' = [client EXCEPT !.status = status, !.cycle = cycle, !.agreed = agreed]
  /\ UNCHANGED <<today, billing, nightly>>

(* createCharge: without a start that is asked for, the period follows the *)
(* last live one.  One live charge per start (the unique index).           *)
NextStart == IF LastEnd = None THEN today ELSE LastEnd

NewCharge(c, start) ==
  /\ charges[c] = None /\ HasPrice
  /\ ~\E d \in Charges : Live(d) /\ charges[d].start = start
  /\ charges' = [charges EXCEPT ![c] =
       [start |-> start, end |-> start + Length[client.cycle], status |-> "OPEN"]]
  /\ UNCHANGED <<applied, notices, paidFor, settledShort, transactions>>

CreateCharge(c) ==
  /\ \E start \in {NextStart} \cup Starts : NewCharge(c, start)
  /\ UNCHANGED <<today, client, nightly>>

-----------------------------------------------------------------------------
(* Voids and payments.  lockCharge waits for the row of the charge, and    *)
(* reads its status under the lock; the sum of its payments is a subquery  *)
(* and comes from the snapshot taken before the wait.                      *)

Enter(o, kind, c, n) ==
  transactions' = [transactions EXCEPT ![o] =
    [kind |-> kind, charge |-> c, notice |-> n, seen |-> IF c = None THEN 0 ELSE applied[c]]]

AskVoid(o, c) ==
  /\ MayBegin /\ transactions[o] = None /\ charges[c] # None
  /\ Enter(o, "VOID", c, None)
  /\ UNCHANGED <<today, client, charges, applied, notices, paidFor, settledShort, nightly>>

AskPayment(o, c) ==
  /\ MayBegin /\ transactions[o] = None /\ charges[c] # None
  /\ Enter(o, "PAY", c, None)
  /\ UNCHANGED <<today, client, charges, applied, notices, paidFor, settledShort, nightly>>

(* confirmNotice, with the notice locked: the money is in the bank, so a   *)
(* charge that was closed meanwhile leaves the payment on account.         *)
NoticeLocked(n) == \E o \in Operators : transactions[o] # None /\ transactions[o].notice = n
(* Wrong: the notice read before the transaction is believed.              *)
ConfirmableSent(n) == notices[n] # None
Confirmable(n) == notices[n] # None /\ notices[n].status = "PENDING" /\ ~NoticeLocked(n)

AskConfirm(o, n) ==
  LET c == notices[n].charge IN
  /\ MayBegin /\ transactions[o] = None /\ Confirmable(n)
  /\ Enter(o, "PAY", IF c # None /\ Open(c) THEN c ELSE None, n)
  /\ UNCHANGED <<today, client, charges, applied, notices, paidFor, settledShort, nightly>>

Takes(c) == c # None => Open(c)

Done(o) == transactions' = [transactions EXCEPT ![o] = None]
(* Wrong: the sum is read after the payment was inserted, and it is added  *)
(* again.                                                                  *)
CoversTwice(r, amount) == r.seen + amount + amount >= Amount
Covers(r, amount) == r.seen + amount >= Amount

VoidCharge(o) ==
  LET r == transactions[o] IN
  /\ r # None /\ r.kind = "VOID" /\ Takes(r.charge) /\ r.seen = 0
  /\ charges' = [charges EXCEPT ![r.charge].status = "VOID"]
  /\ Done(o)
  /\ UNCHANGED <<today, client, applied, notices, paidFor, settledShort, nightly>>

(* An operator may settle a charge with what a payment brings (settle).    *)
RecordPayment(o, amount, settle) ==
  LET r == transactions[o] c == r.charge IN
  /\ r # None /\ r.kind = "PAY" /\ Takes(c)
  /\ c # None => applied[c] + amount <= MaxApplied
  /\ applied' = IF c = None THEN applied ELSE [applied EXCEPT ![c] = @ + amount]
  /\ charges' = IF c # None /\ (Covers(r, amount) \/ settle)
                THEN [charges EXCEPT ![c].status = "PAID"] ELSE charges
  /\ settledShort' = settledShort \cup
                     {d \in {c} \ {None} : settle /\ ~Covers(r, amount)}
  /\ notices' = IF r.notice = None THEN notices
                ELSE [notices EXCEPT ![r.notice].status = "CONFIRMED"]
  /\ paidFor' = IF r.notice = None THEN paidFor ELSE [paidFor EXCEPT ![r.notice] = @ + 1]
  /\ Done(o)
  /\ UNCHANGED <<today, client, nightly>>

(* Refused, or lost with the process: all of it is undone.                 *)
Undo(o) ==
  /\ transactions[o] # None
  /\ Done(o)
  /\ UNCHANGED <<today, client, charges, applied, notices, paidFor, settledShort, nightly>>

SubmitNotice(n, c) ==
  /\ notices[n] = None /\ Takes(c)
  /\ notices' = [notices EXCEPT ![n] = [charge |-> c, status |-> "PENDING"]]
  /\ UNCHANGED <<today, client, charges, applied, paidFor, settledShort, transactions, nightly>>

RejectNotice(n) ==
  /\ Confirmable(n)
  /\ notices' = [notices EXCEPT ![n].status = "REJECTED"]
  /\ UNCHANGED <<today, client, charges, applied, paidFor, settledShort, transactions, nightly>>

-----------------------------------------------------------------------------
(* The nightly pass: who is to be renewed is read first, each charge is    *)
(* made in a transaction of its own; then the open charges are read and    *)
(* reminded of one by one.                                                 *)

At(p, step) == passes[p] # None /\ passes[p].step = step
Renewable == client.tier # "TRIAL" /\ client.status = "ACTIVE" /\ Ends # {}

BeginPass(p) ==
  /\ MayBegin /\ passes[p] = None
  /\ passes' = [passes EXCEPT ![p] =
       [day |-> today, step |-> "RENEW", todo |-> {}, mail |-> None,
        rounds |-> IF Renewable /\ Max(Ends) <= today THEN CatchUp ELSE 0]]
  /\ UNCHANGED <<today, client, billing, marks, sent, unheard>>

Renew(p, c) ==
  /\ At(p, "RENEW") /\ passes[p].rounds > 0
  /\ NewCharge(c, NextStart)
  /\ passes' = [passes EXCEPT ![p].rounds =
       IF charges'[c].end > passes[p].day THEN 0 ELSE @ - 1]
  /\ UNCHANGED <<today, client, marks, sent, unheard>>

SkipRenewal(p) ==
  /\ At(p, "RENEW") /\ passes[p].rounds > 0 /\ ~HasPrice
  /\ passes' = [passes EXCEPT ![p].rounds = 0]
  /\ UNCHANGED <<today, client, billing, marks, sent, unheard>>

BeginReminders(p) ==
  /\ At(p, "RENEW") /\ passes[p].rounds = 0
  /\ passes' = [passes EXCEPT ![p].step = "REMIND", ![p].todo = {c \in Charges : Open(c)}]
  /\ UNCHANGED <<today, client, billing, marks, sent, unheard>>

(* dueKind: the strongest that applies on the day of the pass.             *)
DueKind(c, day) ==
  IF Due(c) <= day - Week THEN "OVERDUE_7" ELSE IF Due(c) < day THEN "OVERDUE" ELSE "ISSUED"
UpTo(kind) ==
  CASE kind = "ISSUED" -> {"ISSUED"} [] kind = "OVERDUE" -> {"ISSUED", "OVERDUE"} [] OTHER -> Kinds

(* The reminder and all weaker ones are marked before the mail goes out,   *)
(* and only who marked it sends it.                                        *)
(* Wrong: the mail is sent whoever marked it.                              *)
MailAlways(p, c) == [charge |-> c, kind |-> DueKind(c, passes[p].day), marked |-> {}]
MailFor(p, c) ==
  LET kind == DueKind(c, passes[p].day) IN
  IF kind \in marks[c] THEN None
  ELSE [charge |-> c, kind |-> kind, marked |-> UpTo(kind) \ marks[c]]

MarkReminder(p, c) ==
  /\ At(p, "REMIND") /\ passes[p].mail = None /\ c \in passes[p].todo
  /\ marks' = [marks EXCEPT ![c] = @ \cup UpTo(DueKind(c, passes[p].day))]
  /\ passes' = [passes EXCEPT ![p].todo = @ \ {c}, ![p].mail = MailFor(p, c)]
  /\ UNCHANGED <<today, client, billing, sent, unheard>>

MailSent(p) ==
  LET m == passes[p].mail IN
  /\ At(p, "REMIND") /\ m # None
  /\ sent' = [sent EXCEPT ![m.charge][m.kind] = @ + 1]
  /\ passes' = [passes EXCEPT ![p].mail = None]
  /\ UNCHANGED <<today, client, billing, marks, unheard>>

(* What this pass marked is unmarked, for the next one to try again.       *)
MailFailed(p) ==
  LET m == passes[p].mail IN
  /\ At(p, "REMIND") /\ m # None
  /\ marks' = [marks EXCEPT ![m.charge] = @ \ m.marked]
  /\ passes' = [passes EXCEPT ![p].mail = None]
  /\ UNCHANGED <<today, client, billing, sent, unheard>>

(* The mail went out, but the answer of the provider timed out or was      *)
(* lost: sendMail says it failed, and the next pass mails again.           *)
MailUnheard(p) ==
  LET m == passes[p].mail IN
  /\ At(p, "REMIND") /\ m # None
  /\ \A c \in Charges, k \in Kinds : unheard[c][k] < MaxUnheard
  /\ unheard' = [unheard EXCEPT ![m.charge][m.kind] = @ + 1]
  /\ marks' = [marks EXCEPT ![m.charge] = @ \ m.marked]
  /\ passes' = [passes EXCEPT ![p].mail = None]
  /\ UNCHANGED <<today, client, billing, sent>>

FinishPass(p) ==
  /\ At(p, "REMIND") /\ passes[p].todo = {} /\ passes[p].mail = None
  /\ passes' = [passes EXCEPT ![p] = None]
  /\ UNCHANGED <<today, client, billing, marks, sent, unheard>>

LosePass(p) ==
  /\ passes[p] # None
  /\ passes' = [passes EXCEPT ![p] = None]
  /\ UNCHANGED <<today, client, billing, marks, sent, unheard>>

-----------------------------------------------------------------------------
Console ==
  \/ \E tier \in Tiers : ChangePlan(tier)
  \/ \E status \in Statuses, cycle \in Cycles, agreed \in Agreed :
       UpdateSubscription(status, cycle, agreed)
  \/ \E c \in Charges : CreateCharge(c)
  \/ \E n \in Notices : RejectNotice(n)
  \/ \E o \in Operators :
       \/ VoidCharge(o) \/ Undo(o)
       \/ \E amount \in 1..Amount, settle \in BOOLEAN : RecordPayment(o, amount, settle)
       \/ \E c \in Charges : AskVoid(o, c) \/ AskPayment(o, c)
       \/ \E n \in Notices : AskConfirm(o, n)

Night(p) ==
  \/ BeginPass(p) \/ SkipRenewal(p) \/ BeginReminders(p)
  \/ MailSent(p) \/ MailFailed(p) \/ MailUnheard(p) \/ FinishPass(p) \/ LosePass(p)
  \/ \E c \in Charges : Renew(p, c) \/ MarkReminder(p, c)

BillingStep ==
  \/ NextDay \/ Console
  \/ \E n \in Notices, c \in Charges \cup {None} : SubmitNotice(n, c)
  \/ \E p \in Passes : Night(p)

BillingSpec == BillingInit /\ [][BillingStep]_billingVars

-----------------------------------------------------------------------------
(* Properties.                                                             *)

(* "El aviso no es un pago": what becomes of a notice is decided once, and *)
(* a confirmed one is exactly one payment, whoever else confirms or        *)
(* rejects it at the same time and whatever was undone.                    *)
NoticePaidOnce ==
  \A n \in Notices :
    paidFor[n] = IF notices[n] # None /\ notices[n].status = "CONFIRMED" THEN 1 ELSE 0

(* A charge reads paid only when the payments recorded for it cover it, or *)
(* when the audit says it was settled short: the sum that decides is from  *)
(* before the wait for the charge, and another operator may have paid,     *)
(* settled or voided it since.                                             *)
PaidIsExplained ==
  \A c \in Charges :
    charges[c] # None /\ charges[c].status = "PAID" => applied[c] >= Amount \/ c \in settledShort

(* "Tres correos como mucho por cargo, cada uno una sola vez"              *)
(* (billingRun.js), with passes that overlap, fail and die: once a pass    *)
(* heard that a reminder went, nobody mails it again. Only a mail whose    *)
(* answer was lost is mailed once more.                                    *)
RemindedOnce ==
  [][\A c \in Charges, k \in Kinds :
       sent[c][k] > 0 => sent'[c][k] = sent[c][k] /\ unheard'[c][k] = unheard[c][k]]_billingVars
=============================================================================
