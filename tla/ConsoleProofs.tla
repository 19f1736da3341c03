---------------------------- MODULE ConsoleProofs ----------------------------
(***************************************************************************)
(* What holds of the platform's own business: the charges of a restaurant, *)
(* its reminders and its notices (Subscriptions), the operators of the     *)
(* console (Operators), and the plan they change (Plans).  For any charges,*)
(* operators, passes, prices and days, any codes and people, any ladder of *)
(* plans and a trail of any length.                                        *)
(***************************************************************************)
EXTENDS Subscriptions, Operators, Plans, FiniteSetTheorems, TLAPS

(* Finitely many days have a last one: a smallest set without a last would *)
(* have one less some day.                                                 *)
LEMMA LastOfDays ==
  ASSUME NEW S \in SUBSET Int, IsFiniteSet(S), S # {}
  PROVE  Max(S) \in S
<1> DEFINE HasLast(T) == \E x \in T : \A y \in T : x >= y
           Bad == {T \in FiniteSubsetsOf(S) : T # {} /\ ~ HasLast(T)}
           R == StrictSubsetOrdering(S)
<1>1. IsWellFoundedOn(R, FiniteSubsetsOf(S))
  BY FS_StrictSubsetOrderingWellFounded
<1>2. ASSUME Bad # {} PROVE FALSE
  <2>1. PICK T \in Bad : \A U \in Bad : ~ (<<U, T>> \in R)
    <3> HIDE DEF R
    <3>1. Bad \subseteq FiniteSubsetsOf(S)
      OBVIOUS
    <3> HIDE DEF Bad
    <3> QED BY <1>1, <1>2, <3>1, WFMin
  <2>2. T \in SUBSET S /\ IsFiniteSet(T) /\ T # {} /\ ~ HasLast(T)
    BY <2>1 DEF FiniteSubsetsOf
  <2>3. PICK x \in T : TRUE
    BY <2>2
  <2> DEFINE U == T \ {x}
  <2>4. U \in SUBSET S /\ IsFiniteSet(U)
    BY <2>2, FS_Subset
  <2>5. <<U, T>> \in R
    BY <2>2, <2>3, <2>4 DEF StrictSubsetOrdering
  <2>6. U # {}
    <3> SUFFICES ASSUME U = {} PROVE FALSE
      OBVIOUS
    <3>1. \A y \in T : y = x /\ x \in Int
      BY <2>2
    <3>2. HasLast(T)
      BY <2>3, <3>1
    <3> QED BY <2>2, <3>2
  <2>7. HasLast(U)
    BY <2>1, <2>4, <2>5, <2>6 DEF FiniteSubsetsOf
  <2>8. PICK m \in U : \A y \in U : m >= y
    BY <2>7
  <2>9. m \in Int /\ x \in Int /\ \A y \in T : y \in Int /\ (y = x \/ y \in U)
    BY <2>2, <2>4
  <2>10. CASE m >= x
    BY <2>2, <2>8, <2>9, <2>10
  <2>11. CASE ~ (m >= x)
    <3>1. \A y \in T : x >= y
      BY <2>8, <2>9, <2>11
    <3> QED BY <2>2, <2>3, <3>1
  <2> QED BY <2>10, <2>11
<1>3. S \in FiniteSubsetsOf(S)
  BY DEF FiniteSubsetsOf
<1>4. HasLast(S)
  BY <1>2, <1>3
<1> QED BY <1>4 DEF Max

-----------------------------------------------------------------------------
(* The charges of a restaurant keep their types.                           *)

(* The next period starts on a day.                                        *)
LEMMA StartIsDay ==
  ASSUME BillingTypeOK PROVE NextStart \in Nat /\ Ends \in SUBSET Nat /\ IsFiniteSet(Ends)
<1> DEFINE live == {d \in Charges : Live(d)}
<1>1. \A c \in live : charges[c].end \in Nat
  BY DEF BillingTypeOK, Live, Charge
<1>2. Ends = {charges[c].end : c \in live}
  BY DEF Ends
<1>3. Ends \in SUBSET Nat
  BY <1>1, <1>2
<1>4. IsFiniteSet(live)
  BY FS_Subset, SubscriptionsAssumption
<1>5. IsFiniteSet(Ends)
  <2> DEFINE end == [c \in live |-> charges[c].end]
  <2>1. end \in Surjection(live, Ends)
    <3>1. \A e \in Ends : \E c \in live : e = charges[c].end
      BY <1>2
    <3>2. \A c \in live : charges[c].end \in Ends
      BY <1>2
    <3> HIDE DEF live
    <3> QED BY <3>1, <3>2 DEF Surjection
  <2>2. IsFiniteSet(live)
    BY <1>4
  <2> HIDE DEF end, live
  <2> QED BY <2>1, <2>2, FS_Surjection
<1>6. ASSUME Ends # {} PROVE Max(Ends) \in Nat
  <2>1. Ends \in SUBSET Int
    BY <1>3
  <2>2. Max(Ends) \in Ends
    BY <1>5, <1>6, <2>1, LastOfDays
  <2> QED BY <1>3, <2>2
<1>7. today \in Nat
  BY SubscriptionsAssumption DEF BillingTypeOK
<1> QED BY <1>3, <1>5, <1>6, <1>7 DEF NextStart, LastEnd

(* A charge that is created keeps the types and takes nothing yet.         *)
LEMMA NewChargeType ==
  ASSUME BillingTypeOK, NEW c \in Charges, NEW start \in Nat, NewCharge(c, start)
  PROVE  /\ charges' \in [Charges -> Charge \cup {None}]
         /\ UNCHANGED <<applied, notices, paidFor, settledShort, transactions>>
<1>1. Length[client.cycle] \in Nat
  BY SubscriptionsAssumption DEF BillingTypeOK
<1>2. [start |-> start, end |-> start + Length[client.cycle], status |-> "OPEN"] \in Charge
  BY <1>1 DEF Charge
<1>3. charges' = [charges EXCEPT ![c] =
        [start |-> start, end |-> start + Length[client.cycle], status |-> "OPEN"]]
  BY DEF NewCharge
<1> QED BY <1>2, <1>3 DEF NewCharge, BillingTypeOK

(* Closing a charge keeps the types.                                       *)
LEMMA CloseType ==
  ASSUME BillingTypeOK, NEW c \in Charges, charges[c] \in Charge,
         NEW s \in {"OPEN", "PAID", "VOID"}, charges' = [charges EXCEPT ![c].status = s]
  PROVE  charges' \in [Charges -> Charge \cup {None}]
<1>1. [charges[c] EXCEPT !.status = s] \in Charge
  BY DEF Charge
<1> QED BY <1>1 DEF BillingTypeOK

(* Deciding a notice changes that notice.                                  *)
LEMMA DecideType ==
  ASSUME BillingTypeOK, NEW n \in Notices, notices[n] \in Notice,
         NEW s \in {"CONFIRMED", "REJECTED"}, notices' = [notices EXCEPT ![n].status = s]
  PROVE  /\ notices' \in [Notices -> Notice \cup {None}]
         /\ notices'[n] # None /\ notices'[n].status = s
         /\ \A m \in Notices \ {n} : notices'[m] = notices[m]
<1>1. [notices[n] EXCEPT !.status = s] \in Notice /\ [notices[n] EXCEPT !.status = s].status = s
  BY DEF Notice
<1> QED BY <1>1, NoneIsNoRow DEF BillingTypeOK

(* A payment from a notice waits with the notice locked and undecided, and *)
(* no two wait for one.                                                    *)
Waiting ==
  /\ \A o \in Operators : transactions[o] # None /\ transactions[o].notice # None =>
       notices[transactions[o].notice] # None /\ notices[transactions[o].notice].status = "PENDING"
  /\ \A o, u \in Operators :
       /\ transactions[o] # None /\ transactions[u] # None
       /\ transactions[o].notice # None /\ transactions[o].notice = transactions[u].notice
       => o = u

(* An operator who begins a transaction keeps the types.                   *)
LEMMA EnterType ==
  ASSUME BillingTypeOK, NEW o \in Operators, NEW kind \in {"VOID", "PAY"},
         NEW c \in Charges \cup {None}, NEW n \in Notices \cup {None}, Enter(o, kind, c, n)
  PROVE  transactions' \in [Operators -> Transaction \cup {None}]
<1> DEFINE x == [kind |-> kind, charge |-> c, notice |-> n,
                 seen |-> IF c = None THEN 0 ELSE applied[c]]
<1>1. x.seen \in 0 .. MaxApplied
  BY SubscriptionsAssumption DEF BillingTypeOK
<1>2. x \in Transaction
  BY <1>1 DEF Transaction
<1>3. transactions' = [transactions EXCEPT ![o] = x]
  BY DEF Enter
<1> HIDE DEF x
<1> QED BY <1>2, <1>3 DEF BillingTypeOK

(* What an operator or a pass has under way names rows there are.          *)
LEMMA UnderWay ==
  ASSUME BillingTypeOK
  PROVE  /\ \A o \in Operators : transactions[o] # None =>
              /\ transactions[o] \in Transaction
              /\ transactions[o].charge \in Charges \cup {None}
              /\ transactions[o].notice \in Notices \cup {None}
         /\ \A p \in Passes : passes[p] # None =>
              /\ passes[p] \in Pass
              /\ passes[p].mail # None =>
                   /\ passes[p].mail \in Mail /\ passes[p].mail.charge \in Charges
                   /\ passes[p].mail.kind \in Kinds /\ passes[p].mail.marked \in SUBSET Kinds
BY DEF BillingTypeOK, Transaction, Pass, Mail

(* Every request of the console keeps the types.                           *)
LEMMA ConsoleTypes == ASSUME BillingTypeOK, Waiting, Console PROVE BillingTypeOK'
<1> USE DEF billing, nightly
<1>1. ASSUME NEW level \in Tiers, ChangePlan(level) PROVE BillingTypeOK'
  BY <1>1 DEF ChangePlan, BillingTypeOK
<1>2. ASSUME NEW status \in Statuses, NEW cycle \in Cycles, NEW agreed \in Agreed,
             UpdateSubscription(status, cycle, agreed)
      PROVE  BillingTypeOK'
  BY <1>2, SubscriptionsAssumption DEF UpdateSubscription, BillingTypeOK
<1>3. ASSUME NEW c \in Charges, CreateCharge(c) PROVE BillingTypeOK'
  <2>1. PICK start \in {NextStart} \cup Starts : NewCharge(c, start)
    BY <1>3 DEF CreateCharge
  <2>2. start \in Nat
    BY <2>1, StartIsDay, SubscriptionsAssumption
  <2>3. charges' \in [Charges -> Charge \cup {None}] /\ UNCHANGED <<applied, notices, paidFor, settledShort, transactions>>
    BY <2>1, <2>2, NewChargeType
  <2> QED BY <1>3, <2>3 DEF CreateCharge, BillingTypeOK
<1>4. ASSUME NEW n \in Notices, RejectNotice(n) PROVE BillingTypeOK'
  <2>1. notices' \in [Notices -> Notice \cup {None}]
    BY <1>4 DEF RejectNotice, Confirmable, BillingTypeOK, Notice
  <2> QED BY <1>4, <2>1 DEF RejectNotice, BillingTypeOK
<1>5. ASSUME NEW o \in Operators, Undo(o) PROVE BillingTypeOK'
  BY <1>5 DEF Undo, Done, BillingTypeOK
<1>6. ASSUME NEW o \in Operators, VoidCharge(o) PROVE BillingTypeOK'
  <2>1. transactions[o] # None /\ transactions[o].charge \in Charges \cup {None}
    BY <1>6, UnderWay DEF VoidCharge
  <2>2. charges' \in [Charges -> Charge \cup {None}]
    <3>1. charges' = [charges EXCEPT ![transactions[o].charge].status = "VOID"]
      BY <1>6 DEF VoidCharge
    <3>2. transactions[o].charge = None => charges' = charges
      BY <3>1, SubscriptionsAssumption DEF BillingTypeOK
    <3>3. transactions[o].charge \in Charges => charges[transactions[o].charge] \in Charge
      BY <1>6, <2>1, SubscriptionsAssumption DEF VoidCharge, Takes, Open, BillingTypeOK
    <3> QED BY <2>1, <3>1, <3>2, <3>3 DEF BillingTypeOK, Charge
  <2> QED BY <1>6, <2>2 DEF VoidCharge, Done, BillingTypeOK
<1>7. ASSUME NEW o \in Operators, NEW amount \in 1 .. Amount, NEW settle \in BOOLEAN,
             RecordPayment(o, amount, settle)
      PROVE  BillingTypeOK'
  <2> DEFINE c == transactions[o].charge
             n == transactions[o].notice
  <2>1. transactions[o] # None /\ c \in Charges \cup {None} /\ n \in Notices \cup {None}
    BY <1>7, UnderWay DEF RecordPayment
  <2>2. applied' \in [Charges -> 0 .. MaxApplied]
    <3>1. applied' = IF c = None THEN applied ELSE [applied EXCEPT ![c] = applied[c] + amount]
      BY <1>7 DEF RecordPayment
    <3>2. c # None => applied[c] + amount <= MaxApplied
      BY <1>7 DEF RecordPayment
    <3>3. c # None => applied[c] \in 0 .. MaxApplied
      BY <2>1 DEF BillingTypeOK
    <3>4. c # None => applied[c] + amount \in 0 .. MaxApplied
      BY <3>2, <3>3, SubscriptionsAssumption
    <3> HIDE DEF c
    <3> QED BY <2>1, <3>1, <3>4 DEF BillingTypeOK
  <2>3. charges' \in [Charges -> Charge \cup {None}]
    <3>1. charges' = charges \/ (c # None /\ charges' = [charges EXCEPT ![c].status = "PAID"])
      BY <1>7 DEF RecordPayment
    <3>2. c # None => charges[c] \in Charge
      BY <1>7, <2>1 DEF RecordPayment, Takes, Open, BillingTypeOK
    <3>3. charges \in [Charges -> Charge \cup {None}]
      BY DEF BillingTypeOK
    <3> HIDE DEF c
    <3> QED BY <2>1, <3>1, <3>2, <3>3, CloseType
  <2>4. /\ notices' = IF n = None THEN notices ELSE [notices EXCEPT ![n].status = "CONFIRMED"]
        /\ paidFor' = IF n = None THEN paidFor ELSE [paidFor EXCEPT ![n] = paidFor[n] + 1]
    BY <1>7 DEF RecordPayment
  <2>5. paidFor' \in [Notices -> Nat]
    <3>1. n # None => paidFor[n] + 1 \in Nat
      BY <2>1 DEF BillingTypeOK
    <3> HIDE DEF n
    <3> QED BY <2>1, <2>4, <3>1 DEF BillingTypeOK
  <2>6. notices' \in [Notices -> Notice \cup {None}]
    <3>1. n # None => notices[n] \in Notice
      BY <2>1 DEF Waiting, BillingTypeOK
    <3>2. notices \in [Notices -> Notice \cup {None}]
      BY DEF BillingTypeOK
    <3> HIDE DEF n
    <3> QED BY <2>1, <2>4, <3>1, <3>2, DecideType
  <2>7. settledShort' \subseteq Charges
    BY <1>7, <2>1 DEF RecordPayment, BillingTypeOK
  <2>8. transactions' \in [Operators -> Transaction \cup {None}]
    BY <1>7 DEF RecordPayment, Done, BillingTypeOK
  <2> QED BY <1>7, <2>2, <2>3, <2>5, <2>6, <2>7, <2>8 DEF RecordPayment, BillingTypeOK
<1>8. ASSUME NEW o \in Operators, NEW c \in Charges, AskVoid(o, c) \/ AskPayment(o, c) PROVE BillingTypeOK'
  <2>1. transactions' \in [Operators -> Transaction \cup {None}]
    BY <1>8, EnterType DEF AskVoid, AskPayment
  <2> QED BY <1>8, <2>1 DEF AskVoid, AskPayment, BillingTypeOK
<1>9. ASSUME NEW o \in Operators, NEW n \in Notices, AskConfirm(o, n) PROVE BillingTypeOK'
  <2> DEFINE c == IF notices[n].charge # None /\ Open(notices[n].charge) THEN notices[n].charge ELSE None
  <2>1. Enter(o, "PAY", c, n)
    BY <1>9 DEF AskConfirm
  <2>2. c \in Charges \cup {None}
    BY <1>9 DEF AskConfirm, Confirmable, BillingTypeOK, Notice
  <2> HIDE DEF c
  <2>3. transactions' \in [Operators -> Transaction \cup {None}]
    BY <2>1, <2>2, EnterType
  <2> QED BY <1>9, <2>3 DEF AskConfirm, BillingTypeOK
<1> QED BY <1>1, <1>2, <1>3, <1>4, <1>5, <1>6, <1>7, <1>8, <1>9 DEF Console

(* A pass that goes on is a pass.                                          *)
LEMMA PassType ==
  ASSUME BillingTypeOK, NEW p \in Passes, NEW x \in Pass \cup {None}, passes' = [passes EXCEPT ![p] = x]
  PROVE  passes' \in [Passes -> Pass \cup {None}] /\ passes'[p] = x
BY DEF BillingTypeOK

(* Every day of a charge has its kind of reminder.                         *)
LEMMA KindOfDay == ASSUME NEW c, NEW day PROVE DueKind(c, day) \in Kinds /\ UpTo(DueKind(c, day)) \in SUBSET Kinds
BY DEF DueKind, UpTo, Kinds

(* What a pass is about to mail is a mail.                                 *)
LEMMA MailType ==
  ASSUME BillingTypeOK, NEW p \in Passes, NEW c \in Charges
  PROVE  MailFor(p, c) \in Mail \cup {None}
<1>1. \/ MailFor(p, c) = None
      \/ MailFor(p, c) = [charge |-> c, kind |-> DueKind(c, passes[p].day),
                          marked |-> UpTo(DueKind(c, passes[p].day)) \ marks[c]]
  BY DEF MailFor
<1>2. UpTo(DueKind(c, passes[p].day)) \ marks[c] \in SUBSET Kinds
  BY KindOfDay
<1> QED BY <1>1, <1>2, KindOfDay DEF Mail

(* Every step of a nightly pass keeps the types.                           *)
LEMMA NightTypes == ASSUME BillingTypeOK, NEW p \in Passes, Night(p) PROVE BillingTypeOK'
<1> USE DEF billing
<1>0. passes[p] # None => passes[p] \in Pass
  BY UnderWay
<1>1. CASE BeginPass(p)
  <2> DEFINE x == [day |-> today, step |-> "RENEW", todo |-> {}, mail |-> None,
                   rounds |-> IF Renewable /\ Max(Ends) <= today THEN CatchUp ELSE 0]
  <2>1. x.rounds \in 0 .. CatchUp
    BY SubscriptionsAssumption
  <2>2. x \in Pass
    BY <2>1 DEF Pass, BillingTypeOK
  <2>3. passes' = [passes EXCEPT ![p] = x]
    BY <1>1 DEF BeginPass
  <2> HIDE DEF x
  <2> QED BY <1>1, <2>2, <2>3, PassType DEF BeginPass, BillingTypeOK
<1>2. CASE SkipRenewal(p)
  <2>1. passes' = [passes EXCEPT ![p].rounds = 0] /\ passes[p] # None
    BY <1>2 DEF SkipRenewal, At
  <2>2. [passes[p] EXCEPT !.rounds = 0] \in Pass
    BY <1>0, <2>1, SubscriptionsAssumption DEF Pass
  <2> QED BY <1>2, <2>1, <2>2, PassType DEF SkipRenewal, BillingTypeOK
<1>3. CASE BeginReminders(p)
  <2> DEFINE open == {c \in Charges : Open(c)}
  <2>1. passes' = [passes EXCEPT ![p].step = "REMIND", ![p].todo = open] /\ passes[p] # None
    BY <1>3 DEF BeginReminders, At
  <2>2. open \in SUBSET Charges
    OBVIOUS
  <2> HIDE DEF open
  <2>3. passes' \in [Passes -> Pass \cup {None}]
    BY <1>0, <2>1, <2>2 DEF BillingTypeOK, Pass
  <2> QED BY <1>3, <2>3 DEF BeginReminders, BillingTypeOK
<1>4. CASE MailSent(p)
  <2> DEFINE m == passes[p].mail
  <2>1. passes[p] # None /\ m # None /\ passes' = [passes EXCEPT ![p].mail = None]
    BY <1>4 DEF MailSent, At
  <2>2. m.charge \in Charges /\ m.kind \in Kinds
    BY <2>1, UnderWay
  <2>3. sent' = [sent EXCEPT ![m.charge][m.kind] = sent[m.charge][m.kind] + 1]
    BY <1>4 DEF MailSent
  <2>4. [passes[p] EXCEPT !.mail = None] \in Pass
    BY <1>0, <2>1 DEF Pass
  <2> HIDE DEF m
  <2>5. sent' \in [Charges -> [Kinds -> Nat]]
    <3>1. sent[m.charge] \in [Kinds -> Nat]
      BY <2>2 DEF BillingTypeOK
    <3>2. [sent[m.charge] EXCEPT ![m.kind] = sent[m.charge][m.kind] + 1] \in [Kinds -> Nat]
      BY <2>2, <3>1
    <3> QED BY <2>2, <2>3, <3>2 DEF BillingTypeOK
  <2> QED BY <1>4, <2>1, <2>4, <2>5, PassType DEF MailSent, BillingTypeOK
<1>5. CASE MailFailed(p)
  <2> DEFINE m == passes[p].mail
  <2>1. passes[p] # None /\ m # None /\ passes' = [passes EXCEPT ![p].mail = None]
    BY <1>5 DEF MailFailed, At
  <2>2. [passes[p] EXCEPT !.mail = None] \in Pass
    BY <1>0, <2>1 DEF Pass
  <2>3. marks' \in [Charges -> SUBSET Kinds]
    BY <1>5, <2>1, UnderWay DEF MailFailed, BillingTypeOK
  <2> QED BY <1>5, <2>1, <2>2, <2>3, PassType DEF MailFailed, BillingTypeOK
<1>9. CASE MailUnheard(p)
  <2> DEFINE m == passes[p].mail
  <2>1. /\ passes[p] # None /\ m # None /\ passes' = [passes EXCEPT ![p].mail = None]
        /\ marks' = [marks EXCEPT ![m.charge] = marks[m.charge] \ m.marked]
        /\ unheard' = [unheard EXCEPT ![m.charge][m.kind] = unheard[m.charge][m.kind] + 1]
    BY <1>9 DEF MailUnheard, At
  <2>2. m.charge \in Charges /\ m.kind \in Kinds
    BY <2>1, UnderWay
  <2>3. [passes[p] EXCEPT !.mail = None] \in Pass
    BY <1>0, <2>1 DEF Pass
  <2>4. passes' \in [Passes -> Pass \cup {None}]
    BY <2>1, <2>3, PassType
  <2> HIDE DEF m
  <2>5. marks' \in [Charges -> SUBSET Kinds]
    BY <2>1, <2>2 DEF BillingTypeOK
  <2>6. unheard' \in [Charges -> [Kinds -> Nat]]
    <3>1. unheard[m.charge] \in [Kinds -> Nat]
      BY <2>2 DEF BillingTypeOK
    <3>2. [unheard[m.charge] EXCEPT ![m.kind] = unheard[m.charge][m.kind] + 1] \in [Kinds -> Nat]
      BY <2>2, <3>1
    <3> QED BY <2>1, <2>2, <3>2 DEF BillingTypeOK
  <2> QED BY <1>9, <2>4, <2>5, <2>6 DEF MailUnheard, BillingTypeOK
<1>6. CASE FinishPass(p) \/ LosePass(p)
  BY <1>6, PassType DEF FinishPass, LosePass, BillingTypeOK
<1>7. ASSUME NEW c \in Charges, Renew(p, c) PROVE BillingTypeOK'
  <2>1. NewCharge(c, NextStart) /\ NextStart \in Nat
    BY <1>7, StartIsDay DEF Renew
  <2>2. charges' \in [Charges -> Charge \cup {None}] /\ UNCHANGED <<applied, notices, paidFor, settledShort, transactions>>
    BY <2>1, NewChargeType
  <2> DEFINE left == IF charges'[c].end > passes[p].day THEN 0 ELSE passes[p].rounds - 1
  <2>3. passes' = [passes EXCEPT ![p].rounds = left] /\ passes[p] # None /\ passes[p].rounds > 0
    BY <1>7 DEF Renew, At
  <2>4. passes[p].rounds \in 0 .. CatchUp
    BY <1>0, <2>3 DEF Pass
  <2>5. left \in 0 .. CatchUp
    BY <2>3, <2>4, SubscriptionsAssumption
  <2> HIDE DEF left
  <2>6. [passes[p] EXCEPT !.rounds = left] \in Pass
    BY <1>0, <2>3, <2>5 DEF Pass
  <2> QED BY <1>7, <2>2, <2>3, <2>6, PassType DEF Renew, BillingTypeOK
<1>8. ASSUME NEW c \in Charges, MarkReminder(p, c) PROVE BillingTypeOK'
  <2>1. passes[p] # None /\ passes' = [passes EXCEPT ![p].todo = passes[p].todo \ {c}, ![p].mail = MailFor(p, c)]
    BY <1>8 DEF MarkReminder, At
  <2>2. MailFor(p, c) \in Mail \cup {None} /\ UpTo(DueKind(c, passes[p].day)) \in SUBSET Kinds
    BY MailType, KindOfDay
  <2>3. passes' \in [Passes -> Pass \cup {None}]
    BY <1>0, <2>1, <2>2 DEF BillingTypeOK, Pass
  <2>4. marks' \in [Charges -> SUBSET Kinds]
    BY <1>8, <2>2 DEF MarkReminder, BillingTypeOK
  <2> QED BY <1>8, <2>3, <2>4 DEF MarkReminder, BillingTypeOK
<1> QED BY <1>1, <1>2, <1>3, <1>4, <1>5, <1>6, <1>7, <1>8, <1>9 DEF Night

(* A transaction from a notice begins with the notice undecided, and       *)
(* nobody decides it before the transaction ends.                          *)
LEMMA WaitingStep == ASSUME BillingTypeOK, Waiting, [BillingStep]_billingVars PROVE Waiting'
<1> USE DEF billing, nightly
<1>0. \A o \in Operators : transactions[o] # None => transactions[o].notice \in Notices \cup {None}
  BY UnderWay
<1>1. CASE UNCHANGED <<transactions, notices>>
  BY <1>1 DEF Waiting
<1>2. ASSUME NEW o \in Operators, Done(o), UNCHANGED notices PROVE Waiting'
  BY <1>2 DEF Done, Waiting, BillingTypeOK
<1>3. ASSUME NEW o \in Operators, NEW amount, NEW settle, RecordPayment(o, amount, settle) PROVE Waiting'
  <2> DEFINE n == transactions[o].notice
  <2>1. transactions[o] # None /\ n \in Notices \cup {None}
    BY <1>0, <1>3 DEF RecordPayment
  <2>2. /\ transactions'[o] = None
        /\ \A u \in Operators \ {o} : transactions'[u] = transactions[u]
    BY <1>3 DEF RecordPayment, Done, BillingTypeOK
  <2>3. \A m \in Notices \ {n} : notices'[m] = notices[m]
    BY <1>3, <2>1 DEF RecordPayment, BillingTypeOK
  <2>4. \A u \in Operators \ {o} :
          transactions[u] # None /\ transactions[u].notice # None => transactions[u].notice \in Notices \ {n}
    BY <1>0, <2>1 DEF Waiting
  <2> QED BY <2>2, <2>3, <2>4 DEF Waiting
<1>4. ASSUME NEW n \in Notices, NEW c \in Charges \cup {None}, SubmitNotice(n, c) PROVE Waiting'
  <2>1. notices[n] = None /\ UNCHANGED transactions /\ \A m \in Notices \ {n} : notices'[m] = notices[m]
    BY <1>4 DEF SubmitNotice, BillingTypeOK
  <2> QED BY <1>0, <2>1 DEF Waiting
<1>5. ASSUME NEW n \in Notices, RejectNotice(n) PROVE Waiting'
  <2>1. ~ NoticeLocked(n) /\ UNCHANGED transactions /\ \A m \in Notices \ {n} : notices'[m] = notices[m]
    BY <1>5 DEF RejectNotice, Confirmable, BillingTypeOK
  <2> QED BY <1>0, <2>1 DEF Waiting, NoticeLocked
<1>6. ASSUME NEW o \in Operators, NEW kind, NEW c, NEW n \in Notices \cup {None}, Enter(o, kind, c, n),
             UNCHANGED notices, transactions[o] = None, n # None => Confirmable(n)
      PROVE  Waiting'
  <2>1. /\ transactions'[o].notice = n
        /\ \A u \in Operators \ {o} : transactions'[u] = transactions[u]
    BY <1>6 DEF Enter, BillingTypeOK
  <2>2. n # None => /\ notices[n] # None /\ notices[n].status = "PENDING"
                    /\ \A u \in Operators : transactions[u] # None => transactions[u].notice # n
    BY <1>6 DEF Confirmable, NoticeLocked
  <2> QED BY <1>6, <2>1, <2>2 DEF Waiting
<1>7. ASSUME NEW o \in Operators, NEW c \in Charges, AskVoid(o, c) \/ AskPayment(o, c) PROVE Waiting'
  <2>1. None \in Notices \cup {None} /\ UNCHANGED notices /\ transactions[o] = None
    BY <1>7 DEF AskVoid, AskPayment
  <2>2. Enter(o, "VOID", c, None) \/ Enter(o, "PAY", c, None)
    BY <1>7 DEF AskVoid, AskPayment
  <2> QED BY <1>6, <2>1, <2>2
<1>8. ASSUME NEW o \in Operators, NEW n \in Notices, AskConfirm(o, n) PROVE Waiting'
  <2>1. \E c : Enter(o, "PAY", c, n)
    BY <1>8 DEF AskConfirm
  <2>2. UNCHANGED notices /\ transactions[o] = None /\ Confirmable(n)
    BY <1>8 DEF AskConfirm
  <2> QED BY <1>6, <2>1, <2>2
<1>9. ASSUME NEW o \in Operators, VoidCharge(o) \/ Undo(o) PROVE Waiting'
  BY <1>2, <1>9 DEF VoidCharge, Undo
<1>10. ASSUME NEW p \in Passes, Night(p) PROVE UNCHANGED <<transactions, notices>>
  BY <1>10 DEF Night, BeginPass, SkipRenewal, BeginReminders, MailSent, MailFailed, MailUnheard, FinishPass,
               LosePass, Renew, MarkReminder, NewCharge
<1>11. ASSUME NextDay \/ UNCHANGED billingVars \/ (\E level \in Tiers : ChangePlan(level))
              \/ (\E status \in Statuses, cycle \in Cycles, agreed \in Agreed :
                    UpdateSubscription(status, cycle, agreed))
              \/ (\E c \in Charges : CreateCharge(c))
       PROVE  UNCHANGED <<transactions, notices>>
  BY <1>11 DEF NextDay, billingVars, ChangePlan, UpdateSubscription, CreateCharge, NewCharge
<1> QED BY <1>1, <1>3, <1>4, <1>5, <1>7, <1>8, <1>9, <1>10, <1>11 DEF BillingStep, Console

(* So does every step.                                                     *)
LEMMA BillingTypeStep ==
  ASSUME BillingTypeOK, Waiting, [BillingStep]_billingVars PROVE BillingTypeOK'
<1> USE DEF billing, nightly
<1>1. CASE NextDay
  BY <1>1, SubscriptionsAssumption DEF NextDay, BillingTypeOK
<1>2. ASSUME NEW n \in Notices, NEW c \in Charges \cup {None}, SubmitNotice(n, c) PROVE BillingTypeOK'
  <2>1. [charge |-> c, status |-> "PENDING"] \in Notice
    BY DEF Notice
  <2>2. notices' \in [Notices -> Notice \cup {None}]
    BY <1>2, <2>1 DEF SubmitNotice, BillingTypeOK
  <2> QED BY <1>2, <2>2 DEF SubmitNotice, BillingTypeOK
<1>3. CASE UNCHANGED billingVars
  BY <1>3 DEF billingVars, BillingTypeOK
<1> QED BY <1>1, <1>2, <1>3, ConsoleTypes, NightTypes DEF BillingStep

(* Nothing is billed at first.                                             *)
LEMMA BillingInitTypes == BillingInit => BillingTypeOK /\ Waiting
<1> SUFFICES ASSUME BillingInit PROVE BillingTypeOK /\ Waiting
  OBVIOUS
<1>1. client \in [tier : Tiers, status : Statuses, cycle : Cycles, agreed : Agreed]
  <2>1. "TRIAL" \in Tiers /\ "ACTIVE" \in Statuses /\ FALSE \in Agreed
    BY SubscriptionsAssumption
  <2>2. PICK c \in Cycles : client = [tier |-> "TRIAL", status |-> "ACTIVE", cycle |-> c, agreed |-> FALSE]
    BY DEF BillingInit
  <2> QED BY <2>1, <2>2, Zenon
<1>2. applied \in [Charges -> 0 .. MaxApplied] /\ today \in 0 .. LastDay
  BY SubscriptionsAssumption DEF BillingInit
<1>3. Waiting
  BY DEF BillingInit, Waiting
<1> QED BY <1>1, <1>2, <1>3 DEF BillingInit, BillingTypeOK

(* Types, and nobody waits for a notice or a charge that is not there:     *)
(* what the other invariants of billing rest on.                           *)
THEOREM BillingIsTyped == BillingSpec => [](BillingTypeOK /\ Waiting)
<1>1. (BillingTypeOK /\ Waiting) /\ [BillingStep]_billingVars => (BillingTypeOK /\ Waiting)'
  BY BillingTypeStep, WaitingStep
<1> QED BY <1>1, BillingInitTypes, PTL DEF BillingSpec

(* Charges, notices, transactions, passes and marks stay what they are.    *)
THEOREM BillingType == BillingSpec => []BillingTypeOK
BY BillingIsTyped, PTL

(* A notice is decided once: confirmed with one payment, or not at all,    *)
(* whoever else decides it at the same time.                               *)
THEOREM NoticeIsPaidOnce == BillingSpec => []NoticePaidOnce
<1> USE DEF billing, nightly
<1>1. BillingInit => NoticePaidOnce
  BY DEF BillingInit, NoticePaidOnce
<1>2. (BillingTypeOK /\ Waiting) /\ NoticePaidOnce /\ [BillingStep]_billingVars => NoticePaidOnce'
  <2> SUFFICES ASSUME BillingTypeOK, Waiting, NoticePaidOnce, [BillingStep]_billingVars
               PROVE  NoticePaidOnce'
    OBVIOUS
  <2>1. CASE UNCHANGED <<notices, paidFor>>
    BY <2>1 DEF NoticePaidOnce
  <2>2. ASSUME NEW o \in Operators, NEW amount, NEW settle, RecordPayment(o, amount, settle)
        PROVE  NoticePaidOnce'
    <3> DEFINE n == transactions[o].notice
    <3>1. transactions[o] # None /\ n \in Notices \cup {None}
      BY <2>2, UnderWay DEF RecordPayment
    <3>2. CASE n = None
      BY <2>1, <2>2, <3>2 DEF RecordPayment
    <3>3. CASE n # None
      <4>1. notices[n] # None /\ notices[n].status = "PENDING" /\ n \in Notices /\ notices[n] \in Notice
        BY <3>1, <3>3 DEF Waiting, BillingTypeOK
      <4>2. paidFor[n] = 0
        BY <4>1 DEF NoticePaidOnce
      <4>3. notices' = [notices EXCEPT ![n].status = "CONFIRMED"]
            /\ paidFor' = [paidFor EXCEPT ![n] = paidFor[n] + 1]
        BY <2>2, <3>3 DEF RecordPayment
      <4>4. notices'[n] # None /\ notices'[n].status = "CONFIRMED"
            /\ \A m \in Notices \ {n} : notices'[m] = notices[m]
        <5> HIDE DEF n
        <5> QED BY <4>1, <4>3, DecideType
      <4>5. paidFor'[n] = 1 /\ \A m \in Notices \ {n} : paidFor'[m] = paidFor[m]
        BY <4>1, <4>2, <4>3 DEF BillingTypeOK
      <4> HIDE DEF n
      <4> QED BY <4>4, <4>5 DEF NoticePaidOnce
    <3> QED BY <3>2, <3>3
  <2>3. ASSUME NEW n \in Notices, NEW c \in Charges \cup {None}, SubmitNotice(n, c) PROVE NoticePaidOnce'
    <3>1. notices'[n].status = "PENDING" /\ notices[n] = None /\ UNCHANGED paidFor
          /\ \A m \in Notices \ {n} : notices'[m] = notices[m]
      BY <2>3 DEF SubmitNotice, BillingTypeOK
    <3> QED BY <3>1 DEF NoticePaidOnce
  <2>4. ASSUME NEW n \in Notices, RejectNotice(n) PROVE NoticePaidOnce'
    <3>1. notices[n] # None /\ notices[n].status = "PENDING" /\ UNCHANGED paidFor
          /\ notices' = [notices EXCEPT ![n].status = "REJECTED"]
      BY <2>4 DEF RejectNotice, Confirmable
    <3>2. notices[n] \in Notice
      BY <3>1 DEF BillingTypeOK
    <3>3. notices'[n].status = "REJECTED" /\ \A m \in Notices \ {n} : notices'[m] = notices[m]
      BY <3>1, <3>2, DecideType
    <3> QED BY <3>1, <3>3 DEF NoticePaidOnce
  <2>5. \/ \E o \in Operators, amount \in 1 .. Amount, settle \in BOOLEAN : RecordPayment(o, amount, settle)
        \/ \E n \in Notices, c \in Charges \cup {None} : SubmitNotice(n, c)
        \/ \E n \in Notices : RejectNotice(n)
        \/ UNCHANGED <<notices, paidFor>>
    BY DEF BillingStep, billingVars, Console, Night, NextDay, ChangePlan, UpdateSubscription,
           CreateCharge, NewCharge, AskVoid, AskPayment, AskConfirm, VoidCharge, Undo, BeginPass,
           Renew, SkipRenewal, BeginReminders, MarkReminder, MailSent, MailFailed, MailUnheard, FinishPass, LosePass
  <2> QED BY <2>1, <2>2, <2>3, <2>4, <2>5
<1> QED BY <1>1, <1>2, BillingIsTyped, PTL DEF BillingSpec

(* The sum a payment is decided on was read before the wait, and no        *)
(* payment was taken back since.                                           *)
SeenIsRecorded ==
  \A o \in Operators : transactions[o] # None /\ transactions[o].charge # None =>
    transactions[o].seen <= applied[transactions[o].charge]

(* Who begins a transaction reads what is recorded, and what is recorded   *)
(* only grows.                                                             *)
LEMMA SeenStep ==
  ASSUME BillingTypeOK, SeenIsRecorded, [BillingStep]_billingVars PROVE SeenIsRecorded'
<1> USE DEF billing, nightly
<1>1. \A o \in Operators : transactions[o] # None =>
        /\ transactions[o] \in Transaction /\ transactions[o].seen \in Nat
        /\ transactions[o].charge \in Charges \cup {None}
  BY UnderWay DEF Transaction
<1>2. CASE UNCHANGED <<transactions, applied>>
  BY <1>2 DEF SeenIsRecorded
<1>3. ASSUME NEW o \in Operators, Done(o), UNCHANGED applied PROVE SeenIsRecorded'
  BY <1>3 DEF Done, SeenIsRecorded, BillingTypeOK
<1>4. ASSUME NEW o \in Operators, NEW amount \in 1 .. Amount, NEW settle, RecordPayment(o, amount, settle)
      PROVE  SeenIsRecorded'
  <2> DEFINE c == transactions[o].charge
  <2>1. /\ applied' = IF c = None THEN applied ELSE [applied EXCEPT ![c] = applied[c] + amount]
        /\ transactions[o] # None /\ transactions' = [transactions EXCEPT ![o] = None]
    BY <1>4 DEF RecordPayment, Done
  <2>2. transactions'[o] = None /\ \A u \in Operators \ {o} : transactions'[u] = transactions[u]
    BY <2>1 DEF BillingTypeOK
  <2>3. \A d \in Charges : applied[d] \in Nat /\ applied'[d] >= applied[d] /\ applied'[d] \in Nat
    <3>1. amount \in Nat /\ \A d \in Charges : applied[d] \in Nat
      BY SubscriptionsAssumption DEF BillingTypeOK
    <3>2. \A d \in Charges : applied'[d] = applied[d] \/ applied'[d] = applied[d] + amount
      <4> HIDE DEF c
      <4> QED BY <2>1 DEF BillingTypeOK
    <3> QED BY <3>1, <3>2
  <2> HIDE DEF c
  <2>4. SUFFICES ASSUME NEW u \in Operators, transactions'[u] # None, transactions'[u].charge # None
                 PROVE  transactions'[u].seen <= applied'[transactions'[u].charge]
    BY DEF SeenIsRecorded
  <2>5. u # o /\ transactions'[u] = transactions[u]
    BY <2>2, <2>4
  <2>6. transactions[u].seen <= applied[transactions[u].charge] /\ transactions[u].charge \in Charges
    BY <1>1, <2>4, <2>5 DEF SeenIsRecorded
  <2> QED BY <1>1, <2>3, <2>4, <2>5, <2>6
<1>5. ASSUME NEW o \in Operators, NEW kind, NEW c \in Charges \cup {None}, NEW n, Enter(o, kind, c, n),
             UNCHANGED applied
      PROVE  SeenIsRecorded'
  <2>1. /\ transactions'[o].charge = c /\ transactions'[o].seen = (IF c = None THEN 0 ELSE applied[c])
        /\ \A u \in Operators \ {o} : transactions'[u] = transactions[u]
    BY <1>5 DEF Enter, BillingTypeOK
  <2>2. c # None => applied[c] \in Nat
    BY SubscriptionsAssumption DEF BillingTypeOK
  <2>3. \A u \in Operators : transactions'[u] # None /\ transactions'[u].charge # None =>
          transactions'[u].seen <= applied[transactions'[u].charge]
    <3> TAKE u \in Operators
    <3>1. CASE u = o
      BY <2>1, <2>2, <3>1
    <3>2. CASE u # o
      BY <2>1, <3>2 DEF SeenIsRecorded
    <3> QED BY <3>1, <3>2
  <2> QED BY <1>5, <2>3 DEF SeenIsRecorded
<1>6. ASSUME NEW o \in Operators, NEW c \in Charges, AskVoid(o, c) \/ AskPayment(o, c) PROVE SeenIsRecorded'
  BY <1>5, <1>6 DEF AskVoid, AskPayment
<1>7. ASSUME NEW o \in Operators, NEW n \in Notices, AskConfirm(o, n) PROVE SeenIsRecorded'
  <2> DEFINE d == notices[n].charge
             c == IF d # None /\ Open(d) THEN d ELSE None
  <2>1. Enter(o, "PAY", c, n) /\ UNCHANGED applied
    BY <1>7 DEF AskConfirm
  <2>2. c \in Charges \cup {None}
    BY <1>7 DEF AskConfirm, Confirmable, BillingTypeOK, Notice
  <2> HIDE DEF c
  <2> QED BY <1>5, <2>1, <2>2
<1>8. ASSUME NEW o \in Operators, VoidCharge(o) \/ Undo(o) PROVE SeenIsRecorded'
  BY <1>3, <1>8 DEF VoidCharge, Undo
<1>9. \/ \E o \in Operators :
           \/ VoidCharge(o) \/ Undo(o)
           \/ \E amount \in 1 .. Amount, settle \in BOOLEAN : RecordPayment(o, amount, settle)
           \/ \E c \in Charges : AskVoid(o, c) \/ AskPayment(o, c)
           \/ \E n \in Notices : AskConfirm(o, n)
      \/ UNCHANGED <<transactions, applied>>
  BY DEF BillingStep, billingVars, Console, Night, NextDay, ChangePlan, UpdateSubscription,
         CreateCharge, NewCharge, BeginPass, Renew, SkipRenewal, BeginReminders, MarkReminder,
         MailSent, MailFailed, MailUnheard, FinishPass, LosePass, SubmitNotice, RejectNotice
<1> QED BY <1>2, <1>4, <1>6, <1>7, <1>8, <1>9

(* A charge that reads paid is covered by what was recorded for it, or the *)
(* audit says that it was settled short.                                   *)
THEOREM PaidChargeIsExplained == BillingSpec => []PaidIsExplained
<1> USE DEF billing, nightly
<1>1. BillingInit => SeenIsRecorded /\ PaidIsExplained
  BY DEF BillingInit, SeenIsRecorded, PaidIsExplained
<1>2. BillingTypeOK /\ SeenIsRecorded /\ PaidIsExplained /\ [BillingStep]_billingVars => PaidIsExplained'
  <2> SUFFICES ASSUME BillingTypeOK, SeenIsRecorded, PaidIsExplained, [BillingStep]_billingVars
               PROVE  PaidIsExplained'
    OBVIOUS
  <2>1. CASE UNCHANGED <<charges, applied, settledShort>>
    BY <2>1 DEF PaidIsExplained
  <2>2. ASSUME NEW o \in Operators, NEW amount \in 1 .. Amount, NEW settle \in BOOLEAN,
               RecordPayment(o, amount, settle)
        PROVE  PaidIsExplained'
    <3> DEFINE r == transactions[o]
               c == r.charge
               closes == c # None /\ (Covers(r, amount) \/ settle)
    <3>1. /\ r # None /\ c \in Charges \cup {None} /\ r.seen \in Nat
          /\ c # None => r.seen <= applied[c]
      BY <2>2, UnderWay DEF RecordPayment, Transaction, SeenIsRecorded
    <3>2. /\ applied' = IF c = None THEN applied ELSE [applied EXCEPT ![c] = applied[c] + amount]
          /\ charges' = IF closes THEN [charges EXCEPT ![c].status = "PAID"] ELSE charges
          /\ settledShort' = settledShort \cup {d \in {c} \ {None} : settle /\ ~ Covers(r, amount)}
      BY <2>2 DEF RecordPayment
    <3>3. amount \in Nat /\ Amount \in Nat /\ \A d \in Charges : applied[d] \in Nat
      BY SubscriptionsAssumption DEF BillingTypeOK
    <3>4. closes => applied[c] + amount >= Amount \/ c \in settledShort'
      BY <3>1, <3>2, <3>3 DEF Covers
    <3> HIDE DEF closes, c
    <3>5. \A d \in Charges : d # c => applied'[d] = applied[d] /\ charges'[d] = charges[d]
      BY <3>2 DEF BillingTypeOK
    <3>6. c \in Charges /\ c # None => applied'[c] = applied[c] + amount /\ (~ closes => charges'[c] = charges[c])
      BY <3>2 DEF BillingTypeOK
    <3>7. SUFFICES ASSUME NEW d \in Charges, charges'[d] # None, charges'[d].status = "PAID"
                   PROVE  applied'[d] >= Amount \/ d \in settledShort'
      BY DEF PaidIsExplained
    <3>8. CASE d # c \/ c = None
      <4>1. applied'[d] = applied[d] /\ charges'[d] = charges[d]
        BY <3>5, <3>8, SubscriptionsAssumption
      <4> QED BY <3>2, <3>7, <4>1 DEF PaidIsExplained
    <3>9. CASE d = c /\ closes
      BY <3>4, <3>6, <3>9, SubscriptionsAssumption
    <3>10. CASE d = c /\ c # None /\ ~ closes
      <4>1. applied[c] >= Amount \/ c \in settledShort
        BY <3>6, <3>7, <3>10 DEF PaidIsExplained
      <4> QED BY <3>2, <3>3, <3>6, <3>10, <4>1
    <3> QED BY <3>8, <3>9, <3>10
  <2>3. ASSUME NEW c \in Charges, NEW start, NewCharge(c, start) PROVE PaidIsExplained'
    <3>1. /\ charges' = [charges EXCEPT ![c] =
               [start |-> start, end |-> start + Length[client.cycle], status |-> "OPEN"]]
          /\ UNCHANGED <<applied, settledShort>>
      BY <2>3 DEF NewCharge
    <3>2. charges'[c].status = "OPEN" /\ \A d \in Charges \ {c} : charges'[d] = charges[d]
      BY <3>1 DEF BillingTypeOK
    <3> QED BY <3>1, <3>2 DEF PaidIsExplained
  <2>4. ASSUME NEW o \in Operators, VoidCharge(o) PROVE PaidIsExplained'
    <3> DEFINE c == transactions[o].charge
    <3>1. charges' = [charges EXCEPT ![c].status = "VOID"] /\ UNCHANGED <<applied, settledShort>>
      BY <2>4 DEF VoidCharge
    <3>2. c # None => charges[c] \in Charge
      BY <2>4, UnderWay DEF VoidCharge, Takes, Open, BillingTypeOK
    <3> HIDE DEF c
    <3>3. \A d \in Charges : charges'[d] = charges[d] \/ (charges'[d] # None => charges'[d].status = "VOID")
      BY <3>1, <3>2, SubscriptionsAssumption DEF BillingTypeOK, Charge
    <3> QED BY <3>1, <3>3 DEF PaidIsExplained
  <2>5. \/ \E o \in Operators, amount \in 1 .. Amount, settle \in BOOLEAN : RecordPayment(o, amount, settle)
        \/ \E c \in Charges, start \in {NextStart} \cup Starts : NewCharge(c, start)
        \/ \E o \in Operators : VoidCharge(o)
        \/ UNCHANGED <<charges, applied, settledShort>>
    BY DEF BillingStep, billingVars, Console, Night, NextDay, ChangePlan, UpdateSubscription,
           CreateCharge, AskVoid, AskPayment, AskConfirm, Undo, BeginPass, Renew, SkipRenewal,
           BeginReminders, MarkReminder, MailSent, MailFailed, MailUnheard, FinishPass, LosePass,
           SubmitNotice, RejectNotice
  <2> QED BY <2>1, <2>2, <2>3, <2>4, <2>5
<1>3. BillingTypeOK /\ SeenIsRecorded /\ [BillingStep]_billingVars => SeenIsRecorded'
  BY SeenStep
<1> QED BY <1>1, <1>2, <1>3, BillingType, PTL DEF BillingSpec

-----------------------------------------------------------------------------
(* Reminders.                                                              *)

Mailing(p) == passes[p] # None /\ passes[p].mail # None

(* Who is mailing a reminder marked it, with the weaker ones that were     *)
(* free, and none of them was sent; no other pass marked the same.         *)
Marked ==
  /\ \A c \in Charges, k \in Kinds : sent[c][k] <= 1 /\ (sent[c][k] = 1 => k \in marks[c])
  /\ \A p \in Passes : Mailing(p) =>
       LET m == passes[p].mail IN
       /\ m.kind \in m.marked /\ m.marked \subseteq marks[m.charge]
       /\ \A k \in m.marked : sent[m.charge][k] = 0
  /\ \A p, q \in Passes : /\ Mailing(p) /\ Mailing(q) /\ p # q
                          /\ passes[p].mail.charge = passes[q].mail.charge
                          => passes[p].mail.marked \cap passes[q].mail.marked = {}

(* A reminder of a kind is among those its mark covers.                    *)
LEMMA KindsReached == ASSUME NEW c, NEW day PROVE DueKind(c, day) \in UpTo(DueKind(c, day))
BY DEF DueKind, UpTo, Kinds

(* A step of a pass touches its own mail only.                             *)
LEMMA MailUntouched ==
  ASSUME BillingTypeOK, Marked, NEW p \in Passes, UNCHANGED <<marks, sent>>,
         \A q \in Passes \ {p} : passes'[q] = passes[q],
         Mailing(p)' => Mailing(p) /\ passes'[p].mail = passes[p].mail
  PROVE  Marked'
<1>1. \A q \in Passes : Mailing(q)' => Mailing(q) /\ passes'[q].mail = passes[q].mail
  BY DEF Mailing
<1> QED BY <1>1 DEF Marked, Mailing

(* A reminder that is on its way or arrived has its mark, and a mark is    *)
(* set once.                                                               *)
LEMMA MarkedStep == ASSUME BillingTypeOK, Marked, [BillingStep]_billingVars PROVE Marked'
<1> USE DEF billing, nightly
<1>1. CASE UNCHANGED nightly
  BY <1>1 DEF Marked, Mailing
<1>2. ASSUME NEW p \in Passes, BeginPass(p) \/ SkipRenewal(p) \/ BeginReminders(p) \/ FinishPass(p)
             \/ LosePass(p) \/ \E c \in Charges : Renew(p, c)
      PROVE  Marked'
  <2>1. \A q \in Passes \ {p} : passes'[q] = passes[q]
    BY <1>2 DEF BeginPass, SkipRenewal, BeginReminders, FinishPass, LosePass, Renew, BillingTypeOK
  <2>2. UNCHANGED <<marks, sent>>
    BY <1>2 DEF BeginPass, SkipRenewal, BeginReminders, FinishPass, LosePass, Renew
  <2>3. Mailing(p)' => Mailing(p) /\ passes'[p].mail = passes[p].mail
    <3>1. CASE BeginPass(p) \/ FinishPass(p) \/ LosePass(p)
      BY <3>1 DEF BeginPass, FinishPass, LosePass, Mailing, BillingTypeOK
    <3>2. CASE SkipRenewal(p) \/ BeginReminders(p) \/ \E c \in Charges : Renew(p, c)
      <4>1. passes[p] # None /\ passes[p] \in Pass
        BY <3>2, UnderWay DEF SkipRenewal, BeginReminders, Renew, At
      <4>2. passes'[p].mail = passes[p].mail
        BY <3>2, <4>1 DEF SkipRenewal, BeginReminders, Renew, BillingTypeOK, Pass
      <4> QED BY <4>1, <4>2 DEF Mailing
    <3> QED BY <1>2, <3>1, <3>2
  <2> QED BY <2>1, <2>2, <2>3, MailUntouched
<1>3. ASSUME NEW p \in Passes, NEW c \in Charges, MarkReminder(p, c) PROVE Marked'
  <2> DEFINE kind == DueKind(c, passes[p].day)
             fresh == UpTo(kind) \ marks[c]
  <2>1. passes[p] # None /\ passes[p].mail = None /\ passes[p] \in Pass
    BY <1>3, UnderWay DEF MarkReminder, At
  <2>2. /\ marks' = [marks EXCEPT ![c] = marks[c] \cup UpTo(kind)] /\ sent' = sent
        /\ passes'[p].mail = MailFor(p, c)
        /\ \A q \in Passes \ {p} : passes'[q] = passes[q]
    BY <1>3, <2>1 DEF MarkReminder, BillingTypeOK, Pass
  <2>3. \A d \in Charges : marks[d] \subseteq marks'[d]
    BY <2>2 DEF BillingTypeOK
  <2>4. MailFor(p, c) = IF kind \in marks[c] THEN None
                        ELSE [charge |-> c, kind |-> kind, marked |-> fresh]
    BY DEF MailFor
  <2>5. kind \in Kinds /\ kind \in UpTo(kind) /\ UpTo(kind) \in SUBSET Kinds
    BY KindOfDay, KindsReached
  <2>6. \A k \in fresh : k \in Kinds /\ k \notin marks[c] /\ sent[c][k] = 0
    <3> TAKE k \in fresh
    <3>1. k \in Kinds /\ k \notin marks[c]
      BY <2>5
    <3>2. sent[c][k] \in Nat /\ sent[c][k] <= 1 /\ sent[c][k] # 1
      BY <3>1 DEF Marked, BillingTypeOK
    <3> QED BY <3>1, <3>2
  <2>7. \A d \in Charges, k \in Kinds : sent'[d][k] <= 1 /\ (sent'[d][k] = 1 => k \in marks'[d])
    BY <2>2, <2>3 DEF Marked
  <2>8. \A q \in Passes \ {p} : Mailing(q)' => Mailing(q) /\ passes'[q].mail = passes[q].mail
    BY <2>2 DEF Mailing
  <2>9. \A q \in Passes : Mailing(q) => passes[q].mail.charge \in Charges
    BY UnderWay DEF Mailing
  <2>10. Mailing(p)' => /\ passes'[p].mail.charge = c /\ passes'[p].mail.kind = kind
                        /\ passes'[p].mail.marked = fresh /\ kind \in fresh
    <3> HIDE DEF fresh
    <3>1. Mailing(p)' => kind \notin marks[c]
      BY <2>2, <2>4 DEF Mailing
    <3>2. kind \notin marks[c] => kind \in fresh
      BY <2>5 DEF fresh
    <3> HIDE DEF kind
    <3> QED BY <2>2, <2>4, <3>1, <3>2
  <2>11. fresh \subseteq marks'[c]
    BY <2>2 DEF BillingTypeOK
  <2> HIDE DEF kind, fresh
  <2>12. \A q \in Passes : Mailing(q)' =>
           /\ passes'[q].mail.kind \in passes'[q].mail.marked
           /\ passes'[q].mail.marked \subseteq marks'[passes'[q].mail.charge]
           /\ \A k \in passes'[q].mail.marked : sent'[passes'[q].mail.charge][k] = 0
    <3> SUFFICES ASSUME NEW q \in Passes, Mailing(q)'
                 PROVE  /\ passes'[q].mail.kind \in passes'[q].mail.marked
                        /\ passes'[q].mail.marked \subseteq marks'[passes'[q].mail.charge]
                        /\ \A k \in passes'[q].mail.marked : sent'[passes'[q].mail.charge][k] = 0
      OBVIOUS
    <3>1. CASE q = p
      BY <2>2, <2>6, <2>10, <2>11, <3>1
    <3>2. CASE q # p
      BY <2>2, <2>3, <2>8, <2>9, <3>2 DEF Marked
    <3> QED BY <3>1, <3>2
  <2>13. \A q \in Passes \ {p} :
           Mailing(q) /\ passes[q].mail.charge = c => passes[q].mail.marked \cap fresh = {}
    BY <2>6 DEF Marked
  <2>14. \A q, r \in Passes : /\ Mailing(q)' /\ Mailing(r)' /\ q # r
                              /\ passes'[q].mail.charge = passes'[r].mail.charge
                              => passes'[q].mail.marked \cap passes'[r].mail.marked = {}
    <3> SUFFICES ASSUME NEW q \in Passes, NEW r \in Passes, Mailing(q)', Mailing(r)', q # r,
                        passes'[q].mail.charge = passes'[r].mail.charge
                 PROVE  passes'[q].mail.marked \cap passes'[r].mail.marked = {}
      OBVIOUS
    <3>1. CASE q # p /\ r # p
      BY <2>8, <3>1 DEF Marked
    <3>2. CASE q = p
      BY <2>8, <2>10, <2>13, <3>2
    <3>3. CASE r = p
      BY <2>8, <2>10, <2>13, <3>3
    <3> QED BY <3>1, <3>2, <3>3
  <2> QED BY <2>7, <2>12, <2>14 DEF Marked, Mailing
<1>4. ASSUME NEW p \in Passes, MailSent(p) \/ MailFailed(p) \/ MailUnheard(p) PROVE Marked'
  <2> DEFINE m == passes[p].mail
  <2>1. Mailing(p) /\ passes[p] \in Pass /\ m.charge \in Charges /\ m.kind \in Kinds /\ m.marked \in SUBSET Kinds
    BY <1>4, UnderWay DEF MailSent, MailFailed, MailUnheard, At, Mailing
  <2>2. /\ ~ Mailing(p)' /\ \A q \in Passes \ {p} : passes'[q] = passes[q]
    BY <1>4, <2>1 DEF MailSent, MailFailed, MailUnheard, BillingTypeOK, Pass, Mailing
  <2>3. m.kind \in m.marked /\ m.marked \subseteq marks[m.charge] /\ \A k \in m.marked : sent[m.charge][k] = 0
    BY <2>1 DEF Marked
  <2>4. \A q \in Passes : Mailing(q)' => Mailing(q) /\ q # p /\ passes'[q].mail = passes[q].mail
    BY <2>2 DEF Mailing
  <2>5. \A q \in Passes \ {p} : Mailing(q) /\ passes[q].mail.charge = m.charge =>
          passes[q].mail.marked \cap m.marked = {}
    BY <2>1 DEF Marked
  <2>6. \A q \in Passes : Mailing(q) => /\ passes[q].mail.charge \in Charges
                                        /\ passes[q].mail.marked \in SUBSET Kinds
    BY UnderWay DEF Mailing
  <2>7. CASE MailSent(p)
    <3>1. sent' = [sent EXCEPT ![m.charge][m.kind] = sent[m.charge][m.kind] + 1] /\ marks' = marks
      BY <2>7 DEF MailSent
    <3> HIDE DEF m
    <3>2. /\ sent'[m.charge][m.kind] = 1
          /\ \A d \in Charges, k \in Kinds : d # m.charge \/ k # m.kind => sent'[d][k] = sent[d][k]
      BY <2>1, <2>3, <3>1 DEF BillingTypeOK
    <3>3. \A d \in Charges, k \in Kinds : sent'[d][k] <= 1 /\ (sent'[d][k] = 1 => k \in marks'[d])
      BY <2>1, <2>3, <3>1, <3>2 DEF Marked
    <3>4. \A q \in Passes : Mailing(q)' =>
            /\ passes'[q].mail.kind \in passes'[q].mail.marked
            /\ passes'[q].mail.marked \subseteq marks'[passes'[q].mail.charge]
            /\ \A k \in passes'[q].mail.marked : sent'[passes'[q].mail.charge][k] = 0
      <4> SUFFICES ASSUME NEW q \in Passes, Mailing(q)'
                   PROVE  LET x == passes[q].mail IN
                          /\ x.kind \in x.marked /\ x.marked \subseteq marks[x.charge]
                          /\ \A k \in x.marked : sent'[x.charge][k] = 0
        BY <2>4, <3>1
      <4> DEFINE x == passes[q].mail
      <4>1. Mailing(q) /\ q # p /\ x.charge \in Charges /\ x.marked \in SUBSET Kinds
        BY <2>4, <2>6
      <4>2. x.kind \in x.marked /\ x.marked \subseteq marks[x.charge] /\ \A k \in x.marked : sent[x.charge][k] = 0
        BY <4>1 DEF Marked
      <4>3. x.charge = m.charge => m.kind \notin x.marked
        BY <2>3, <2>5, <4>1
      <4> HIDE DEF x
      <4>4. \A k \in x.marked : sent'[x.charge][k] = 0
        BY <3>2, <4>1, <4>2, <4>3
      <4> QED BY <4>2, <4>4 DEF x
    <3>5. \A q, r \in Passes : /\ Mailing(q)' /\ Mailing(r)' /\ q # r
                               /\ passes'[q].mail.charge = passes'[r].mail.charge
                               => passes'[q].mail.marked \cap passes'[r].mail.marked = {}
      BY <2>4 DEF Marked
    <3> QED BY <3>3, <3>4, <3>5 DEF Marked, Mailing
  <2>8. CASE MailFailed(p) \/ MailUnheard(p)
    <3>1. marks' = [marks EXCEPT ![m.charge] = marks[m.charge] \ m.marked] /\ sent' = sent
      BY <2>8 DEF MailFailed, MailUnheard
    <3> HIDE DEF m
    <3>2. /\ marks'[m.charge] = marks[m.charge] \ m.marked
          /\ \A d \in Charges \ {m.charge} : marks'[d] = marks[d]
      BY <2>1, <3>1 DEF BillingTypeOK
    <3>3. \A d \in Charges, k \in Kinds : sent'[d][k] <= 1 /\ (sent'[d][k] = 1 => k \in marks'[d])
      <4> TAKE d \in Charges, k \in Kinds
      <4>1. sent[d][k] <= 1 /\ (sent[d][k] = 1 => k \in marks[d])
        BY DEF Marked
      <4>2. d = m.charge /\ k \in m.marked => sent[d][k] = 0
        BY <2>3
      <4> QED BY <3>1, <3>2, <4>1, <4>2
    <3>4. \A q \in Passes : Mailing(q)' =>
            /\ passes'[q].mail.kind \in passes'[q].mail.marked
            /\ passes'[q].mail.marked \subseteq marks'[passes'[q].mail.charge]
            /\ \A k \in passes'[q].mail.marked : sent'[passes'[q].mail.charge][k] = 0
      <4> SUFFICES ASSUME NEW q \in Passes, Mailing(q)'
                   PROVE  LET x == passes[q].mail IN
                          /\ x.kind \in x.marked /\ x.marked \subseteq marks'[x.charge]
                          /\ \A k \in x.marked : sent[x.charge][k] = 0
        BY <2>4, <3>1
      <4> DEFINE x == passes[q].mail
      <4>1. Mailing(q) /\ q # p /\ x.charge \in Charges /\ x.marked \in SUBSET Kinds
        BY <2>4, <2>6
      <4>2. x.kind \in x.marked /\ x.marked \subseteq marks[x.charge] /\ \A k \in x.marked : sent[x.charge][k] = 0
        BY <4>1 DEF Marked
      <4>3. x.charge = m.charge => x.marked \cap m.marked = {}
        BY <2>5, <4>1
      <4> HIDE DEF x
      <4>4. x.marked \subseteq marks'[x.charge]
        BY <3>2, <4>1, <4>2, <4>3
      <4> QED BY <4>2, <4>4 DEF x
    <3>5. \A q, r \in Passes : /\ Mailing(q)' /\ Mailing(r)' /\ q # r
                               /\ passes'[q].mail.charge = passes'[r].mail.charge
                               => passes'[q].mail.marked \cap passes'[r].mail.marked = {}
      BY <2>4 DEF Marked
    <3> QED BY <3>3, <3>4, <3>5 DEF Marked, Mailing
  <2> QED BY <1>4, <2>7, <2>8
<1>5. ASSUME NextDay \/ Console \/ UNCHANGED billingVars
             \/ \E n \in Notices, c \in Charges \cup {None} : SubmitNotice(n, c)
      PROVE  UNCHANGED nightly
  BY <1>5 DEF NextDay, billingVars, Console, ChangePlan, UpdateSubscription, CreateCharge,
              AskVoid, AskPayment, AskConfirm, VoidCharge, Undo, RecordPayment, SubmitNotice, RejectNotice
<1> QED BY <1>1, <1>2, <1>3, <1>4, <1>5 DEF BillingStep, Night

(* Once a pass heard that a reminder went nobody mails it again, though    *)
(* passes overlap, fail, die, and do not hear of mails that went.          *)
THEOREM RemindersAreSentOnce == BillingSpec => RemindedOnce
<1> USE DEF billing, nightly
<1> DEFINE Again(c, k) == sent'[c][k] # sent[c][k] \/ unheard'[c][k] # unheard[c][k]
           NoneAgain == \A c \in Charges, k \in Kinds :
             sent[c][k] > 0 => sent'[c][k] = sent[c][k] /\ unheard'[c][k] = unheard[c][k]
<1>1. BillingInit => Marked
  BY DEF BillingInit, Marked, Mailing
<1>2. BillingTypeOK /\ Marked /\ [BillingStep]_billingVars => NoneAgain
  <2> SUFFICES ASSUME BillingTypeOK, Marked, [BillingStep]_billingVars PROVE NoneAgain
    OBVIOUS
  <2>1. CASE UNCHANGED <<sent, unheard>>
    BY <2>1
  <2>2. ASSUME NEW p \in Passes, MailSent(p) \/ MailUnheard(p) PROVE NoneAgain
    <3> DEFINE m == passes[p].mail
    <3>1. Mailing(p) /\ m.charge \in Charges /\ m.kind \in Kinds
      BY <2>2, UnderWay DEF MailSent, MailUnheard, At, Mailing
    <3>2. sent[m.charge][m.kind] = 0
      BY <3>1 DEF Marked
    <3>3. \/ sent' = [sent EXCEPT ![m.charge][m.kind] = sent[m.charge][m.kind] + 1] /\ unheard' = unheard
          \/ unheard' = [unheard EXCEPT ![m.charge][m.kind] = unheard[m.charge][m.kind] + 1] /\ sent' = sent
      BY <2>2 DEF MailSent, MailUnheard
    <3> HIDE DEF m
    <3>4. \A c \in Charges, k \in Kinds : Again(c, k) => c = m.charge /\ k = m.kind
      BY <3>1, <3>3 DEF BillingTypeOK
    <3> QED BY <3>2, <3>4
  <2>3. (\E p \in Passes : MailSent(p) \/ MailUnheard(p)) \/ UNCHANGED <<sent, unheard>>
    BY DEF BillingStep, billingVars, Console, Night, NextDay, ChangePlan, UpdateSubscription,
           CreateCharge, AskVoid, AskPayment, AskConfirm, VoidCharge, RecordPayment, Undo, BeginPass,
           Renew, SkipRenewal, BeginReminders, MarkReminder, MailFailed, FinishPass, LosePass,
           SubmitNotice, RejectNotice
  <2> QED BY <2>1, <2>2, <2>3
<1>3. BillingTypeOK /\ Marked /\ [BillingStep]_billingVars => Marked'
  BY MarkedStep
<1>4. BillingTypeOK /\ Marked /\ [BillingStep]_billingVars => [NoneAgain]_billingVars
  BY <1>2
<1> QED BY <1>1, <1>3, <1>4, BillingType, PTL DEF BillingSpec, RemindedOnce

-----------------------------------------------------------------------------
(* The operators of the console.                                           *)

Login(r) == consoles[r] # NoOperator /\ consoles[r].kind = "LOGIN"

(* A login was read of a row, and no row is ever deleted.                  *)
Heard == \A r \in Consoles : Login(r) => Known(consoles[r].code.person)

(* The row of an operator there is.                                        *)
LEMMA RowOf ==
  ASSUME OperatorsTypeOK, NEW p \in People, Known(p)
  PROVE  /\ operators[p] \in Operator
         /\ operators[p].version \in 1 .. LastVersion /\ operators[p].version \in Nat
         /\ operators[p].last \in 0 .. LastStep /\ operators[p].last \in Nat
BY OperatorsAssumption DEF OperatorsTypeOK, Known, Operator

(* The code of a login.                                                    *)
LEMMA CodeOf ==
  ASSUME OperatorsTypeOK, NEW r \in Consoles, Login(r)
  PROVE  /\ consoles[r].code \in Code /\ consoles[r].code.person \in People
         /\ consoles[r].code.step \in 1 .. LastStep /\ consoles[r].code.step \in Nat
         /\ consoles[r].code.version \in 1 .. LastVersion /\ consoles[r].code.version \in Nat
<1>1. consoles[r] \in Reading
  BY DEF OperatorsTypeOK, Login
<1>2. consoles[r] \in [kind : {"LOGIN"}, code : Code]
  BY <1>1 DEF Reading, Login
<1> QED BY <1>2, OperatorsAssumption DEF Code

(* Saving a row changes that row.                                          *)
LEMMA SavedRow ==
  ASSUME OperatorsTypeOK, NEW p \in People, NEW row, Save(p, row)
  PROVE  operators'[p] = row /\ \A q \in People \ {p} : operators'[q] = operators[q]
BY DEF OperatorsTypeOK, Save

(* The row of a new operator.                                              *)
LEMMA FirstRow ==
  ASSUME NEW via \in {"CLI", "BOOTSTRAP"}
  PROVE  Pending(via) \in Operator /\ Pending(via).via = via
<1>1. 1 \in 1 .. LastVersion /\ 0 \in 0 .. LastStep
  BY OperatorsAssumption
<1> QED BY <1>1 DEF Pending, Operator

(* What each write makes of a row.                                         *)
LEMMA ResetRow ==
  ASSUME OperatorsTypeOK, NEW p \in People, ResetOperator(p)
  PROVE  /\ operators'[p] \in Operator /\ operators'[p].version = operators[p].version + 1
         /\ ~operators'[p].activated
         /\ \A q \in People \ {p} : operators'[q] = operators[q]
<1> DEFINE row == [operators[p] EXCEPT !.activated = FALSE, !.link = "OPEN",
                                       !.version = operators[p].version + 1, !.last = 0]
<1>1. operators[p] \in Operator /\ operators[p].version < LastVersion /\ Save(p, row)
  BY DEF ResetOperator, Known, OperatorsTypeOK
<1>2. operators[p].version + 1 \in 1 .. LastVersion /\ 0 \in 0 .. LastStep
  BY <1>1, OperatorsAssumption DEF Operator
<1>3. row \in Operator
  BY <1>1, <1>2 DEF Operator
<1>4. row.version = operators[p].version + 1 /\ row.activated = FALSE
  BY <1>1 DEF Operator
<1>5. operators'[p] = row /\ \A q \in People \ {p} : operators'[q] = operators[q]
  <2> HIDE DEF row
  <2> QED BY <1>1, SavedRow
<1> QED BY <1>3, <1>4, <1>5

(* A completed setup spends its link and the code it was completed with.   *)
LEMMA CompletedRow ==
  ASSUME OperatorsTypeOK, NEW p \in People, NEW c \in Code, SetupComplete(p, c)
  PROVE  /\ operators[p].link = "OPEN" /\ operators[p] \in Operator
         /\ operators'[p] \in Operator /\ operators'[p].version = operators[p].version
         /\ operators'[p].link = "NONE" /\ operators'[p].last = c.step
         /\ c.person = p /\ c.version = operators[p].version
         /\ \A q \in People \ {p} : operators'[q] = operators[q]
<1> DEFINE row == [operators[p] EXCEPT !.activated = TRUE, !.link = "NONE", !.last = c.step]
<1>1. /\ operators[p] \in Operator /\ operators[p].link = "OPEN" /\ Save(p, row)
      /\ c.person = p /\ c.version = operators[p].version
  BY DEF SetupComplete, Known, OperatorsTypeOK, CodesOf
<1>2. c.step \in 0 .. LastStep
  BY OperatorsAssumption DEF Code
<1>3. row \in Operator /\ row.version = operators[p].version /\ row.link = "NONE" /\ row.last = c.step
  BY <1>1, <1>2 DEF Operator
<1>4. operators'[p] = row /\ \A q \in People \ {p} : operators'[q] = operators[q]
  <2> HIDE DEF row
  <2> QED BY <1>1, SavedRow
<1> QED BY <1>1, <1>3, <1>4

(* A login that is let in spends a later code than the row had.            *)
LEMMA SignedInRow ==
  ASSUME OperatorsTypeOK, Heard, NEW r \in Consoles, SignIn(r), NEW p, p = consoles[r].code.person
  PROVE  /\ Login(r) /\ p \in People /\ Known(p) /\ operators[p].last < consoles[r].code.step
         /\ operators'[p] \in Operator /\ operators'[p].version = operators[p].version
         /\ operators'[p].link = operators[p].link
         /\ operators'[p].activated = operators[p].activated
         /\ operators'[p].last = consoles[r].code.step
         /\ \A q \in People \ {p} : operators'[q] = operators[q]
<1> DEFINE c == consoles[r].code
           row == [operators[p] EXCEPT !.last = c.step]
<1>1. Login(r) /\ operators[p].last < c.step /\ Save(p, row)
  BY DEF SignIn, Login, Advances
<1>2. p \in People /\ c.step \in 0 .. LastStep /\ Known(p)
  BY <1>1, CodeOf, OperatorsAssumption DEF Heard
<1>3. operators[p] \in Operator
  BY <1>2, RowOf
<1>4. /\ row \in Operator /\ row.version = operators[p].version /\ row.link = operators[p].link
      /\ row.activated = operators[p].activated /\ row.last = c.step
  BY <1>2, <1>3 DEF Operator
<1>5. operators'[p] = row /\ \A q \in People \ {p} : operators'[q] = operators[q]
  <2> HIDE DEF row
  <2> QED BY <1>1, <1>2, SavedRow
<1> QED BY <1>1, <1>2, <1>4, <1>5

(* Switching an operator, or the end of a link, spends and restores        *)
(* nothing.                                                                *)
LEMMA SwitchedRow ==
  ASSUME OperatorsTypeOK, NEW p \in People,
         SetupExpires(p) \/ \E active \in BOOLEAN : SetOperatorActive(p, active)
  PROVE  /\ operators[p] \in Operator
         /\ operators'[p] \in Operator /\ operators'[p].version = operators[p].version
         /\ operators'[p].activated = operators[p].activated
         /\ operators[p].link = "NONE" => operators'[p].link = "NONE"
         /\ operators'[p].last = operators[p].last
         /\ \A q \in People \ {p} : operators'[q] = operators[q]
<1>1. operators[p] \in Operator
  BY DEF SetupExpires, SetOperatorActive, Known, OperatorsTypeOK
<1>2. CASE SetupExpires(p)
  <2> DEFINE row == [operators[p] EXCEPT !.link = "EXPIRED"]
  <2>1. /\ row \in Operator /\ row.version = operators[p].version /\ row.last = operators[p].last
        /\ row.activated = operators[p].activated /\ operators[p].link = "OPEN"
    BY <1>1, <1>2 DEF Operator, SetupExpires
  <2>2. Save(p, row)
    BY <1>2 DEF SetupExpires
  <2> HIDE DEF row
  <2> QED BY <1>1, <2>1, <2>2, SavedRow
<1>3. ASSUME NEW active \in BOOLEAN, SetOperatorActive(p, active) PROVE
         /\ operators'[p] \in Operator /\ operators'[p].version = operators[p].version
         /\ operators'[p].activated = operators[p].activated
         /\ operators'[p].link = operators[p].link
         /\ operators'[p].last = operators[p].last
         /\ \A q \in People \ {p} : operators'[q] = operators[q]
  <2> DEFINE row == [operators[p] EXCEPT !.active = active]
  <2>1. /\ row \in Operator /\ row.version = operators[p].version /\ row.last = operators[p].last
        /\ row.activated = operators[p].activated /\ row.link = operators[p].link
    BY <1>1 DEF Operator
  <2>2. Save(p, row)
    BY <1>3 DEF SetOperatorActive
  <2> HIDE DEF row
  <2> QED BY <2>1, <2>2, SavedRow
<1> QED BY <1>1, <1>2, <1>3

(* A row that is made was never activated.                                 *)
LEMMA CreatedRow ==
  ASSUME OperatorsTypeOK, NEW p \in People, NEW via \in {"CLI", "BOOTSTRAP"},
         ~Known(p), Save(p, Pending(via))
  PROVE  /\ operators'[p] \in Operator /\ operators'[p].via = via
         /\ ~operators'[p].activated /\ Known(p)'
         /\ \A q \in People \ {p} : operators'[q] = operators[q]
<1> DEFINE row == Pending(via)
<1>1. row \in Operator /\ row.via = via /\ row.activated = FALSE
  BY FirstRow DEF Pending
<1>2. operators'[p] = row /\ \A q \in People \ {p} : operators'[q] = operators[q]
  <2> HIDE DEF row
  <2> QED BY SavedRow DEF row
<1>3. Known(p)'
  <2> HIDE DEF row
  <2> QED BY <1>1, <1>2, NoOperatorIsNoRow DEF Known
<1> QED BY <1>1, <1>2, <1>3

(* So does the bootstrap.                                                  *)
LEMMA BootstrapRow ==
  ASSUME OperatorsTypeOK, NEW r \in Consoles, Bootstrap(r), NEW p, p = consoles[r].person
  PROVE  /\ p \in People /\ ~Known(p) /\ Save(p, Pending("BOOTSTRAP"))
         /\ operators'[p] \in Operator /\ operators'[p].via = "BOOTSTRAP"
         /\ ~operators'[p].activated /\ Known(p)'
         /\ \A q \in People \ {p} : operators'[q] = operators[q]
<1>1. consoles[r] \in [kind : {"BOOTSTRAP"}, person : People, free : BOOLEAN]
  BY DEF Bootstrap, Bootstrapping, OperatorsTypeOK, Reading
<1>2. p \in People /\ ~Known(p) /\ Save(p, Pending("BOOTSTRAP"))
  BY <1>1 DEF Bootstrap
<1> QED BY <1>2, CreatedRow

(* No row is deleted, and a row only goes forward: it takes a new          *)
(* authenticator, or keeps the one it has and then, once the link is       *)
(* spent, keeps it spent and accepts later codes only.                     *)
Forward(p) ==
  /\ operators'[p] \in Operator \cup {NoOperator}
  /\ Known(p) =>
       /\ Known(p)'
       /\ \/ operators'[p].version > operators[p].version
          \/ /\ operators'[p].version = operators[p].version
             /\ operators[p].link = "NONE" =>
                  operators'[p].link = "NONE" /\ operators'[p].last >= operators[p].last
  /\ Known(p)' /\ operators'[p].activated =>
       \/ operators'[p].link = "NONE"
       \/ Known(p) /\ operators[p].activated /\ operators[p].link # "NONE"

(* A row that stays goes forward.                                          *)
LEMMA SameRow ==
  ASSUME OperatorsTypeOK, NEW p \in People, operators'[p] = operators[p] PROVE Forward(p)
<1>1. CASE Known(p)
  BY <1>1, RowOf DEF Forward, Known
<1>2. CASE ~Known(p)
  BY <1>2 DEF Forward, Known
<1> QED BY <1>1, <1>2

(* So does a new one.                                                      *)
LEMMA NewRow ==
  ASSUME OperatorsTypeOK, NEW p \in People, ~Known(p), operators'[p] \in Operator,
         ~operators'[p].activated
  PROVE  Forward(p)
BY DEF Forward

(* No step takes a row back: neither its authenticator nor its last code.  *)
LEMMA RowsGoForward ==
  ASSUME OperatorsTypeOK, Heard, [OperatorsStep]_consoleVars, NEW q \in People PROVE Forward(q)
<1>1. CASE operators' = operators
  BY <1>1, SameRow
<1>2. ASSUME NEW p \in People, CreateOperator(p) PROVE Forward(q)
  <2>1. ~Known(p) /\ Save(p, Pending("CLI"))
    BY <1>2 DEF CreateOperator
  <2>2. /\ operators'[p] \in Operator /\ ~operators'[p].activated
        /\ \A x \in People \ {p} : operators'[x] = operators[x]
    BY <2>1, CreatedRow
  <2> QED BY <2>1, <2>2, NewRow, SameRow
<1>3. ASSUME NEW r \in Consoles, Bootstrap(r) PROVE Forward(q)
  <2>1. PICK p : p = consoles[r].person
    OBVIOUS
  <2>2. /\ p \in People /\ ~Known(p) /\ operators'[p] \in Operator /\ ~operators'[p].activated
        /\ \A x \in People \ {p} : operators'[x] = operators[x]
    BY <1>3, <2>1, BootstrapRow
  <2> QED BY <2>2, NewRow, SameRow
<1>4. ASSUME NEW p \in People, ResetOperator(p) PROVE Forward(q)
  <2>1. /\ operators'[p] \in Operator /\ operators'[p].version = operators[p].version + 1
        /\ ~operators'[p].activated
        /\ \A x \in People \ {p} : operators'[x] = operators[x]
    BY <1>4, ResetRow
  <2>2. Known(p) /\ operators[p].version \in Nat
    BY <1>4, RowOf DEF ResetOperator
  <2>3. operators'[p].version > operators[p].version
    BY <2>1, <2>2
  <2>4. Forward(p)
    BY <2>1, <2>3, NoOperatorIsNoRow DEF Forward, Known
  <2> QED BY <2>1, <2>4, SameRow
<1>5. ASSUME NEW p \in People, NEW c \in Code, SetupComplete(p, c) PROVE Forward(q)
  <2>1. /\ operators[p].link = "OPEN" /\ operators'[p] \in Operator
        /\ operators'[p].version = operators[p].version /\ operators'[p].link = "NONE"
        /\ \A x \in People \ {p} : operators'[x] = operators[x]
    BY <1>5, CompletedRow
  <2>2. Forward(p)
    BY <2>1, NoOperatorIsNoRow DEF Forward, Known
  <2> QED BY <2>1, <2>2, SameRow
<1>6. ASSUME NEW r \in Consoles, SignIn(r) PROVE Forward(q)
  <2>1. PICK p : p = consoles[r].code.person
    OBVIOUS
  <2>2. /\ Login(r) /\ p \in People /\ Known(p) /\ operators[p].last < consoles[r].code.step
        /\ operators'[p] \in Operator /\ operators'[p].version = operators[p].version
        /\ operators'[p].link = operators[p].link
        /\ operators'[p].activated = operators[p].activated
        /\ operators'[p].last = consoles[r].code.step
        /\ \A x \in People \ {p} : operators'[x] = operators[x]
    BY <1>6, <2>1, SignedInRow
  <2>3. operators'[p].last >= operators[p].last
    BY <2>2, RowOf, CodeOf
  <2>4. Known(p)'
    BY <2>2, NoOperatorIsNoRow DEF Known
  <2>5. Forward(p)
    BY <2>2, <2>3, <2>4 DEF Forward
  <2> QED BY <2>2, <2>5, SameRow
<1>7. ASSUME NEW p \in People, SetupExpires(p) \/ \E active \in BOOLEAN : SetOperatorActive(p, active)
      PROVE  Forward(q)
  <2>1. /\ operators[p] \in Operator
        /\ operators'[p] \in Operator /\ operators'[p].version = operators[p].version
        /\ operators'[p].activated = operators[p].activated
        /\ operators[p].link = "NONE" => operators'[p].link = "NONE"
        /\ operators'[p].last = operators[p].last
        /\ \A x \in People \ {p} : operators'[x] = operators[x]
    BY <1>7, SwitchedRow
  <2>2. Known(p) /\ Known(p)' /\ operators[p].last \in Nat
    BY <2>1, NoOperatorIsNoRow, RowOf DEF Known
  <2>3. operators'[p].last >= operators[p].last
    BY <2>1, <2>2
  <2>4. Forward(p)
    BY <2>1, <2>2, <2>3 DEF Forward
  <2> QED BY <2>1, <2>4, SameRow
<1> QED BY <1>1, <1>2, <1>3, <1>4, <1>5, <1>6, <1>7
    DEF OperatorsStep, StepOn, AskBootstrap, CountOperators, GiveUp, SignInRead, consoleVars

(* Every step keeps the types and what requests have heard.                *)
LEMMA OperatorsTypeStep ==
  ASSUME OperatorsTypeOK, Heard, [OperatorsStep]_consoleVars PROVE OperatorsTypeOK' /\ Heard'
<1>1. operators' \in [People -> Operator \cup {NoOperator}]
  <2>1. \A p \in People : operators'[p] \in Operator \cup {NoOperator}
    BY RowsGoForward DEF Forward
  <2>2. \/ operators' = operators
        \/ \E p \in People : \E row : Save(p, row)
    <3>1. ASSUME NEW r \in Consoles, Bootstrap(r) PROVE consoles[r].person \in People
      BY <3>1, BootstrapRow
    <3>2. ASSUME NEW r \in Consoles, SignIn(r) PROVE consoles[r].code.person \in People
      BY <3>2, SignedInRow
    <3> QED BY <3>1, <3>2 DEF OperatorsStep, StepOn, AskBootstrap, CountOperators, GiveUp,
               SignInRead, consoleVars, SetupExpires, CreateOperator, ResetOperator,
               SetOperatorActive, SetupComplete, Bootstrap, SignIn
  <2>3. ASSUME NEW p \in People, NEW row, Save(p, row)
        PROVE  operators' \in [People -> Operator \cup {NoOperator}]
    <3>1. operators'[p] = row
      BY <2>3, SavedRow
    <3>2. row \in Operator \cup {NoOperator}
      BY <2>1, <3>1
    <3> QED BY <2>3, <3>2 DEF Save, OperatorsTypeOK
  <2>4. CASE operators' = operators
    BY <2>4 DEF OperatorsTypeOK
  <2>5. CASE \E p \in People : \E row : Save(p, row)
    <3>1. PICK p \in People, row \in {operators'[q] : q \in People} : Save(p, row)
      BY <2>5, SavedRow
    <3> QED BY <3>1, <2>3
  <2> QED BY <2>2, <2>4, <2>5
<1>2. step' \in 1 .. LastStep
  <2>1. StepOn \/ step' = step
    BY DEF OperatorsStep, AskBootstrap, CountOperators, GiveUp, SignInRead, consoleVars,
       SetupExpires, CreateOperator, ResetOperator, SetOperatorActive, SetupComplete,
       Bootstrap, SignIn
  <2> QED BY <2>1, OperatorsAssumption DEF OperatorsTypeOK, StepOn
<1>3. lock' \in Consoles \cup {NoOperator}
  BY DEF OperatorsTypeOK, OperatorsStep, StepOn, AskBootstrap, CountOperators, GiveUp,
     SignInRead, consoleVars, SetupExpires, CreateOperator, ResetOperator, SetOperatorActive,
     SetupComplete, Bootstrap, SignIn, LockTable, Unlocked
<1>4. accepted' \in [Code -> Nat]
  <2>1. ASSUME NEW c \in Code, accepted' = [accepted EXCEPT ![c] = @ + 1] PROVE accepted' \in [Code -> Nat]
    BY <2>1 DEF OperatorsTypeOK
  <2>2. ASSUME NEW r \in Consoles, SignIn(r) PROVE accepted' \in [Code -> Nat]
    <3>1. consoles[r].code \in Code
      BY <2>2, CodeOf, SignedInRow
    <3> QED BY <2>1, <2>2, <3>1 DEF SignIn, OperatorsTypeOK
  <2> QED BY <2>1, <2>2 DEF OperatorsTypeOK, OperatorsStep, StepOn, AskBootstrap, CountOperators, GiveUp,
     SignInRead, consoleVars, SetupExpires, CreateOperator, ResetOperator, SetOperatorActive,
     SetupComplete, Bootstrap
<1>5. /\ consoles' \in [Consoles -> Reading \cup {NoOperator}]
      /\ \A r \in Consoles : Login(r)' => \/ Login(r) /\ consoles'[r] = consoles[r]
                                          \/ Known(consoles'[r].code.person) /\ consoles'[r].code \in Code
  <2>1. ASSUME NEW r \in Consoles, NEW p \in People, AskBootstrap(r, p) PROVE <1>5!1 /\ <1>5!2
    <3>1. [kind |-> "BOOTSTRAP", person |-> p, free |-> FALSE] \in Reading
      BY DEF Reading
    <3> QED BY <2>1, <3>1 DEF AskBootstrap, OperatorsTypeOK, Login
  <2>2. ASSUME NEW r \in Consoles, CountOperators(r) PROVE <1>5!1 /\ <1>5!2
    <3>1. consoles[r] \in [kind : {"BOOTSTRAP"}, person : People, free : BOOLEAN]
      BY <2>2 DEF CountOperators, Bootstrapping, OperatorsTypeOK, Reading
    <3>2. [consoles[r] EXCEPT !.free = TRUE] \in [kind : {"BOOTSTRAP"}, person : People, free : BOOLEAN]
      BY <3>1
    <3>3. [consoles[r] EXCEPT !.free = TRUE] \in Reading /\ [consoles[r] EXCEPT !.free = TRUE].kind = "BOOTSTRAP"
      BY <3>1, <3>2 DEF Reading
    <3>4. /\ consoles' = [consoles EXCEPT ![r] = [consoles[r] EXCEPT !.free = TRUE]]
      BY <2>2 DEF CountOperators, OperatorsTypeOK
    <3> QED BY <3>3, <3>4 DEF OperatorsTypeOK, Login
  <2>3. ASSUME NEW r \in Consoles, consoles' = [consoles EXCEPT ![r] = NoOperator] PROVE <1>5!1 /\ <1>5!2
    BY <2>3 DEF OperatorsTypeOK, Login
  <2>4. ASSUME NEW r \in Consoles, NEW p \in People, NEW c \in Code, SignInRead(r, p, c) PROVE <1>5!1 /\ <1>5!2
    <3>1. [kind |-> "LOGIN", code |-> c] \in Reading
      BY DEF Reading
    <3>2. Known(c.person)
      BY <2>4 DEF SignInRead, CodesOf
    <3> QED BY <2>4, <3>1, <3>2 DEF SignInRead, OperatorsTypeOK, Login
  <2>5. CASE consoles' = consoles
    BY <2>5 DEF OperatorsTypeOK, Login
  <2> QED BY <2>1, <2>2, <2>3, <2>4, <2>5 DEF OperatorsStep, StepOn, GiveUp,
     consoleVars, SetupExpires, CreateOperator, ResetOperator, SetOperatorActive,
     SetupComplete, Bootstrap, SignIn
<1>6. Heard'
  <2> SUFFICES ASSUME NEW r \in Consoles, Login(r)'
               PROVE  operators'[consoles'[r].code.person] # NoOperator
    BY DEF Heard, Known
  <2>1. /\ Known(consoles'[r].code.person) /\ consoles'[r].code.person \in People
    BY <1>5, CodeOf DEF Heard, Code
  <2> QED BY <2>1, RowsGoForward DEF Forward, Known
<1> QED BY <1>1, <1>2, <1>3, <1>4, <1>5, <1>6 DEF OperatorsTypeOK

(* Types, and every request under way heard what the code before it        *)
(* found: what the other invariants of the operators rest on.              *)
THEOREM OperatorsAreTyped == OperatorsSpec => [](OperatorsTypeOK /\ Heard)
<1>1. OperatorsInit => OperatorsTypeOK /\ Heard
  BY OperatorsAssumption DEF OperatorsInit, OperatorsTypeOK, Heard, Login
<1>2. (OperatorsTypeOK /\ Heard) /\ [OperatorsStep]_consoleVars => (OperatorsTypeOK /\ Heard)'
  BY OperatorsTypeStep
<1> QED BY <1>1, <1>2, PTL DEF OperatorsSpec

(* Operators, codes, and what each request has read of them stay what      *)
(* they are (services/operators.js).                                       *)
THEOREM OperatorsType == OperatorsSpec => []OperatorsTypeOK
BY OperatorsAreTyped, PTL

(* A code of an authenticator that the row had, and that was activated if  *)
(* the row has it still.                                                   *)
Behind(c) ==
  /\ Known(c.person) /\ c.version <= operators[c.person].version
  /\ c.version = operators[c.person].version => operators[c.person].link = "NONE"

BehindNext(c) ==
  /\ operators'[c.person] # NoOperator /\ c.version <= operators'[c.person].version
  /\ c.version = operators'[c.person].version => operators'[c.person].link = "NONE"

(* A code that was accepted is behind its row, and not ahead of the last   *)
(* one it accepted; a login was read behind its row as well.               *)
CodesSpent ==
  /\ \A p \in People : Known(p) /\ operators[p].activated => operators[p].link = "NONE"
  /\ \A c \in Code : accepted[c] # 0 =>
       /\ accepted[c] = 1 /\ Behind(c)
       /\ c.version = operators[c.person].version => c.step <= operators[c.person].last
  /\ \A r \in Consoles : Login(r) => Behind(consoles[r].code)

(* The parts of a code.                                                    *)
LEMMA CodeParts ==
  ASSUME NEW c \in Code
  PROVE  /\ c.person \in People /\ c.version \in Nat /\ c.step \in Nat
BY OperatorsAssumption DEF Code

(* A code that is behind its row stays behind.                             *)
LEMMA StaysBehind ==
  ASSUME OperatorsTypeOK, Heard, [OperatorsStep]_consoleVars, NEW c \in Code, Behind(c)
  PROVE  /\ operators'[c.person] # NoOperator
         /\ c.version <= operators'[c.person].version
         /\ c.version = operators'[c.person].version =>
              /\ operators'[c.person].link = "NONE"
              /\ c.version = operators[c.person].version
              /\ operators'[c.person].last >= operators[c.person].last
<1> DEFINE p == c.person
<1>1. p \in People /\ c.version \in Nat
  BY CodeParts
<1>2. Forward(p) /\ Known(p)
  BY <1>1, RowsGoForward DEF Behind
<1>3. Known(p)' /\ operators'[p] \in Operator
  BY <1>2 DEF Forward, Known
<1>4. operators'[p].version \in Nat /\ operators[p].version \in Nat
  BY <1>1, <1>2, <1>3, RowOf, OperatorsAssumption DEF Operator
<1> QED BY <1>1, <1>2, <1>3, <1>4 DEF Forward, Behind, Known

Spends(c) ==
  /\ accepted[c] = 0 /\ accepted'[c] = 1
  /\ operators'[c.person].last = c.step /\ operators'[c.person].version = c.version
  /\ operators'[c.person].link = "NONE" /\ operators'[c.person] \in Operator

(* The only steps that accept a code find it unspent and spend it.         *)
LEMMA AcceptedUnspent ==
  ASSUME OperatorsTypeOK, Heard, CodesSpent, [OperatorsStep]_consoleVars, NEW c \in Code,
         accepted'[c] # accepted[c]
  PROVE  Spends(c)
<1>1. ASSUME NEW p \in People, NEW d \in Code, SetupComplete(p, d) PROVE Spends(c)
  <2>1. /\ operators[p].link = "OPEN" /\ operators'[p] \in Operator
        /\ operators'[p].version = operators[p].version
        /\ operators'[p].link = "NONE" /\ operators'[p].last = d.step
        /\ d.person = p /\ d.version = operators[p].version
    BY <1>1, CompletedRow
  <2>2. accepted' = [accepted EXCEPT ![d] = accepted[d] + 1]
    BY <1>1 DEF SetupComplete, OperatorsTypeOK
  <2>3. c = d /\ accepted'[d] = accepted[d] + 1
    BY <2>2 DEF OperatorsTypeOK
  <2>4. accepted[d] = 0
    BY <2>1 DEF CodesSpent, Behind
  <2> QED BY <2>1, <2>3, <2>4 DEF Spends
<1>2. ASSUME NEW r \in Consoles, SignIn(r) PROVE Spends(c)
  <2> DEFINE d == consoles[r].code
  <2>1. PICK p : p = d.person
    OBVIOUS
  <2>2. /\ Login(r) /\ p \in People /\ Known(p) /\ operators[p].last < d.step
        /\ operators'[p] \in Operator /\ operators'[p].version = operators[p].version
        /\ operators'[p].link = operators[p].link /\ operators'[p].last = d.step
    BY <1>2, <2>1, SignedInRow
  <2>3. d \in Code /\ d.step \in Nat /\ operators[p].last \in Nat
    BY <2>2, CodeOf, RowOf
  <2>4. /\ operators[p].version = d.version
        /\ accepted' = [accepted EXCEPT ![d] = accepted[d] + 1]
    BY <1>2, <2>1 DEF SignIn, OperatorsTypeOK
  <2>5. c = d /\ accepted'[d] = accepted[d] + 1
    BY <2>3, <2>4 DEF OperatorsTypeOK
  <2>6. Behind(d)
    BY <2>2 DEF CodesSpent
  <2>7. accepted[d] = 0
    <3> HIDE DEF d
    <3> QED BY <2>1, <2>2, <2>3, <2>4 DEF CodesSpent
  <2> QED BY <2>1, <2>2, <2>4, <2>5, <2>6, <2>7 DEF Behind, Spends
<1> QED BY <1>1, <1>2 DEF OperatorsStep, StepOn, AskBootstrap, CountOperators, GiveUp, SignInRead,
       consoleVars, SetupExpires, CreateOperator, ResetOperator, SetOperatorActive, Bootstrap

(* An accepted code is behind its row, so none is accepted again.          *)
LEMMA CodesSpentStep ==
  ASSUME OperatorsTypeOK, Heard, CodesSpent, [OperatorsStep]_consoleVars PROVE CodesSpent'
<1>1. ASSUME NEW p \in People, Known(p)', operators'[p].activated PROVE operators'[p].link = "NONE"
  <2>1. Forward(p)
    BY RowsGoForward
  <2>2. Known(p) /\ operators[p].activated => operators[p].link = "NONE"
    BY DEF CodesSpent
  <2> QED BY <1>1, <2>1, <2>2 DEF Forward
<1>2. ASSUME NEW c \in Code, accepted'[c] # 0
      PROVE  /\ accepted'[c] = 1 /\ Behind(c)'
             /\ c.version = operators'[c.person].version => c.step <= operators'[c.person].last
  <2>1. c.person \in People /\ c.version \in Nat /\ c.step \in Nat
    BY CodeParts
  <2>2. CASE accepted'[c] = accepted[c]
    <3>1. /\ accepted[c] = 1 /\ Behind(c)
          /\ c.version = operators[c.person].version => c.step <= operators[c.person].last
      BY <1>2, <2>2 DEF CodesSpent
    <3>2. /\ operators'[c.person] # NoOperator
          /\ c.version <= operators'[c.person].version
          /\ c.version = operators'[c.person].version =>
               /\ operators'[c.person].link = "NONE"
               /\ c.version = operators[c.person].version
               /\ operators'[c.person].last >= operators[c.person].last
      BY <3>1, StaysBehind
    <3>3. operators'[c.person] \in Operator /\ Known(c.person)
      BY <2>1, <3>1, <3>2, RowsGoForward DEF Forward, Behind
    <3>4. operators'[c.person].last \in Nat /\ operators[c.person].last \in Nat
      BY <2>1, <3>3, RowOf DEF Operator
    <3> QED BY <2>1, <2>2, <3>1, <3>2, <3>4 DEF Behind, Known
  <2>3. CASE accepted'[c] # accepted[c]
    <3>1. Spends(c)
      BY <2>3, AcceptedUnspent
    <3> QED BY <2>1, <3>1, NoOperatorIsNoRow DEF Spends, Behind, Known
  <2> QED BY <2>2, <2>3
<1>3. ASSUME NEW r \in Consoles, Login(r)' PROVE BehindNext(consoles'[r].code)
  <2> DEFINE c == consoles'[r].code
  <2>1. \/ Login(r) /\ consoles'[r] = consoles[r]
        \/ \E p \in People, d \in Code : SignInRead(r, p, d)
    <3>1. ASSUME NEW q \in Consoles, CountOperators(q)
          PROVE  Login(r) /\ consoles'[r] = consoles[r]
      <4>1. consoles'[q] = [consoles[q] EXCEPT !.free = TRUE] /\ consoles[q] \in Reading
            /\ \A x \in Consoles \ {q} : consoles'[x] = consoles[x]
        BY <3>1 DEF CountOperators, Bootstrapping, OperatorsTypeOK
      <4>2. consoles'[q].kind = "BOOTSTRAP"
        BY <3>1, <4>1 DEF CountOperators, Bootstrapping, Reading
      <4> QED BY <1>3, <4>1, <4>2 DEF Login
    <3>2. ASSUME NEW q \in Consoles, NEW p \in People, AskBootstrap(q, p)
          PROVE  Login(r) /\ consoles'[r] = consoles[r]
      BY <1>3, <3>2 DEF AskBootstrap, OperatorsTypeOK, Login
    <3>3. ASSUME NEW q \in Consoles, consoles' = [consoles EXCEPT ![q] = NoOperator]
          PROVE  Login(r) /\ consoles'[r] = consoles[r]
      BY <1>3, <3>3 DEF OperatorsTypeOK, Login
    <3>4. ASSUME consoles' = consoles PROVE Login(r) /\ consoles'[r] = consoles[r]
      BY <1>3, <3>4 DEF Login
    <3>5. ASSUME NEW q \in Consoles, NEW p \in People, NEW d \in Code, SignInRead(q, p, d), q # r
          PROVE  Login(r) /\ consoles'[r] = consoles[r]
      BY <1>3, <3>5 DEF SignInRead, OperatorsTypeOK, Login
    <3> QED BY <3>1, <3>2, <3>3, <3>4, <3>5
        DEF OperatorsStep, StepOn, GiveUp, consoleVars, SetupExpires, CreateOperator,
            ResetOperator, SetOperatorActive, SetupComplete, Bootstrap, SignIn
  <2>2. CASE Login(r) /\ consoles'[r] = consoles[r]
    <3>1. c \in Code /\ Behind(c)
      BY <2>2, CodeOf DEF CodesSpent
    <3> HIDE DEF c
    <3>2. BehindNext(c)
      BY <3>1, StaysBehind DEF BehindNext
    <3> QED BY <3>2 DEF c
  <2>3. ASSUME NEW p \in People, NEW d \in Code, SignInRead(r, p, d) PROVE BehindNext(c)
    <3>1. consoles'[r] = [kind |-> "LOGIN", code |-> d] /\ operators' = operators
      BY <2>3 DEF SignInRead, OperatorsTypeOK
    <3>2. Known(p) /\ operators[p].activated /\ d.person = p /\ d.version = operators[p].version
      BY <2>3 DEF SignInRead, CodesOf
    <3>3. operators[p].link = "NONE"
      BY <3>2 DEF CodesSpent
    <3>4. d.version <= operators[p].version
      BY <3>2, RowOf
    <3>5. BehindNext(d)
      BY <3>1, <3>2, <3>3, <3>4 DEF BehindNext, Known
    <3>6. c = d
      BY <3>1
    <3> QED BY <3>5, <3>6
  <2> QED BY <2>1, <2>2, <2>3
<1> QED BY <1>1, <1>2, <1>3 DEF CodesSpent, Known, Behind, BehindNext

(* A code is accepted once as long as its authenticator holds: by two      *)
(* logins that read the row at once, by an activation and a login, after   *)
(* any resets (operatorLogin, setup's complete).                           *)
THEOREM OperatorCodesAreAcceptedOnce == OperatorsSpec => []OperatorCodeOnce
<1>1. OperatorsInit => CodesSpent
  BY DEF OperatorsInit, CodesSpent, Known, Login
<1>2. OperatorsTypeOK /\ CodesSpent => OperatorCodeOnce
  <2> SUFFICES ASSUME OperatorsTypeOK, CodesSpent, NEW c \in Code PROVE accepted[c] <= 1
    BY DEF OperatorCodeOnce
  <2> QED BY DEF CodesSpent
<1>3. (OperatorsTypeOK /\ Heard) /\ CodesSpent /\ [OperatorsStep]_consoleVars => CodesSpent'
  BY CodesSpentStep
<1> QED BY <1>1, <1>2, <1>3, OperatorsAreTyped, PTL DEF OperatorsSpec

(* Whoever has found the table empty holds it, and it is empty still.      *)
FoundEmpty ==
  \A r \in Consoles : Bootstrapping(r) /\ consoles[r].free =>
    lock = r /\ \A p \in People : ~Known(p)

(* Who found no operator holds the lock, so there is none until it         *)
(* commits.                                                                *)
LEMMA FoundEmptyStep ==
  ASSUME OperatorsTypeOK, Heard, FoundEmpty, [OperatorsStep]_consoleVars PROVE FoundEmpty'
<1> DEFINE Free(r) == Bootstrapping(r) /\ consoles[r].free
<1>1. ASSUME NEW r \in Consoles, CountOperators(r) PROVE FoundEmpty'
  <2>1. \A q \in Consoles : ~Free(q)
    BY <1>1, OperatorsAssumption DEF CountOperators, LockTable, FoundEmpty
  <2>2. \A q \in Consoles \ {r} : consoles'[q] = consoles[q]
    BY <1>1 DEF CountOperators
  <2>3. lock' = r /\ \A p \in People : operators'[p] = NoOperator
    BY <1>1 DEF CountOperators, LockTable, BootstrapAllowed, Known
  <2> QED BY <2>1, <2>2, <2>3 DEF FoundEmpty, Bootstrapping, Known
<1>2. ASSUME NEW r \in Consoles, Bootstrap(r) PROVE FoundEmpty'
  <2>1. \A q \in Consoles \ {r} : ~Free(q)
    BY <1>2 DEF Bootstrap, FoundEmpty
  <2>2. consoles'[r] = NoOperator /\ \A q \in Consoles \ {r} : consoles'[q] = consoles[q]
    BY <1>2 DEF Bootstrap, OperatorsTypeOK
  <2> QED BY <2>1, <2>2 DEF FoundEmpty, Bootstrapping
<1>3. ASSUME NEW r \in Consoles, GiveUp(r) PROVE FoundEmpty'
  <2>1. /\ consoles'[r] = NoOperator /\ \A q \in Consoles \ {r} : consoles'[q] = consoles[q]
        /\ operators' = operators /\ (lock # r => lock' = lock)
    BY <1>3 DEF GiveUp, OperatorsTypeOK, Unlocked
  <2> QED BY <2>1 DEF FoundEmpty, Bootstrapping, Known
<1>4. ASSUME NEW r \in Consoles, consoles[r] = NoOperator, operators' = operators, lock' = lock,
             \A q \in Consoles \ {r} : consoles'[q] = consoles[q],
             consoles'[r].kind = "LOGIN" \/ consoles'[r].free = FALSE
      PROVE  FoundEmpty'
  BY <1>4 DEF FoundEmpty, Bootstrapping, Known
<1>5. ASSUME Writable \/ \E p \in People : Known(p), lock' = lock,
             \A q \in Consoles : consoles'[q] \in {consoles[q], NoOperator}
      PROVE  FoundEmpty'
  <2>1. \A q \in Consoles : ~Free(q)
    BY <1>5, OperatorsAssumption DEF Writable, FoundEmpty
  <2> QED BY <1>5, <2>1 DEF FoundEmpty, Bootstrapping
<1>6. ASSUME NEW r \in Consoles, NEW p \in People, AskBootstrap(r, p) PROVE FoundEmpty'
  <2>1. consoles'[r].free = FALSE
    BY <1>6 DEF AskBootstrap, OperatorsTypeOK
  <2>2. /\ consoles[r] = NoOperator /\ operators' = operators /\ lock' = lock
        /\ \A q \in Consoles \ {r} : consoles'[q] = consoles[q]
    BY <1>6 DEF AskBootstrap, OperatorsTypeOK
  <2> QED BY <1>4, <2>1, <2>2
<1>7. ASSUME NEW r \in Consoles, NEW p \in People, NEW c \in Code, SignInRead(r, p, c) PROVE FoundEmpty'
  <2>1. consoles'[r].kind = "LOGIN"
    BY <1>7 DEF SignInRead, OperatorsTypeOK
  <2>2. /\ consoles[r] = NoOperator /\ operators' = operators /\ lock' = lock
        /\ \A q \in Consoles \ {r} : consoles'[q] = consoles[q]
    BY <1>7 DEF SignInRead, OperatorsTypeOK
  <2> QED BY <1>4, <2>1, <2>2
<1>8. ASSUME NEW r \in Consoles, SignIn(r) PROVE FoundEmpty'
  BY <1>5, <1>8 DEF SignIn
<1>9. CASE UNCHANGED <<operators, lock, consoles>>
  BY <1>9 DEF FoundEmpty, Bootstrapping, Known
<1>10. ASSUME NEW p \in People, \/ SetupExpires(p) \/ CreateOperator(p) \/ ResetOperator(p)
                                \/ \E active \in BOOLEAN : SetOperatorActive(p, active)
                                \/ \E c \in Code : SetupComplete(p, c)
       PROVE  FoundEmpty'
  BY <1>5, <1>10 DEF SetupExpires, CreateOperator, ResetOperator, SetOperatorActive, SetupComplete
<1> QED BY <1>1, <1>2, <1>3, <1>6, <1>7, <1>8, <1>9, <1>10 DEF OperatorsStep, StepOn, consoleVars

(* BootstrapIsFirst, for any browsers and operators of the command line at *)
(* once (bootstrapOperator).                                               *)
THEOREM BootstrapMakesTheFirst == OperatorsSpec => BootstrapIsFirst
<1> DEFINE First == \A p \in People : ~Known(p) /\ Known(p)' /\ operators'[p].via = "BOOTSTRAP"
                      => \A q \in People : ~Known(q) /\ (q # p => ~Known(q)')
<1>1. OperatorsInit => FoundEmpty
  BY DEF OperatorsInit, FoundEmpty, Bootstrapping
<1>2. (OperatorsTypeOK /\ Heard) /\ FoundEmpty /\ [OperatorsStep]_consoleVars => FoundEmpty'
  BY FoundEmptyStep
<1>3. (OperatorsTypeOK /\ Heard) /\ FoundEmpty /\ [OperatorsStep]_consoleVars => [First]_consoleVars
  <2> SUFFICES ASSUME OperatorsTypeOK, Heard, FoundEmpty, OperatorsStep,
                      NEW p \in People, ~Known(p), Known(p)', operators'[p].via = "BOOTSTRAP"
               PROVE  \A q \in People : ~Known(q) /\ (q # p => operators'[q] = NoOperator)
    BY DEF Known
  <2>1. ASSUME NEW r \in Consoles, Bootstrap(r)
        PROVE  \A q \in People : ~Known(q) /\ (q # p => operators'[q] = NoOperator)
    <3>1. \A q \in People : ~Known(q)
      BY <2>1 DEF Bootstrap, FoundEmpty
    <3>2. PICK x : x = consoles[r].person
      OBVIOUS
    <3>3. x \in People /\ \A q \in People \ {x} : operators'[q] = operators[q]
      BY <2>1, <3>2, BootstrapRow
    <3>4. x = p
      BY <3>3 DEF Known
    <3> QED BY <3>1, <3>3, <3>4 DEF Known
  <2>2. ASSUME NEW x \in People, CreateOperator(x) PROVE FALSE
    <3>1. ~Known(x) /\ Save(x, Pending("CLI"))
      BY <2>2 DEF CreateOperator
    <3>2. operators'[x].via = "CLI" /\ \A q \in People \ {x} : operators'[q] = operators[q]
      BY <3>1, CreatedRow
    <3> QED BY <3>2 DEF Known
  <2>3. ASSUME NEW x \in People, Known(x), \A q \in People \ {x} : operators'[q] = operators[q]
        PROVE  FALSE
    BY <2>3 DEF Known
  <2>4. ASSUME NEW x \in People, \/ SetupExpires(x) \/ ResetOperator(x)
                                 \/ \E active \in BOOLEAN : SetOperatorActive(x, active)
                                 \/ \E c \in Code : SetupComplete(x, c)
        PROVE  FALSE
    <3>1. Known(x)
      BY <2>4 DEF SetupExpires, ResetOperator, SetOperatorActive, SetupComplete
    <3> QED BY <2>3, <2>4, <3>1, ResetRow, SwitchedRow, CompletedRow
  <2>5. ASSUME NEW r \in Consoles, SignIn(r) PROVE FALSE
    <3>1. PICK x : x = consoles[r].code.person
      OBVIOUS
    <3> QED BY <2>3, <2>5, <3>1, SignedInRow
  <2>6. ASSUME operators' = operators PROVE FALSE
    BY <2>6 DEF Known
  <2> QED BY <2>1, <2>2, <2>4, <2>5, <2>6
      DEF OperatorsStep, StepOn, AskBootstrap, CountOperators, GiveUp, SignInRead
<1> QED BY <1>1, <1>2, <1>3, OperatorsAreTyped, PTL DEF OperatorsSpec, BootstrapIsFirst, First
-----------------------------------------------------------------------------
(* The plan of a restaurant.                                               *)


(* Who holds the row of the restaurant.                                    *)
Holds(c) == changes[c].step \in {"LOCKED", "COUNTED"}

(* A change under way is a change.                                         *)
LEMMA ChangeUnderWay ==
  ASSUME PlansTypeOK, NEW c \in Changes, changes[c].step # "NONE" PROVE changes[c] \in Change
BY DEF PlansTypeOK, NoChange

(* What becomes of a change that takes its next step.                      *)
LEMMA StepOfChange ==
  ASSUME PlansTypeOK, NEW c \in Changes, NEW new, changes' = [changes EXCEPT ![c] = new]
  PROVE  changes'[c] = new /\ \A d \in Changes \ {c} : changes'[d] = changes[d]
BY DEF PlansTypeOK

(* A change that locks the row knows the plan it changes.                  *)
LEMMA LockedRecord ==
  ASSUME PlansTypeOK, NEW c \in Changes, Lock(c)
  PROVE  /\ changes'[c] = [changes[c] EXCEPT !.step = "LOCKED", !.from = tier]
         /\ changes'[c] \in Change /\ changes'[c].step = "LOCKED" /\ changes'[c].from = tier
         /\ \A d \in Changes \ {c} : changes'[d] = changes[d]
<1>1. changes[c] \in Change
  BY ChangeUnderWay DEF Lock
<1>2. changes'[c] = [changes[c] EXCEPT !.step = "LOCKED", !.from = tier]
  BY DEF Lock, PlansTypeOK
<1>3. \A d \in Changes \ {c} : changes'[d] = changes[d]
  BY DEF Lock, PlansTypeOK
<1> QED BY <1>1, <1>2, <1>3 DEF Change, PlansTypeOK

(* A change that has counted knows what is in use.                         *)
LEMMA CountedRecord ==
  ASSUME PlansTypeOK, NEW c \in Changes, Count(c)
  PROVE  /\ changes'[c] \in Change \cup {NoChange}
         /\ \/ changes'[c] = NoChange
            \/ /\ changes'[c].step = "COUNTED"
               /\ changes'[c].from = changes[c].from /\ changes'[c].to = changes[c].to
               /\ changes'[c].used = (Loses(c) /\ Issued)
         /\ \A d \in Changes \ {c} : changes'[d] = changes[d]
<1> DEFINE used == Loses(c) /\ Issued
           counted == [changes[c] EXCEPT !.step = "COUNTED", !.used = used]
<1>1. changes[c] \in Change
  BY ChangeUnderWay DEF Count
<1>2. used \in BOOLEAN
  BY DEF Loses, Issued
<1>3. /\ counted \in Change /\ counted.step = "COUNTED" /\ counted.used = used
      /\ counted.from = changes[c].from /\ counted.to = changes[c].to
  BY <1>1, <1>2 DEF Change
<1>4. changes'[c] \in {NoChange, counted}
  BY DEF Count, PlansTypeOK
<1>5. \A d \in Changes \ {c} : changes'[d] = changes[d]
  BY DEF Count, PlansTypeOK
<1> QED BY <1>3, <1>4, <1>5

(* What a change does to the plan and to its trail.                        *)
LEMMA WrittenTrail ==
  ASSUME PlansTypeOK, NEW c \in Changes, Write(c)
  PROVE  /\ tier' \in Ladder /\ trail' \in Seq(Entry) /\ Len(trail') <= MaxEntries
         /\ Len(trail') = Len(trail) + 1 /\ Last(trail').to = tier' /\ trail' # <<>>
         /\ \A k \in 1 .. Len(trail) : trail'[k] = trail[k]
         /\ trail'[Len(trail) + 1] =
              [from |-> changes[c].from, to |-> changes[c].to,
               forced |-> changes[c].used, used |-> Loses(c) /\ Issued]
<1> DEFINE new == [from |-> changes[c].from, to |-> changes[c].to,
                   forced |-> changes[c].used, used |-> Loses(c) /\ Issued]
<1>1. changes[c] \in Change
  BY ChangeUnderWay DEF Write
<1>2. (Loses(c) /\ Issued) \in BOOLEAN
  BY DEF Loses, Issued
<1>3. new \in Entry /\ new.to = changes[c].to
  BY <1>1, <1>2 DEF Change, Entry
<1>4. /\ trail \in Seq(Entry) /\ Len(trail) \in Nat /\ Len(trail) < MaxEntries
      /\ trail' = Append(trail, new) /\ tier' = changes[c].to
  BY DEF Write, PlansTypeOK
<1>5. MaxEntries \in Nat
  BY PlansAssumption
<1> HIDE DEF new
<1>6. /\ trail' \in Seq(Entry) /\ Len(trail') = Len(trail) + 1
      /\ \A k \in 1 .. Len(trail) : trail'[k] = trail[k]
      /\ trail'[Len(trail) + 1] = new
  BY <1>3, <1>4
<1>7. Last(trail') = new /\ trail' # <<>>
  BY <1>4, <1>6 DEF Last
<1>8. Len(trail') <= MaxEntries
  BY <1>4, <1>5, <1>6
<1> QED BY <1>1, <1>3, <1>4, <1>6, <1>7, <1>8 DEF Change, new

(* The plan, its trail and the changes under way keep their types.         *)
THEOREM PlansType == PlansSpec => []PlansTypeOK
<1>1. PlansInit => PlansTypeOK
  BY PlansAssumption DEF PlansInit, PlansTypeOK
<1>2. PlansTypeOK /\ [PlansStep]_planVars => PlansTypeOK'
  <2> SUFFICES ASSUME PlansTypeOK, [PlansStep]_planVars PROVE PlansTypeOK'
    OBVIOUS
  <2> USE DEF PlansTypeOK
  <2>1. ASSUME NEW c \in Changes, NEW to \in Ladder, NEW forced \in BOOLEAN,
               NEW days \in BOOLEAN, AskChange(c, to, forced, days)
        PROVE  PlansTypeOK'
    <3>1. [step |-> "ASKED", to |-> to, forced |-> forced, days |-> days, from |-> tier,
           used |-> FALSE] \in Change
      BY DEF Change
    <3> QED BY <2>1, <3>1 DEF AskChange
  <2>2. ASSUME NEW c \in Changes, Lock(c) PROVE PlansTypeOK'
    <3>1. changes' \in [Changes -> Change \cup {NoChange}]
      BY <2>2, LockedRecord DEF Lock
    <3> QED BY <2>2, <3>1 DEF Lock
  <2>3. ASSUME NEW c \in Changes, Count(c) PROVE PlansTypeOK'
    <3>1. changes' \in [Changes -> Change \cup {NoChange}]
      BY <2>3, CountedRecord DEF Count
    <3> QED BY <2>3, <3>1 DEF Count
  <2>4. ASSUME NEW c \in Changes, Write(c) PROVE PlansTypeOK'
    <3>1. /\ changes[c].to \in Ladder /\ changes[c].days \in BOOLEAN
      BY <2>4, ChangeUnderWay DEF Write, Change
    <3>2. trialEnds' \in BOOLEAN
      BY <2>4, <3>1 DEF Write
    <3>3. changes' \in [Changes -> Change \cup {NoChange}] /\ UNCHANGED issues
      BY <2>4 DEF Write
    <3> QED BY <2>4, <3>2, <3>3, WrittenTrail
  <2>5. ASSUME NEW c \in Changes, UndoChange(c) PROVE PlansTypeOK'
    BY <2>5 DEF UndoChange
  <2>6. ASSUME NEW i \in Issues,
               PlanAllows(i) \/ InsertInvoice(i) \/ CommitInvoice(i) \/ DropInvoice(i)
        PROVE  PlansTypeOK'
    BY <2>6 DEF PlanAllows, InsertInvoice, CommitInvoice, DropInvoice
  <2>7. CASE UNCHANGED planVars
    BY <2>7 DEF planVars
  <2> QED BY <2>1, <2>2, <2>3, <2>4, <2>5, <2>6, <2>7 DEF PlansStep
<1> QED BY <1>1, <1>2, PTL DEF PlansSpec
-----------------------------------------------------------------------------
(* The row of the restaurant is held by one change and by no insertion     *)
(* while a change holds it, so what a change has read under it still holds *)
(* when it writes.                                                         *)

OneHolds == \A c, d \in Changes : Holds(c) /\ Holds(d) => c = d

ReadHolds ==
  \A c \in Changes : Holds(c) =>
    /\ changes[c].from = tier
    /\ \A i \in Issues : issues[i] # "INSERTED"
    /\ changes[c].step = "COUNTED" => (Loses(c) /\ Issued => changes[c].used)

StoryKept == OneHolds /\ ReadHolds /\ TrailIsTheStory

(* A step that neither takes the row nor writes the plan, and issues       *)
(* nothing while the row is held.                                          *)
LEMMA StoryUntouched ==
  ASSUME StoryKept, UNCHANGED <<tier, trail>>,
         \A c \in Changes : Holds(c)' => Holds(c) /\ changes'[c] = changes[c],
         \A c \in Changes : Holds(c)' => (Issued' <=> Issued)
                             /\ \A i \in Issues : issues'[i] # "INSERTED"
  PROVE  StoryKept'
<1>1. OneHolds'
  BY DEF StoryKept, OneHolds
<1>2. ReadHolds'
  BY DEF StoryKept, ReadHolds, Loses
<1>3. TrailIsTheStory'
  BY DEF StoryKept, TrailIsTheStory
<1> QED BY <1>1, <1>2, <1>3 DEF StoryKept

(* TrailIsTheStory, for any number of changes at once, from the console    *)
(* and from the command line (changePlanInTransaction).                    *)
THEOREM TrailTellsTheStory == PlansSpec => []TrailIsTheStory
<1>1. PlansInit => StoryKept
  BY DEF PlansInit, StoryKept, OneHolds, ReadHolds, Holds, NoChange, TrailIsTheStory
<1>2. PlansTypeOK /\ StoryKept /\ [PlansStep]_planVars => StoryKept'
  <2> SUFFICES ASSUME PlansTypeOK, StoryKept, [PlansStep]_planVars PROVE StoryKept'
    OBVIOUS
  <2>1. ASSUME NEW c \in Changes, NEW to \in Ladder, NEW forced \in BOOLEAN,
               NEW days \in BOOLEAN, AskChange(c, to, forced, days)
        PROVE  StoryKept'
    <3>1. changes'[c].step = "ASKED" /\ \A d \in Changes \ {c} : changes'[d] = changes[d]
      BY <2>1 DEF AskChange, PlansTypeOK
    <3>2. \A d \in Changes : Holds(d)' => Holds(d) /\ changes'[d] = changes[d]
      BY <3>1 DEF Holds
    <3>3. UNCHANGED <<tier, trail, issues>>
      BY <2>1 DEF AskChange
    <3> QED BY <3>2, <3>3, StoryUntouched DEF StoryKept, ReadHolds, Issued
  <2>2. ASSUME NEW c \in Changes, Lock(c) PROVE StoryKept'
    <3>1. /\ changes'[c].step = "LOCKED" /\ changes'[c].from = tier
          /\ \A d \in Changes \ {c} : changes'[d] = changes[d] /\ ~Holds(d)
          /\ \A i \in Issues : issues[i] # "INSERTED"
          /\ UNCHANGED <<tier, trail, issues>>
      BY <2>2, LockedRecord DEF Lock, Lockable, LockedForChange, Holds
    <3>2. OneHolds'
      BY <3>1 DEF OneHolds, Holds
    <3>3. ReadHolds'
      BY <3>1 DEF ReadHolds, Holds
    <3>4. TrailIsTheStory'
      BY <3>1 DEF StoryKept, TrailIsTheStory
    <3> QED BY <3>2, <3>3, <3>4 DEF StoryKept
  <2>3. ASSUME NEW c \in Changes, Count(c) PROVE StoryKept'
    <3>1. /\ Holds(c) /\ UNCHANGED <<tier, trail, issues>> /\ (Issued' <=> Issued)
          /\ \A d \in Changes \ {c} : changes'[d] = changes[d]
      BY <2>3, CountedRecord DEF Count, Holds, Issued
    <3>2. OneHolds'
      BY <3>1 DEF StoryKept, OneHolds, Holds
    <3>3. ASSUME NEW d \in Changes, Holds(d)'
          PROVE  /\ changes'[d].from = tier'
                 /\ \A i \in Issues : issues'[i] # "INSERTED"
                 /\ changes'[d].step = "COUNTED" => (Loses(d)' /\ Issued' => changes'[d].used)
      <4>1. d = c
        BY <3>1, <3>3 DEF StoryKept, OneHolds, Holds
      <4>2. /\ changes'[c].from = changes[c].from /\ changes'[c].to = changes[c].to
            /\ changes'[c].used = (Loses(c) /\ Issued)
        BY <2>3, <3>3, <4>1, CountedRecord DEF Holds, NoChange
      <4>3. Loses(c)' = Loses(c)
        BY <4>2 DEF Loses
      <4>4. changes[c].from = tier /\ \A i \in Issues : issues[i] # "INSERTED"
        BY <3>1 DEF StoryKept, ReadHolds
      <4> QED BY <3>1, <4>1, <4>2, <4>3, <4>4
    <3>4. ReadHolds'
      BY <3>3 DEF ReadHolds
    <3>5. TrailIsTheStory'
      BY <3>1 DEF StoryKept, TrailIsTheStory
    <3> QED BY <3>2, <3>4, <3>5 DEF StoryKept
  <2>4. ASSUME NEW c \in Changes, Write(c) PROVE StoryKept'
    <3>1. Holds(c) /\ changes[c].from = tier /\ (Loses(c) /\ Issued => changes[c].used)
      BY <2>4 DEF Write, Holds, StoryKept, ReadHolds
    <3>2. changes'[c] = NoChange /\ \A d \in Changes \ {c} : changes'[d] = changes[d]
      BY <2>4, StepOfChange DEF Write
    <3>3. \A d \in Changes : ~Holds(d)'
      BY <3>1, <3>2 DEF StoryKept, OneHolds, Holds, NoChange
    <3>4. OneHolds' /\ ReadHolds'
      BY <3>3 DEF OneHolds, ReadHolds
    <3>5. /\ Len(trail') = Len(trail) + 1 /\ Last(trail').to = tier' /\ trail' # <<>>
          /\ \A k \in 1 .. Len(trail) : trail'[k] = trail[k]
          /\ trail'[Len(trail) + 1] =
              [from |-> changes[c].from, to |-> changes[c].to,
               forced |-> changes[c].used, used |-> Loses(c) /\ Issued]
          /\ Len(trail) \in Nat /\ trail \in Seq(Entry)
      BY <2>4, WrittenTrail DEF PlansTypeOK
    <3>6. trail'[Len(trail) + 1].from = IF Len(trail) = 0 THEN Trial ELSE trail[Len(trail)].to
      BY <3>1, <3>5 DEF StoryKept, TrailIsTheStory, Last
    <3>7. trail'[Len(trail) + 1].used => trail'[Len(trail) + 1].forced
      <4>1. /\ trail'[Len(trail) + 1].used = (Loses(c) /\ Issued)
            /\ trail'[Len(trail) + 1].forced = changes[c].used
        BY <3>5
      <4> QED BY <3>1, <4>1
    <3>8. ASSUME NEW k \in 1 .. Len(trail')
          PROVE  /\ trail'[k].from = IF k = 1 THEN Trial ELSE trail'[k - 1].to
                 /\ trail'[k].used => trail'[k].forced
      <4>1. CASE k = Len(trail) + 1
        BY <3>5, <3>6, <3>7, <4>1
      <4>2. CASE k \in 1 .. Len(trail)
        BY <3>5, <4>2 DEF StoryKept, TrailIsTheStory
      <4> QED BY <3>5, <4>1, <4>2
    <3>9. TrailIsTheStory'
      BY <3>5, <3>8 DEF TrailIsTheStory
    <3> QED BY <3>4, <3>9 DEF StoryKept
  <2>5. ASSUME NEW c \in Changes, UndoChange(c) PROVE StoryKept'
    <3>1. changes'[c] = NoChange /\ \A d \in Changes \ {c} : changes'[d] = changes[d]
      BY <2>5, StepOfChange DEF UndoChange
    <3>2. \A d \in Changes : Holds(d)' => Holds(d) /\ changes'[d] = changes[d]
      BY <3>1 DEF Holds, NoChange
    <3>3. UNCHANGED <<tier, trail, issues>>
      BY <2>5 DEF UndoChange
    <3> QED BY <3>2, <3>3, StoryUntouched DEF StoryKept, ReadHolds, Issued
  <2>6. ASSUME NEW i \in Issues,
               PlanAllows(i) \/ InsertInvoice(i) \/ CommitInvoice(i) \/ DropInvoice(i)
        PROVE  StoryKept'
    <3>1. UNCHANGED <<tier, trail, changes>>
      BY <2>6 DEF PlanAllows, InsertInvoice, CommitInvoice, DropInvoice
    <3>2. \A c \in Changes : Holds(c)' => Holds(c) /\ changes'[c] = changes[c]
      BY <3>1 DEF Holds
    <3>3. ASSUME NEW c \in Changes, Holds(c)
          PROVE  (Issued' <=> Issued) /\ \A j \in Issues : issues'[j] # "INSERTED"
      <4>1. LockedForChange /\ \A j \in Issues : issues[j] # "INSERTED"
        BY <3>3 DEF Holds, LockedForChange, StoryKept, ReadHolds
      <4>2. PlanAllows(i) \/ (DropInvoice(i) /\ issues[i] = "ALLOWED")
        BY <2>6, <4>1 DEF InsertInvoice, CommitInvoice, DropInvoice
      <4>3. \A j \in Issues : /\ issues'[j] = "ISSUED" <=> issues[j] = "ISSUED"
                              /\ issues'[j] # "INSERTED"
        BY <4>1, <4>2 DEF PlanAllows, DropInvoice, PlansTypeOK
      <4> QED BY <4>3 DEF Issued
    <3> QED BY <3>1, <3>2, <3>3, StoryUntouched
  <2>7. CASE UNCHANGED planVars
    <3>1. /\ UNCHANGED <<tier, trail, changes, issues>>
          /\ \A c \in Changes : Holds(c)' => Holds(c) /\ changes'[c] = changes[c]
      BY <2>7 DEF planVars, Holds
    <3> QED BY <3>1, StoryUntouched DEF StoryKept, ReadHolds, Issued
  <2> QED BY <2>1, <2>2, <2>3, <2>4, <2>5, <2>6, <2>7 DEF PlansStep
<1>3. StoryKept => TrailIsTheStory
  BY DEF StoryKept
<1> QED BY <1>1, <1>2, <1>3, PlansType, PTL DEF PlansSpec
=============================================================================
