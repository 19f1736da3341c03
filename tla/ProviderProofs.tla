--------------------------- MODULE ProviderProofs ---------------------------
(***************************************************************************)
(* What holds of the two rails that depend on somebody outside: charges    *)
(* the bank is asked for (C2P) and payments a provider reports (Webhooks). *)
(* For any charges, payers, cashiers and amounts, and any payments, events *)
(* and deliveries.                                                         *)
(***************************************************************************)
EXTENDS C2P, Webhooks, MoneyProofs, SequenceTheorems

(* An amount is a natural number up to the bound.                          *)
LEMMA VesIsUpTo == ASSUME NEW n PROVE n \in Ves <=> n \in Nat /\ n <= MaxVes
BY MaxVesAssumption DEF Ves

(* A bill that takes an amount holds it: its counter keeps its width.      *)
LEMMA BillHolds ==
  ASSUME TypeOK, bill.other <= bill.paid, NEW a \in PayableVes, BillTakes(a)
  PROVE  /\ bill.paid + a \in Ves /\ bill.other + a \in Ves /\ a \in Ves
         /\ bill.paid \in Nat /\ bill.other \in Nat /\ a \in Nat
<1>1. bill.paid \in Ves /\ bill.other \in Ves
  BY DEF TypeOK
<1>2. bill.paid + a <= DueVes
  BY DEF BillTakes
<1>3. DueVes \in Ves
  BY C2PAssumption
<1>4. a \in Nat /\ a >= 1 /\ a <= MaxVes
  BY MaxVesAssumption DEF PayableVes
<1>5. /\ bill.paid \in Nat /\ bill.other \in Nat /\ DueVes \in Nat /\ DueVes <= MaxVes
      /\ MaxVes \in Nat
  BY <1>1, <1>3, VesIsUpTo, MaxVesAssumption
<1>6. bill.paid + a \in Nat /\ bill.paid + a <= MaxVes
  BY <1>2, <1>4, <1>5
<1>7. bill.other + a \in Nat /\ bill.other + a <= MaxVes
  BY <1>2, <1>4, <1>5
<1> QED BY <1>4, <1>5, <1>6, <1>7, VesIsUpTo

-----------------------------------------------------------------------------
(* The inductive invariant of the charges, part by part.                   *)

(* A charge while its request runs: the row exists before the bank is      *)
(* asked, nobody else moves it, and what the request believes of the bank  *)
(* is true.                                                                *)
Asking(c) ==
  /\ Raised(c) => orders[c] \in Order
  /\ bank[c] # "IDLE" \/ call[c].at # "NONE" => Raised(c)
  /\ Running(c) => payments[c].status = "PENDING"
  /\ call[c].at \in {"REFUSED", "DENIED"} => bank[c] = "REFUSED"
  /\ call[c].at = "APPROVED" =>
       Debited(c) /\ \E answer \in Answers : call[c].reference = ReferenceFor(answer, c)

(* The list of charges names each once.                                    *)
InOrder ==
  /\ \A i \in DOMAIN raised : Raised(raised[i])
  /\ \A i, j \in DOMAIN raised : raised[i] = raised[j] => i = j

(* A charge that was debited and resembles no other.                       *)
Lone(c) == Debited(c) /\ Alike(c) = {c}

(* A reference written is that of a debit that could be the charge's own,  *)
(* of a charge that is over, and of no other.                              *)
Referenced(c) ==
  payments[c].reference # None =>
     /\ payments[c].status \in {"SUCCEEDED", "AMBIGUOUS"}
     /\ payments[c].reference[1] \in Answers \cup {"REFERENCE"}
     /\ payments[c].reference[2] \in Alike(c)
     /\ Debited(payments[c].reference[2])

Spent(c) ==
  /\ Referenced(c)
  /\ payments[c].status = "FAILED" =>
       bank[c] = "REFUSED" \/ call[c].at = "MISLED" \/ (age[c] # "YOUNG" /\ ~ Lone(c))
  /\ age[c] # "YOUNG" => bank[c] # "DEBITED"

SpentOnce ==
  \A c, d \in Charges :
    payments[c].reference # None /\ payments[c].reference = payments[d].reference => c = d

(* What a cashier's request believes: the movements it holds are listed    *)
(* and could be the charge's, and an absence it is about to take for a     *)
(* proof is one.                                                           *)
Sound(x) ==
  LET c == x.charge IN
  /\ Raised(c)
  /\ payments[c].status \notin {"NONE", "PENDING"}
  /\ x.stage = "SEARCHED" => \A d \in x.seen : bank[d] = "LISTED" /\ Charged(d) = Charged(c)
  /\ x.stage \in {"MATCHED", "PARKING"} =>
       \A d \in x.seen : bank[d] = "LISTED" /\ d \in Alike(c)
  /\ x.mature => age[c] # "YOUNG"
  /\ x.stage = "SEARCHED" /\ x.mature /\ Lone(c) => c \in x.seen
  /\ x.stage = "NO_MATCH" /\ x.mature /\ Lone(c) => payments[c].status # "IN_DOUBT"

Booked == bill.paid = bill.other + TotalOf(Amount, Settled)

Typed == TypeOK /\ bill.other <= bill.paid
Charging == \A c \in Charges : Asking(c) /\ Spent(c)
Resolving == \A r \in Resolvers, x \in Resolution : resolving[r] = x => Sound(x)

ChargesOK == Typed /\ Charging /\ InOrder /\ SpentOnce /\ Resolving /\ Booked

-----------------------------------------------------------------------------
(* Types.                                                                  *)

(* A row after a write: its status, and the reference if there was one.    *)
Written(c, ref, status) ==
  [status |-> status, reference |-> IF ref = None THEN payments[c].reference ELSE ref]

(* A row that is written is a row.                                         *)
LEMMA WrittenType ==
  ASSUME TypeOK, NEW c \in Charges, NEW ref \in References \cup {None}, NEW s \in Status
  PROVE  Written(c, ref, s) \in [status : Status, reference : References \cup {None}]
<1>1. payments[c] \in [status : Status, reference : References \cup {None}]
  BY DEF TypeOK
<1> QED BY <1>1 DEF Written

(* Moving a charge replaces its row.                                       *)
LEMMA MoveIs ==
  ASSUME TypeOK, NEW c \in Charges, NEW s \in Status, Move(c, s)
  PROVE  payments' = [payments EXCEPT ![c] = Written(c, None, s)]
<1>1. payments[c] \in [status : Status, reference : References \cup {None}]
  BY DEF TypeOK
<1>2. [payments[c] EXCEPT !.status = s] = Written(c, None, s)
  BY <1>1 DEF Written
<1> QED BY <1>2 DEF Move

(* So does spending a reference on it.                                     *)
LEMMA SpendIs ==
  ASSUME TypeOK, NEW c \in Charges, NEW ref \in References \cup {None}, NEW s \in Status,
         Spend(c, ref, s)
  PROVE  payments' = [payments EXCEPT ![c] = Written(c, ref, s)]
<1>1. payments[c] \in [status : Status, reference : References \cup {None}]
  BY DEF TypeOK
<1>2. payments' = [payments EXCEPT ![c].status = s,
                    ![c].reference = IF ref = None THEN payments[c].reference ELSE ref]
  BY DEF Spend
<1>3. payments \in [Charges -> [status : Status, reference : References \cup {None}]]
  BY DEF TypeOK
<1>4. payments[c] = [status |-> payments[c].status, reference |-> payments[c].reference]
  BY <1>1
<1> DEFINE kept == IF ref = None THEN payments[c].reference ELSE ref
           first == [payments EXCEPT ![c].status = s]
<1>5. first[c] = [status |-> s, reference |-> payments[c].reference]
  BY <1>3, <1>4
<1>6. first[c].reference = payments[c].reference /\ c \in DOMAIN first
  BY <1>3, <1>5
<1>7. payments' = [first EXCEPT ![c] = [first[c] EXCEPT !.reference = kept]]
  BY <1>2, <1>3
<1>8. [first[c] EXCEPT !.reference = kept] = Written(c, ref, s)
  BY <1>5 DEF Written
<1>9. payments' = [first EXCEPT ![c] = Written(c, ref, s)]
  BY <1>7, <1>8
<1> QED BY <1>3, <1>9

(* Moving a charge keeps the types.                                        *)
LEMMA MoveType ==
  ASSUME TypeOK, NEW c \in Charges, NEW s \in Status, Move(c, s)
  PROVE  payments' \in [Charges -> [status : Status, reference : References \cup {None}]]
<1>1. payments' = [payments EXCEPT ![c] = Written(c, None, s)]
  BY MoveIs
<1>2. Written(c, None, s) \in [status : Status, reference : References \cup {None}]
  BY WrittenType
<1> QED BY <1>1, <1>2 DEF TypeOK

(* So does spending a reference.                                           *)
LEMMA SpendType ==
  ASSUME TypeOK, NEW c \in Charges, NEW ref \in References \cup {None}, NEW s \in Status,
         Spend(c, ref, s)
  PROVE  payments' \in [Charges -> [status : Status, reference : References \cup {None}]]
<1>1. payments' = [payments EXCEPT ![c] = Written(c, ref, s)]
  BY SpendIs
<1>2. Written(c, ref, s) \in [status : Status, reference : References \cup {None}]
  BY WrittenType
<1> QED BY <1>1, <1>2 DEF TypeOK

(* So does telling the diner.                                              *)
LEMMA TellType ==
  ASSUME TypeOK, NEW c \in Charges, NEW outcome, Tell(c, outcome)
  PROVE  call' \in [Charges -> [at : {"NONE", "ASKING", "APPROVED", "REFUSED", "MISREAD", "SILENT",
                                      "DENIED", "MISLED", "OVER"},
                                reference : References \cup {None}]]
BY DEF TypeOK, Tell

(* A movement has a reference.                                             *)
LEMMA MovementType == ASSUME NEW d \in Charges PROVE Movement(d) \in References
BY DEF Movement, References

(* A resolution that goes on is a resolution.                              *)
LEMMA GoesType ==
  ASSUME TypeOK, NEW r \in Resolvers, resolving[r] # None, NEW s \in Stages, Goes(r, s)
  PROVE  resolving' \in [Resolvers -> Resolution \cup {None}]
BY DEF TypeOK, Goes, Resolution

(* A resolution that ends is none.                                         *)
LEMMA EndsType ==
  ASSUME TypeOK, NEW r \in Resolvers, Ends(r)
  PROVE  resolving' \in [Resolvers -> Resolution \cup {None}]
BY DEF TypeOK, Ends

(* A request at a stage is about a charge, and saw charges.                *)
LEMMA AtIsAbout ==
  ASSUME TypeOK, NEW r \in Resolvers, resolving[r] # None
  PROVE  /\ resolving[r] \in Resolution
         /\ resolving[r].charge \in Charges
         /\ resolving[r].seen \in SUBSET Charges
         /\ resolving[r].stage \in Stages
         /\ resolving[r].mature \in BOOLEAN
BY DEF TypeOK, Resolution

(* A resolution under way is sound.                                        *)
LEMMA AtIsSound ==
  ASSUME ChargesOK, NEW r \in Resolvers, resolving[r] # None
  PROVE  Sound(resolving[r])
BY AtIsAbout DEF ChargesOK, Typed, Resolving

(* A bill that takes an amount keeps its type and counts it.               *)
LEMMA ApplyType ==
  ASSUME TypeOK, bill.other <= bill.paid, NEW a \in PayableVes, ApplyToBill(a)
  PROVE  /\ bill' \in [open : BOOLEAN, paid : Ves, other : Ves]
         /\ bill'.other <= bill'.paid
         /\ bill'.other = bill.other /\ bill'.paid = bill.paid + a
<1>1. bill.paid + a \in Ves /\ bill.paid \in Nat /\ bill.other \in Nat /\ a \in Nat
  BY BillHolds DEF ApplyToBill
<1>2. bill' = [bill EXCEPT !.paid = bill.paid + a, !.open = bill.paid + a # DueVes]
  BY DEF ApplyToBill
<1>3. bill \in [open : BOOLEAN, paid : Ves, other : Ves]
  BY DEF TypeOK
<1>4. bill'.other = bill.other /\ bill'.paid = bill.paid + a
  BY <1>2, <1>3
<1>5. (bill.paid + a # DueVes) \in BOOLEAN
  OBVIOUS
<1>6. bill' \in [open : BOOLEAN, paid : Ves, other : Ves]
  BY <1>1, <1>2, <1>3, <1>5
<1>7. bill.other <= bill.paid + a
  BY <1>1
<1> QED BY <1>4, <1>6, <1>7

(* What an approval carries, if anything, names its own charge.            *)
LEMMA ReferenceType ==
  ASSUME NEW answer \in Answers, NEW c \in Charges
  PROVE  /\ ReferenceFor(answer, c) \in References \cup {None}
         /\ ReferenceFor(answer, c) # None =>
              ReferenceFor(answer, c)[1] \in Answers /\ ReferenceFor(answer, c)[2] = c
BY C2PAssumption, NoneIsNothing DEF ReferenceFor, References

(* Every step of a charge keeps the types.                                 *)
LEMMA ChargeTypes ==
  ASSUME ChargesOK, ChargeStep
  PROVE  Typed'
<1> USE DEF Typed
<1>0. TypeOK /\ bill.other <= bill.paid
  BY DEF ChargesOK
<1>1. PICK c \in Charges :
        \/ \E payer \in Payers, amount \in PayableVes, tip \in Tips : Submit(c, payer, amount, tip)
        \/ Approve(c) \/ Decline(c) \/ Misread(c) \/ HearNothing(c)
        \/ RecordDoubt(c) \/ RecordRefusal(c) \/ SettleDirect(c) \/ ParkDirect(c)
        \/ Crash(c)
  BY DEF ChargeStep
<1>2. ASSUME NEW payer \in Payers, NEW amount \in PayableVes, NEW tip \in Tips,
             Submit(c, payer, amount, tip)
      PROVE  Typed'
  <2>1. [payer |-> payer, amount |-> amount, tip |-> tip] \in Order
    BY C2PAssumption DEF Order
  <2>2. raised' \in Seq(Charges)
    BY <1>0, <1>2, AppendProperties DEF TypeOK, Submit
  <2>3. orders' \in [Charges -> Order \cup {None}]
    BY <1>0, <1>2, <2>1 DEF TypeOK, Submit
  <2>4. payments' \in [Charges -> [status : Status, reference : References \cup {None}]]
    BY <1>0, <1>2 DEF TypeOK, Submit, Status
  <2>5. call' \in [Charges -> [at : {"NONE", "ASKING", "APPROVED", "REFUSED", "MISREAD", "SILENT",
                                     "DENIED", "MISLED", "OVER"},
                               reference : References \cup {None}]]
    BY <1>0, <1>2 DEF TypeOK, Submit
  <2> QED BY <1>0, <1>2, <2>2, <2>3, <2>4, <2>5 DEF TypeOK, Submit
<1>3. CASE Approve(c)
  <2>1. \A answer \in Answers : ReferenceFor(answer, c) \in References \cup {None}
    BY ReferenceType
  <2> QED BY <1>0, <1>3, <2>1 DEF TypeOK, Approve
<1>4. CASE Decline(c) \/ Misread(c) \/ HearNothing(c)
  <2>0. \E stage \in {"REFUSED", "MISREAD", "SILENT"} : call' = [call EXCEPT ![c].at = stage]
    BY <1>4 DEF Decline, Misread, HearNothing
  <2>1. call' \in [Charges -> [at : {"NONE", "ASKING", "APPROVED", "REFUSED", "MISREAD", "SILENT",
                                     "DENIED", "MISLED", "OVER"},
                               reference : References \cup {None}]]
    BY <1>0, <2>0 DEF TypeOK
  <2>2. bank' \in [Charges -> {"IDLE", "REFUSED", "DEBITED", "LISTED"}]
    BY <1>0, <1>4 DEF TypeOK, Decline, Misread, HearNothing
  <2> QED BY <1>0, <1>4, <2>1, <2>2 DEF TypeOK, Decline, Misread, HearNothing
<1>5. CASE RecordDoubt(c) \/ RecordRefusal(c)
  <2>1. payments' \in [Charges -> [status : Status, reference : References \cup {None}]]
    BY <1>0, <1>5, MoveType DEF RecordDoubt, RecordRefusal, Status, TypeOK
  <2>2. \E outcome : Tell(c, outcome)
    BY <1>5 DEF RecordDoubt, RecordRefusal
  <2> QED BY <1>0, <1>5, <2>1, <2>2, TellType DEF TypeOK, RecordDoubt, RecordRefusal
<1>6. CASE Crash(c)
  BY <1>0, <1>6, TellType DEF TypeOK, Crash
<1>7. ASSUME call[c].at = "APPROVED" PROVE call[c].reference \in References \cup {None}
  BY <1>7, ReferenceType DEF ChargesOK, Charging, Asking
<1>8. CASE SettleDirect(c)
  <2>1. payments' \in [Charges -> [status : Status, reference : References \cup {None}]]
    BY <1>0, <1>7, <1>8, SpendType DEF SettleDirect, Status
  <2>2. orders[c].amount \in PayableVes
    BY <1>8 DEF SettleDirect, ChargesOK, Charging, Asking, Order, Running, Raised
  <2>3. bill' \in [open : BOOLEAN, paid : Ves, other : Ves] /\ bill'.other <= bill'.paid
    BY <1>0, <1>8, <2>2, ApplyType DEF SettleDirect
  <2> QED BY <1>0, <1>8, <2>1, <2>3, TellType DEF TypeOK, SettleDirect
<1>9. CASE ParkDirect(c)
  <2>1. payments' \in [Charges -> [status : Status, reference : References \cup {None}]]
    BY <1>0, <1>7, <1>9, SpendType DEF ParkDirect, Status, TypeOK
  <2> QED BY <1>0, <1>9, <2>1, TellType DEF TypeOK, ParkDirect
<1> QED BY <1>1, <1>2, <1>3, <1>4, <1>5, <1>6, <1>8, <1>9

(* So do the bank, the clock and the other rails.                          *)
LEMMA OutsideTypes ==
  ASSUME ChargesOK, OutsideStep
  PROVE  Typed'
<1> USE DEF Typed
<1>0. TypeOK /\ bill.other <= bill.paid
  BY DEF ChargesOK
<1>1. ASSUME NEW c \in Charges, Debit(c) \/ List(c) \/ Mature(c) \/ Expire(c) PROVE Typed'
  BY <1>0, <1>1 DEF TypeOK, Debit, List, Mature, Expire, Age
<1>2. ASSUME NEW a \in PayableVes, OtherPayment(a) PROVE Typed'
  <2>1. /\ bill.paid + a \in Ves /\ bill.other + a \in Ves
        /\ bill.paid \in Nat /\ bill.other \in Nat /\ a \in Nat
    BY <1>0, <1>2, BillHolds DEF OtherPayment
  <2>2. (bill.paid + a # DueVes) \in BOOLEAN
    OBVIOUS
  <2>3. bill' = [open |-> bill.paid + a # DueVes, paid |-> bill.paid + a, other |-> bill.other + a]
    BY <1>2 DEF OtherPayment
  <2>4. bill' \in [open : BOOLEAN, paid : Ves, other : Ves]
    BY <2>1, <2>2, <2>3
  <2>5. bill'.other <= bill'.paid
    BY <1>0, <2>1, <2>3
  <2> QED BY <1>0, <1>2, <2>4, <2>5 DEF TypeOK, OtherPayment
<1>3. CASE CloseBill
  BY <1>0, <1>3 DEF TypeOK, CloseBill
<1> QED BY <1>1, <1>2, <1>3 DEF OutsideStep

(* So does every step of a resolution.                                     *)
LEMMA ResolveTypes ==
  ASSUME ChargesOK, ResolveStep \/ Interrupted
  PROVE  Typed'
<1> USE DEF Typed
<1>0. TypeOK /\ bill.other <= bill.paid
  BY DEF ChargesOK
<1>1. PICK r \in Resolvers :
        \/ \E c \in Charges : Ask(r, c)
        \/ ExpireWindow(r) \/ Search(r) \/ Match(r)
        \/ FindResolved(r) \/ SettleMatched(r) \/ RefuseMatched(r) \/ ParkMatched(r)
        \/ LoseMovement(r) \/ StopAmbiguous(r) \/ FailUnmatched(r)
        \/ GiveUp(r)
  BY DEF ResolveStep, Interrupted
<1>2. ASSUME NEW c \in Charges, Ask(r, c) PROVE Typed'
  <2> DEFINE x == [stage |-> IF age[c] = "EXPIRED" THEN "EXPIRING" ELSE "ASKED",
                   charge |-> c, mature |-> age[c] # "YOUNG", seen |-> {}]
  <2>1. x \in Resolution
    BY DEF Resolution, Stages
  <2>2. resolving' = [resolving EXCEPT ![r] = x]
    BY <1>2 DEF Ask
  <2> HIDE DEF x
  <2>3. resolving' \in [Resolvers -> Resolution \cup {None}]
    BY <1>0, <2>1, <2>2 DEF TypeOK
  <2> QED BY <1>0, <1>2, <2>3 DEF TypeOK, Ask
<1>3. ASSUME resolving[r] # None
      PROVE  resolving[r] \in Resolution /\ resolving[r].charge \in Charges
  BY <1>0, <1>3, AtIsAbout
<1>4. CASE ExpireWindow(r) \/ StopAmbiguous(r) \/ FailUnmatched(r)
  <2>1. resolving[r] # None /\ Ends(r)
    BY <1>4 DEF ExpireWindow, StopAmbiguous, FailUnmatched, At
  <2>2. payments' \in [Charges -> [status : Status, reference : References \cup {None}]]
    BY <1>0, <1>3, <1>4, <2>1, MoveType
       DEF ExpireWindow, StopAmbiguous, FailUnmatched, Status, TypeOK
  <2>3. resolving' \in [Resolvers -> Resolution \cup {None}]
    BY <1>0, <2>1, EndsType
  <2> QED BY <1>0, <1>4, <2>2, <2>3 DEF TypeOK, ExpireWindow, StopAmbiguous, FailUnmatched
<1>5. CASE Search(r)
  <2> DEFINE c == resolving[r].charge
             listed == {d \in Charges : bank[d] = "LISTED" /\ Charged(d) = Charged(c)}
             earlier == {d \in listed : CreatedBefore(d, c)}
  <2>1. PICK some \in SUBSET earlier :
          resolving' = [resolving EXCEPT ![r].stage = "SEARCHED",
                                         ![r].seen = (listed \ earlier) \cup some]
    BY <1>5 DEF Search
  <2>2. (listed \ earlier) \cup some \in SUBSET Charges
    OBVIOUS
  <2> HIDE DEF listed, earlier, c
  <2>3. resolving[r] # None
    BY <1>5 DEF Search, At
  <2>4. resolving' \in [Resolvers -> Resolution \cup {None}]
    BY <1>0, <1>3, <2>1, <2>2, <2>3 DEF TypeOK, Resolution, Stages
  <2> QED BY <1>0, <1>5, <2>4 DEF TypeOK, Search
<1>6. CASE Match(r)
  <2> DEFINE c == resolving[r].charge
             candidates == {d \in resolving[r].seen : ~ Consumed(d)}
             byPayer == {d \in candidates : OfPayer(c, d)}
             stage == IF candidates = {} THEN "NO_MATCH"
                      ELSE IF Cardinality(byPayer) = 1 THEN "MATCHED" ELSE "AMBIGUOUS"
             seen == IF Cardinality(byPayer) = 1 THEN byPayer ELSE {}
  <2>1. resolving[r] # None
    BY <1>6 DEF Match, At
  <2>2. stage \in Stages /\ seen \in SUBSET Charges
    BY <1>3, <2>1 DEF Stages, Resolution
  <2>3. resolving' = [resolving EXCEPT ![r].stage = stage, ![r].seen = seen]
    BY <1>6 DEF Match
  <2> HIDE DEF stage, seen
  <2>4. resolving' \in [Resolvers -> Resolution \cup {None}]
    BY <1>0, <1>3, <2>1, <2>2, <2>3 DEF TypeOK, Resolution
  <2> QED BY <1>0, <1>6, <2>4 DEF TypeOK, Match
<1>8. CASE RefuseMatched(r)
  <2>1. resolving' \in [Resolvers -> Resolution \cup {None}]
    BY <1>0, <1>8, GoesType DEF RefuseMatched, At, Stages
  <2> QED BY <1>0, <1>8, <2>1 DEF TypeOK, RefuseMatched
<1>9. CASE FindResolved(r) \/ LoseMovement(r) \/ GiveUp(r)
  <2>1. resolving' \in [Resolvers -> Resolution \cup {None}]
    BY <1>0, <1>9, EndsType DEF FindResolved, LoseMovement, GiveUp
  <2> QED BY <1>0, <1>9, <2>1 DEF TypeOK, FindResolved, LoseMovement, GiveUp
<1>10. CASE SettleMatched(r) \/ ParkMatched(r)
  <2>1. resolving[r] # None /\ Ends(r)
    BY <1>10 DEF SettleMatched, ParkMatched, At
  <2>2. PICK s \in {"SUCCEEDED", "AMBIGUOUS"}, d \in resolving[r].seen :
          Spend(resolving[r].charge, Movement(d), s)
    BY <1>10 DEF SettleMatched, ParkMatched
  <2>3. d \in Charges
    BY <1>3, <2>1 DEF Resolution
  <2>4. payments' \in [Charges -> [status : Status, reference : References \cup {None}]]
    BY <1>0, <1>3, <2>1, <2>2, <2>3, MovementType, SpendType DEF Status
  <2>5. resolving' \in [Resolvers -> Resolution \cup {None}]
    BY <1>0, <2>1, EndsType
  <2>6. CASE ParkMatched(r)
    BY <1>0, <2>6, <2>4, <2>5 DEF TypeOK, ParkMatched
  <2>7. CASE SettleMatched(r)
    <3>1. orders[resolving[r].charge] \in Order
      BY <1>3, <2>1, AtIsSound DEF ChargesOK, Charging, Sound, Asking
    <3>2. bill' \in [open : BOOLEAN, paid : Ves, other : Ves] /\ bill'.other <= bill'.paid
      BY <1>0, <2>7, <3>1, ApplyType DEF SettleMatched, Order
    <3> QED BY <1>0, <2>7, <2>4, <2>5, <3>2 DEF TypeOK, SettleMatched
  <2> QED BY <1>10, <2>6, <2>7
<1> QED BY <1>1, <1>2, <1>4, <1>5, <1>6, <1>8, <1>9, <1>10

(* So does every step.                                                     *)
LEMMA TypedStep == ASSUME ChargesOK, [Next]_vars PROVE Typed'
<1>1. CASE UNCHANGED vars
  BY <1>1 DEF vars, ChargesOK, Typed, TypeOK
<1> QED BY <1>1, ChargeTypes, OutsideTypes, ResolveTypes DEF Next, Uninterrupted

-----------------------------------------------------------------------------
(* What only grows: an order is written once, a status moves forward, the  *)
(* bank debits a young charge and lists it, and a charge ages.             *)

StatusGrows(c) ==
  \/ payments'[c].status = payments[c].status
  \/ payments[c].status = "NONE" /\ payments'[c].status = "PENDING"
  \/ /\ payments[c].status \in {"PENDING", "IN_DOUBT"}
     /\ payments'[c].status \in {"IN_DOUBT", "AMBIGUOUS", "SUCCEEDED", "FAILED"}

BankGrows(c) ==
  \/ bank'[c] = bank[c]
  \/ Raised(c) /\ bank[c] = "IDLE" /\ bank'[c] = "REFUSED" /\ age'[c] = age[c]
  \/ /\ Raised(c) /\ bank[c] = "IDLE" /\ bank'[c] = "DEBITED"
     /\ age[c] = "YOUNG" /\ age'[c] = "YOUNG"
  \/ bank[c] = "DEBITED" /\ bank'[c] = "LISTED"

AgeGrows(c) ==
  \/ age'[c] = age[c]
  \/ age[c] = "YOUNG" /\ age'[c] = "MATURE" /\ bank[c] # "DEBITED" /\ bank'[c] = bank[c]
  \/ age[c] # "YOUNG" /\ age'[c] # "YOUNG"

ToldStays == \A c \in Charges : call[c].at = "MISLED" => call'[c] = call[c]

Grows ==
  /\ \A c \in Charges :
       /\ Raised(c) => orders'[c] = orders[c]
       /\ StatusGrows(c) /\ BankGrows(c) /\ AgeGrows(c)
  /\ ToldStays

(* A write of one row by Move or Spend.                                    *)
LEMMA MoveGrows ==
  ASSUME TypeOK, NEW c \in Charges, NEW ref \in References \cup {None}, NEW s \in Status,
         MayMove(c, s), payments' = [payments EXCEPT ![c] = Written(c, ref, s)]
  PROVE  /\ \A d \in Charges : StatusGrows(d)
         /\ payments'[c] = Written(c, ref, s)
         /\ \A d \in Charges \ {c} : payments'[d] = payments[d]
<1>1. /\ payments'[c] = Written(c, ref, s)
      /\ \A d \in Charges \ {c} : payments'[d] = payments[d]
  BY DEF TypeOK
<1>2. payments'[c].status = s
  BY <1>1 DEF Written
<1>3. StatusGrows(c)
  BY <1>2 DEF StatusGrows, MayMove
<1> QED BY <1>1, <1>3 DEF StatusGrows

(* A charge that is moved goes where it may, and no other moves.           *)
LEMMA MoveRow ==
  ASSUME TypeOK, NEW c \in Charges, NEW s \in Status, Move(c, s)
  PROVE  /\ \A d \in Charges : StatusGrows(d)
         /\ payments'[c] = Written(c, None, s)
         /\ \A d \in Charges \ {c} : payments'[d] = payments[d]
         /\ MayMove(c, s)
<1>1. payments' = [payments EXCEPT ![c] = Written(c, None, s)]
  BY MoveIs
<1>2. MayMove(c, s)
  BY DEF Move
<1> QED BY <1>1, <1>2, MoveGrows

(* So does one a reference is spent on, which was free.                    *)
LEMMA SpendRow ==
  ASSUME TypeOK, NEW c \in Charges, NEW ref \in References \cup {None}, NEW s \in Status,
         Spend(c, ref, s)
  PROVE  /\ \A d \in Charges : StatusGrows(d)
         /\ payments'[c] = Written(c, ref, s)
         /\ \A d \in Charges \ {c} : payments'[d] = payments[d]
         /\ MayMove(c, s) /\ Free(c, ref)
<1>1. payments' = [payments EXCEPT ![c] = Written(c, ref, s)]
  BY SpendIs
<1>2. MayMove(c, s) /\ Free(c, ref)
  BY DEF Spend
<1> QED BY <1>1, <1>2, MoveGrows

(* A table that stays goes nowhere it may not.                             *)
LEMMA StatusStays == ASSUME UNCHANGED payments PROVE \A d \in Charges : StatusGrows(d)
BY DEF StatusGrows

(* Whom an unreadable answer misled hears nothing else of that charge.     *)
LEMMA ChargeTells == ASSUME ChargesOK, ChargeStep PROVE ToldStays
<1>0. TypeOK /\ \A c \in Charges : Asking(c)
  BY DEF ChargesOK, Typed, Charging
<1>1. PICK c \in Charges :
        \/ \E payer \in Payers, amount \in PayableVes, tip \in Tips : Submit(c, payer, amount, tip)
        \/ Approve(c) \/ Decline(c) \/ Misread(c) \/ HearNothing(c)
        \/ RecordDoubt(c) \/ RecordRefusal(c) \/ SettleDirect(c) \/ ParkDirect(c)
        \/ Crash(c)
  BY DEF ChargeStep
<1>2. call[c].at # "MISLED"
  BY <1>0, <1>1 DEF Submit, Asking, Approve, Decline, Misread, HearNothing, RecordDoubt, RecordRefusal,
                    SettleDirect, ParkDirect, Crash, Running
<1>3. \A d \in Charges \ {c} : call'[d] = call[d]
  BY <1>0, <1>1 DEF TypeOK, Submit, Approve, Decline, Misread, HearNothing, RecordDoubt, RecordRefusal,
                    SettleDirect, ParkDirect, Crash, Tell
<1> QED BY <1>2, <1>3 DEF ToldStays

(* A step of a charge undoes nothing.                                      *)
LEMMA ChargeGrows == ASSUME ChargesOK, ChargeStep PROVE Grows
<1>0. TypeOK /\ ToldStays
  BY ChargeTells DEF ChargesOK, Typed
<1>1. PICK c \in Charges :
        \/ \E payer \in Payers, amount \in PayableVes, tip \in Tips : Submit(c, payer, amount, tip)
        \/ Approve(c) \/ Decline(c) \/ Misread(c) \/ HearNothing(c)
        \/ RecordDoubt(c) \/ RecordRefusal(c) \/ SettleDirect(c) \/ ParkDirect(c)
        \/ Crash(c)
  BY DEF ChargeStep
<1>2. ASSUME NEW payer \in Payers, NEW amount \in PayableVes, NEW tip \in Tips,
             Submit(c, payer, amount, tip)
      PROVE  Grows
  BY <1>0, <1>2 DEF TypeOK, Submit, Raised, Grows, StatusGrows, BankGrows, AgeGrows
<1>3. CASE Approve(c) \/ Misread(c) \/ HearNothing(c) \/ Crash(c)
  BY <1>0, <1>3 DEF Approve, Misread, HearNothing, Crash, Grows, StatusGrows, BankGrows, AgeGrows
<1>4. CASE Decline(c)
  <2>1. Raised(c)
    BY <1>4 DEF ChargesOK, Charging, Asking, Decline
  <2> QED BY <1>0, <1>4, <2>1 DEF TypeOK, Decline, Grows, StatusGrows, BankGrows, AgeGrows
<1>5. CASE RecordDoubt(c) \/ RecordRefusal(c) \/ SettleDirect(c) \/ ParkDirect(c)
  <2>1. ASSUME call[c].at = "APPROVED" PROVE call[c].reference \in References \cup {None}
    BY <2>1, ReferenceType DEF ChargesOK, Charging, Asking
  <2>2. \A d \in Charges : StatusGrows(d)
    <3>1. CASE UNCHANGED payments
      BY <3>1, StatusStays
    <3>2. ASSUME NEW s \in Status, Move(c, s) PROVE \A d \in Charges : StatusGrows(d)
      BY <1>0, <3>2, MoveRow
    <3>3. ASSUME NEW s \in Status, NEW ref \in References \cup {None}, Spend(c, ref, s)
          PROVE \A d \in Charges : StatusGrows(d)
      BY <1>0, <3>3, SpendRow
    <3> QED BY <1>5, <2>1, <3>1, <3>2, <3>3
            DEF RecordDoubt, RecordRefusal, SettleDirect, ParkDirect, Status
  <2>3. UNCHANGED <<orders, bank, age>>
    BY <1>5 DEF RecordDoubt, RecordRefusal, SettleDirect, ParkDirect
  <2> QED BY <1>0, <2>2, <2>3 DEF Grows, BankGrows, AgeGrows
<1> QED BY <1>1, <1>2, <1>3, <1>4, <1>5

(* Neither do the bank, the clock and the other rails.                     *)
LEMMA OutsideGrows == ASSUME ChargesOK, OutsideStep PROVE Grows
<1>0. TypeOK
  BY DEF ChargesOK, Typed
<1>1. ASSUME NEW c \in Charges, Debit(c) \/ List(c) \/ Mature(c) \/ Expire(c) PROVE Grows
  <2> USE DEF TypeOK, Grows, ToldStays, StatusGrows, BankGrows, AgeGrows
  <2>1. CASE Debit(c)
    BY <1>0, <2>1 DEF Debit
  <2>2. CASE List(c)
    BY <1>0, <2>2 DEF List
  <2>3. CASE Mature(c)
    BY <1>0, <2>3 DEF Mature
  <2>4. CASE Expire(c)
    BY <1>0, <2>4 DEF Expire
  <2> QED BY <1>1, <2>1, <2>2, <2>3, <2>4
<1>2. ASSUME CloseBill \/ \E a \in PayableVes : OtherPayment(a) PROVE Grows
  BY <1>2 DEF CloseBill, OtherPayment, Grows, ToldStays, StatusGrows, BankGrows, AgeGrows
<1> QED BY <1>1, <1>2 DEF OutsideStep

(* Nor does a resolution.                                                  *)
LEMMA ResolveGrows == ASSUME ChargesOK, ResolveStep \/ Interrupted PROVE Grows
<1>0. TypeOK
  BY DEF ChargesOK, Typed
<1>1. PICK r \in Resolvers :
        \/ \E c \in Charges : Ask(r, c)
        \/ ExpireWindow(r) \/ Search(r) \/ Match(r)
        \/ FindResolved(r) \/ SettleMatched(r) \/ RefuseMatched(r) \/ ParkMatched(r)
        \/ LoseMovement(r) \/ StopAmbiguous(r) \/ FailUnmatched(r)
        \/ GiveUp(r)
  BY DEF ResolveStep, Interrupted
<1>2. UNCHANGED <<orders, bank, age, call>>
  BY <1>1 DEF Ask, ExpireWindow, Search, Match, FindResolved, SettleMatched, RefuseMatched,
              ParkMatched, LoseMovement, StopAmbiguous, FailUnmatched, GiveUp
<1>3. ASSUME resolving[r] # None
      PROVE  /\ resolving[r] \in Resolution /\ resolving[r].charge \in Charges
             /\ \A d \in resolving[r].seen : Movement(d) \in References
  BY <1>0, <1>3, AtIsAbout, MovementType
<1>4. \A d \in Charges : StatusGrows(d)
  <2>1. CASE UNCHANGED payments
    BY <2>1, StatusStays
  <2>2. CASE ExpireWindow(r) \/ StopAmbiguous(r) \/ FailUnmatched(r)
    <3>1. resolving[r].charge \in Charges
      BY <1>3, <2>2 DEF ExpireWindow, StopAmbiguous, FailUnmatched, At
    <3>2. UNCHANGED payments \/ \E s \in Status : Move(resolving[r].charge, s)
      BY <2>2 DEF ExpireWindow, StopAmbiguous, FailUnmatched, Status
    <3>3. ASSUME NEW s \in Status, Move(resolving[r].charge, s) PROVE \A d \in Charges : StatusGrows(d)
      BY <1>0, <3>1, <3>3, MoveRow
    <3> QED BY <2>1, <3>2, <3>3
  <2>3. CASE SettleMatched(r) \/ ParkMatched(r)
    <3>1. resolving[r] # None
      BY <2>3 DEF SettleMatched, ParkMatched, At
    <3>2. PICK s \in Status, d \in resolving[r].seen : Spend(resolving[r].charge, Movement(d), s)
      BY <2>3 DEF SettleMatched, ParkMatched, Status
    <3>3. Movement(d) \in References \cup {None} /\ resolving[r].charge \in Charges
      BY <1>3, <3>1
    <3> QED BY <1>0, <3>2, <3>3, SpendRow
  <2> QED BY <1>1, <2>1, <2>2, <2>3
          DEF Ask, Search, Match, FindResolved, RefuseMatched, LoseMovement, GiveUp
<1> QED BY <1>2, <1>4 DEF Grows, ToldStays, BankGrows, AgeGrows

(* Nor does any step: orders stay, debits stay debited, and nobody grows   *)
(* younger.                                                                *)
LEMMA GrowsStep == ASSUME ChargesOK, [Next]_vars PROVE Grows
<1>1. CASE UNCHANGED vars
  BY <1>1 DEF vars, Grows, ToldStays, StatusGrows, BankGrows, AgeGrows
<1> QED BY <1>1, ChargeGrows, OutsideGrows, ResolveGrows DEF Next, Uninterrupted

(* What a step that undoes nothing keeps of a charge.                      *)
LEMMA Kept ==
  ASSUME ChargesOK, Grows, NEW c \in Charges
  PROVE  /\ Raised(c) => Raised(c)' /\ orders'[c] = orders[c]
         /\ call[c].at = "MISLED" => call'[c].at = "MISLED"
         /\ Debited(c) => Debited(c)'
         /\ bank[c] \in {"REFUSED", "LISTED"} => bank'[c] = bank[c]
         /\ age[c] # "YOUNG" => age'[c] # "YOUNG" /\ (Debited(c)' => Debited(c))
         /\ payments[c].status \notin {"NONE", "PENDING"} =>
              payments'[c].status \notin {"NONE", "PENDING"}
         /\ payments[c].status \in {"SUCCEEDED", "AMBIGUOUS", "FAILED"} =>
              payments'[c].status = payments[c].status
BY DEF Grows, ToldStays, StatusGrows, BankGrows, AgeGrows, Raised, Debited

(* The charges that look like a charge only become more.                   *)
LEMMA AlikeGrows ==
  ASSUME ChargesOK, Grows, NEW c \in Charges, Raised(c)
  PROVE  /\ Alike(c) \subseteq Alike(c)'
         /\ Alike(c)' = {c} => Alike(c) = {c}
<1>1. /\ Raised(c)' /\ orders'[c] = orders[c]
      /\ \A d \in Charges : Raised(d) => Raised(d)' /\ orders'[d] = orders[d]
  BY Kept
<1>2. Alike(c) \subseteq Alike(c)'
  BY <1>1 DEF Alike, Charged
<1>3. c \in Alike(c)
  BY DEF Alike
<1> QED BY <1>2, <1>3

(* A grown charge that nothing resembles now never was resembled.          *)
LEMMA LoneBefore ==
  ASSUME ChargesOK, Grows, NEW c \in Charges, Raised(c), age[c] # "YOUNG", Lone(c)'
  PROVE  Lone(c)
BY Kept, AlikeGrows DEF Lone

-----------------------------------------------------------------------------
(* A charge while its request runs.                                        *)

(* A call that is left alone stays in agreement with its row and its       *)
(* bank.                                                                   *)
LEMMA AskingKept ==
  ASSUME ChargesOK, Grows, NEW c \in Charges,
         call'[c] = call[c], Raised(c) \/ (bank'[c] = bank[c] /\ payments'[c] = payments[c]),
         Running(c) => payments'[c].status = payments[c].status
  PROVE  Asking(c)'
<1>1. Asking(c)
  BY DEF ChargesOK, Charging
<1>2. CASE Raised(c)
  BY <1>1, <1>2, Kept DEF Asking, Running
<1>3. CASE ~ Raised(c)
  BY <1>1, <1>3, Kept DEF Asking, Running, Raised, Debited
<1> QED BY <1>2, <1>3

(* Only a charge in doubt is resolved, and no request of it runs.          *)
LEMMA ResolveAsks == ASSUME ChargesOK, ResolveStep \/ Interrupted PROVE \A c \in Charges : Asking(c)'
<1> SUFFICES ASSUME NEW c \in Charges PROVE Asking(c)'
  OBVIOUS
<1>0. TypeOK /\ Grows
  BY ResolveGrows DEF ChargesOK, Typed
<1>1. PICK r \in Resolvers :
        \/ \E d \in Charges : Ask(r, d)
        \/ ExpireWindow(r) \/ Search(r) \/ Match(r)
        \/ FindResolved(r) \/ SettleMatched(r) \/ RefuseMatched(r) \/ ParkMatched(r)
        \/ LoseMovement(r) \/ StopAmbiguous(r) \/ FailUnmatched(r)
        \/ GiveUp(r)
  BY DEF ResolveStep, Interrupted
<1>2. UNCHANGED <<bank, call>>
  BY <1>1 DEF Ask, ExpireWindow, Search, Match, FindResolved, SettleMatched, RefuseMatched,
              ParkMatched, LoseMovement, StopAmbiguous, FailUnmatched, GiveUp
<1>3. payments'[c] # payments[c] => payments[c].status \notin {"NONE", "PENDING"}
  <2> SUFFICES ASSUME payments'[c] # payments[c] PROVE payments[c].status \notin {"NONE", "PENDING"}
    OBVIOUS
  <2>1. \/ ExpireWindow(r) \/ StopAmbiguous(r) \/ FailUnmatched(r)
        \/ SettleMatched(r) \/ ParkMatched(r)
    BY <1>1 DEF Ask, Search, Match, FindResolved, RefuseMatched, LoseMovement, GiveUp
  <2>2. resolving[r] # None
    BY <2>1 DEF ExpireWindow, StopAmbiguous, FailUnmatched, SettleMatched, ParkMatched, At
  <2>3. /\ resolving[r].charge \in Charges
        /\ \A d \in resolving[r].seen : Movement(d) \in References
        /\ payments[resolving[r].charge].status \notin {"NONE", "PENDING"}
    BY <1>0, <2>2, AtIsAbout, AtIsSound, MovementType DEF Sound
  <2>4. CASE ExpireWindow(r) \/ StopAmbiguous(r) \/ FailUnmatched(r)
    <3>1. UNCHANGED payments \/ \E s \in Status : Move(resolving[r].charge, s)
      BY <2>4 DEF ExpireWindow, StopAmbiguous, FailUnmatched, Status
    <3>2. c = resolving[r].charge
      BY <1>0, <2>3, <3>1, MoveRow
    <3> QED BY <2>3, <3>2
  <2>5. CASE SettleMatched(r) \/ ParkMatched(r)
    <3>1. PICK s \in Status, d \in resolving[r].seen : Spend(resolving[r].charge, Movement(d), s)
      BY <2>5 DEF SettleMatched, ParkMatched, Status
    <3>2. Movement(d) \in References \cup {None}
      BY <2>3
    <3>3. c = resolving[r].charge
      BY <1>0, <2>3, <3>1, <3>2, SpendRow
    <3> QED BY <2>3, <3>3
  <2> QED BY <2>1, <2>4, <2>5
<1>4. Running(c) => payments'[c].status = payments[c].status
  BY <1>3 DEF ChargesOK, Charging, Asking
<1>5. ~ Raised(c) => payments'[c] = payments[c]
  BY <1>3 DEF Raised
<1>6. call'[c] = call[c] /\ (Raised(c) \/ (bank'[c] = bank[c] /\ payments'[c] = payments[c]))
  BY <1>2, <1>5
<1> QED BY <1>0, <1>4, <1>6, AskingKept

(* What the bank and the clock do agrees with every call.                  *)
LEMMA OutsideAsks == ASSUME ChargesOK, OutsideStep PROVE \A c \in Charges : Asking(c)'
<1> SUFFICES ASSUME NEW c \in Charges PROVE Asking(c)'
  OBVIOUS
<1>0. TypeOK /\ Grows
  BY OutsideGrows DEF ChargesOK, Typed
<1>1. UNCHANGED <<payments, call>>
  BY DEF OutsideStep, Debit, List, Mature, Expire, OtherPayment, CloseBill
<1>2. ~ Raised(c) => bank'[c] = bank[c]
  BY <1>0 DEF Grows, BankGrows, ChargesOK, Charging, Asking
<1> QED BY <1>0, <1>1, <1>2, AskingKept

(* A step of a charge keeps its call, its row and its bank in agreement.   *)
LEMMA ChargeAsks == ASSUME ChargesOK, ChargeStep PROVE \A c \in Charges : Asking(c)'
<1>0. TypeOK /\ Grows /\ TypeOK'
  BY ChargeGrows, ChargeTypes DEF ChargesOK, Typed
<1>1. PICK c \in Charges :
        \/ \E payer \in Payers, amount \in PayableVes, tip \in Tips : Submit(c, payer, amount, tip)
        \/ Approve(c) \/ Decline(c) \/ Misread(c) \/ HearNothing(c)
        \/ RecordDoubt(c) \/ RecordRefusal(c) \/ SettleDirect(c) \/ ParkDirect(c)
        \/ Crash(c)
  BY DEF ChargeStep
<1>2. Asking(c) /\ Spent(c)
  BY DEF ChargesOK, Charging
<1>a. ASSUME call[c].at = "APPROVED" PROVE call[c].reference \in References \cup {None}
  BY <1>2, <1>a, ReferenceType DEF Asking
<1>3. \A d \in Charges \ {c} :
        call'[d] = call[d] /\ bank'[d] = bank[d] /\ payments'[d] = payments[d]
  <2>1. ASSUME \E payer \in Payers, amount \in PayableVes, tip \in Tips : Submit(c, payer, amount, tip)
        PROVE  \A d \in Charges \ {c} :
                 call'[d] = call[d] /\ bank'[d] = bank[d] /\ payments'[d] = payments[d]
    BY <1>0, <2>1 DEF Submit, TypeOK
  <2>2. CASE Approve(c) \/ Decline(c) \/ Misread(c) \/ HearNothing(c) \/ Crash(c)
    BY <1>0, <2>2 DEF Approve, Decline, Misread, HearNothing, Crash, Tell, TypeOK
  <2>3. CASE RecordDoubt(c) \/ RecordRefusal(c) \/ SettleDirect(c) \/ ParkDirect(c)
    <3>1. \A d \in Charges \ {c} : call'[d] = call[d] /\ bank'[d] = bank[d]
      BY <1>0, <2>3 DEF RecordDoubt, RecordRefusal, SettleDirect, ParkDirect, Tell, TypeOK
    <3>2. \A d \in Charges \ {c} : payments'[d] = payments[d]
      <4>1. CASE UNCHANGED payments
        BY <4>1
      <4>2. ASSUME NEW s \in Status, Move(c, s) PROVE \A d \in Charges \ {c} : payments'[d] = payments[d]
        BY <1>0, <4>2, MoveRow
      <4>3. ASSUME NEW s \in Status, NEW ref \in References \cup {None}, Spend(c, ref, s)
            PROVE  \A d \in Charges \ {c} : payments'[d] = payments[d]
        BY <1>0, <4>3, SpendRow
      <4> QED BY <2>3, <1>a, <4>1, <4>2, <4>3
              DEF RecordDoubt, RecordRefusal, SettleDirect, ParkDirect, Status
    <3> QED BY <3>1, <3>2
  <2> QED BY <1>1, <2>1, <2>2, <2>3
<1>4. \A d \in Charges \ {c} : Asking(d)'
  BY <1>0, <1>3, AskingKept
<1>5. Asking(c)'
  <2>1. ASSUME NEW payer \in Payers, NEW amount \in PayableVes, NEW tip \in Tips,
               Submit(c, payer, amount, tip)
        PROVE  Asking(c)'
    <3>1. call'[c].at = "ASKING" /\ payments'[c].status = "PENDING" /\ orders'[c] =
            [payer |-> payer, amount |-> amount, tip |-> tip]
      BY <1>0, <2>1 DEF Submit, TypeOK
    <3>2. [payer |-> payer, amount |-> amount, tip |-> tip] \in Order
      BY C2PAssumption DEF Order
    <3> QED BY <3>1, <3>2 DEF Asking, Raised, Running
  <2>2. Raised(c) \/ \E payer \in Payers, amount \in PayableVes, tip \in Tips : Submit(c, payer, amount, tip)
    BY <1>1, <1>2 DEF Asking, Approve, Decline, Misread, HearNothing, RecordDoubt, RecordRefusal,
                      SettleDirect, ParkDirect, Crash, Running
  <2>3. ASSUME Raised(c), Approve(c) PROVE Asking(c)'
    <3>1. PICK answer \in Answers : call'[c] = [at |-> "APPROVED", reference |-> ReferenceFor(answer, c)]
      BY <1>0, <2>3 DEF Approve, TypeOK
    <3>2. Debited(c)' /\ payments'[c].status = "PENDING"
      BY <1>2, <2>3 DEF Approve, Debited, Asking, Running
    <3> QED BY <1>0, <1>2, <2>3, <3>1, <3>2, Kept DEF Asking, Running
  <2>4. ASSUME Raised(c), Decline(c) PROVE Asking(c)'
    <3>1. call'[c].at = "REFUSED" /\ bank'[c] = "REFUSED" /\ payments'[c].status = "PENDING"
      BY <1>0, <1>2, <2>4 DEF Decline, TypeOK, Asking, Running
    <3> QED BY <1>0, <1>2, <2>4, <3>1, Kept DEF Asking, Running
  <2>5. ASSUME Raised(c), HearNothing(c) \/ Misread(c) PROVE Asking(c)'
    <3>1. call'[c].at \in {"SILENT", "MISREAD"} /\ payments'[c].status = "PENDING"
      BY <1>0, <1>2, <2>5 DEF HearNothing, Misread, TypeOK, Asking, Running
    <3> QED BY <1>0, <1>2, <2>5, <3>1, Kept DEF Asking, Running
  <2>6. ASSUME Raised(c), RecordDoubt(c) \/ SettleDirect(c) \/ ParkDirect(c) \/ Crash(c)
        PROVE  Asking(c)'
    <3>1. call'[c].at = "OVER"
      BY <1>0, <2>6 DEF RecordDoubt, SettleDirect, ParkDirect, Crash, Tell, TypeOK
    <3> QED BY <1>0, <1>2, <2>6, <3>1, Kept DEF Asking, Running
  <2>7. ASSUME Raised(c), RecordRefusal(c) PROVE Asking(c)'
    <3>1. call'[c].at = IF call[c].at = "MISREAD" THEN "MISLED" ELSE "DENIED"
      BY <1>0, <2>7 DEF RecordRefusal, Tell, TypeOK
    <3>2. call'[c].at = "DENIED" => bank'[c] = "REFUSED"
      BY <1>2, <2>7, <3>1 DEF RecordRefusal, Asking
    <3> QED BY <1>0, <1>2, <2>7, <3>1, <3>2, Kept DEF Asking, Running
  <2> QED BY <1>1, <2>1, <2>2, <2>3, <2>4, <2>5, <2>6, <2>7
<1> QED BY <1>4, <1>5

(* So does every step.                                                     *)
LEMMA AskingStep == ASSUME ChargesOK, [Next]_vars PROVE \A c \in Charges : Asking(c)'
<1>1. CASE UNCHANGED vars
  BY <1>1, GrowsStep, AskingKept DEF vars
<1> QED BY <1>1, ChargeAsks, OutsideAsks, ResolveAsks DEF Next, Uninterrupted

(* The list of charges grows by the charge just raised.                    *)
LEMMA InOrderStep == ASSUME ChargesOK, [Next]_vars PROVE InOrder'
<1>0. TypeOK /\ InOrder /\ Grows
  BY GrowsStep DEF ChargesOK, Typed
<1>1. CASE raised' = raised
  <2>1. \A i \in DOMAIN raised : raised[i] \in Charges
    BY <1>0 DEF TypeOK
  <2> QED BY <1>0, <1>1, <2>1, Kept DEF InOrder
<1>2. ASSUME NEW c \in Charges, NEW payer \in Payers, NEW amount \in PayableVes, NEW tip \in Tips,
             Submit(c, payer, amount, tip)
      PROVE  InOrder'
  <2>1. /\ raised \in Seq(Charges) /\ raised' = Append(raised, c) /\ ~ Raised(c)
    BY <1>0, <1>2 DEF Submit, TypeOK
  <2>2. /\ DOMAIN raised' = 1 .. Len(raised) + 1 /\ DOMAIN raised = 1 .. Len(raised)
        /\ Len(raised) \in Nat
        /\ \A i \in 1 .. Len(raised) : raised'[i] = raised[i]
        /\ raised'[Len(raised) + 1] = c
    BY <2>1, AppendProperties
  <2>3. \A i \in DOMAIN raised : raised[i] \in Charges /\ Raised(raised[i]) /\ raised[i] # c
    BY <1>0, <2>1 DEF InOrder
  <2>4. Raised(c)'
    BY <1>0, <1>2 DEF Submit, TypeOK, Raised
  <2>5. \A i \in DOMAIN raised' : payments'[raised'[i]].status # "NONE"
    <3> TAKE i \in DOMAIN raised'
    <3>1. CASE i = Len(raised) + 1
      <4>1. raised'[i] = c
        BY <2>2, <3>1
      <4> QED BY <2>4, <4>1 DEF Raised
    <3>2. CASE i \in 1 .. Len(raised)
      <4>1. raised'[i] = raised[i] /\ raised[i] \in Charges /\ Raised(raised[i])
        BY <2>2, <2>3, <3>2
      <4>2. payments'[raised[i]].status # "NONE"
        BY <1>0, <4>1 DEF Grows, StatusGrows, Raised
      <4> QED BY <4>1, <4>2
    <3> QED BY <2>2, <3>1, <3>2
  <2>6. \A i, j \in DOMAIN raised' : raised'[i] = raised'[j] => i = j
    BY <1>0, <2>2, <2>3 DEF InOrder
  <2> QED BY <2>5, <2>6 DEF InOrder, Raised
<1>3. raised' = raised \/ \E c \in Charges, payer \in Payers, amount \in PayableVes, tip \in Tips :
                            Submit(c, payer, amount, tip)
  BY DEF Next, Uninterrupted, Interrupted, ChargeStep, OutsideStep, ResolveStep, vars, Approve,
         Decline, Misread, HearNothing, RecordDoubt, RecordRefusal, SettleDirect, ParkDirect, Crash,
         Debit, List, Mature, Expire, OtherPayment, CloseBill, Ask, ExpireWindow, Search, Match,
         FindResolved, SettleMatched, RefuseMatched, ParkMatched, LoseMovement, StopAmbiguous,
         FailUnmatched, GiveUp
<1> QED BY <1>1, <1>2, <1>3

-----------------------------------------------------------------------------
(* What a cashier's request believes stays true while it waits.            *)
LEMMA SoundKept ==
  ASSUME ChargesOK, Grows, NEW x \in Resolution, Sound(x)
  PROVE  Sound(x)'
<1> DEFINE c == x.charge
<1>0. c \in Charges /\ x.seen \in SUBSET Charges
  BY DEF Resolution
<1>1. \A d \in Charges : bank[d] = "LISTED" => Raised(d)
  BY DEF ChargesOK, Charging, Asking
<1>2. Raised(c) /\ Raised(c)' /\ orders'[c] = orders[c]
  BY <1>0, Kept DEF Sound
<1>3. payments'[c].status \notin {"NONE", "PENDING"}
  BY <1>0, Kept DEF Sound
<1>4. x.stage = "SEARCHED" => \A d \in x.seen : bank'[d] = "LISTED" /\ Charged(d)' = Charged(c)'
  BY <1>0, <1>1, <1>2, Kept DEF Sound, Charged
<1>5. x.stage \in {"MATCHED", "PARKING"} => \A d \in x.seen : bank'[d] = "LISTED" /\ d \in Alike(c)'
  BY <1>0, <1>2, Kept, AlikeGrows DEF Sound
<1>6. x.mature => age[c] # "YOUNG" /\ age'[c] # "YOUNG"
  BY <1>0, Kept DEF Sound
<1>7. x.stage = "SEARCHED" /\ x.mature /\ Lone(c)' => c \in x.seen
  BY <1>0, <1>2, <1>6, LoneBefore DEF Sound
<1>8. x.stage = "NO_MATCH" /\ x.mature /\ Lone(c)' => payments'[c].status # "IN_DOUBT"
  <2> SUFFICES ASSUME x.stage = "NO_MATCH", x.mature, Lone(c)'
               PROVE  payments'[c].status # "IN_DOUBT"
    OBVIOUS
  <2>1. Lone(c)
    BY <1>0, <1>2, <1>6, LoneBefore
  <2>2. payments[c].status \notin {"NONE", "PENDING", "IN_DOUBT"}
    BY <2>1 DEF Sound
  <2> QED BY <1>0, <2>2 DEF Grows, StatusGrows
<1> QED BY <1>2, <1>3, <1>4, <1>5, <1>6, <1>7, <1>8 DEF Sound, Raised

(* A charge is not created before itself.                                  *)
LEMMA NotBeforeItself == ASSUME InOrder, raised \in Seq(Charges), NEW c \in Charges PROVE ~ CreatedBefore(c, c)
<1> SUFFICES ASSUME CreatedBefore(c, c) PROVE FALSE
  OBVIOUS
<1>1. PICK i \in DOMAIN raised, j \in DOMAIN raised : i < j /\ raised[i] = c /\ raised[j] = c
  BY DEF CreatedBefore
<1>2. i = j
  BY <1>1 DEF InOrder
<1>3. i \in Nat
  BY <1>1
<1> QED BY <1>1, <1>2, <1>3

(* The window of a mature charge that resembles no other holds its own     *)
(* debit.                                                                  *)
LEMMA SearchSound ==
  ASSUME ChargesOK, NEW r \in Resolvers, Search(r), NEW x \in Resolution, resolving'[r] = x
  PROVE  Sound(x)
<1> DEFINE c == resolving[r].charge
           listed == {d \in Charges : bank[d] = "LISTED" /\ Charged(d) = Charged(c)}
           earlier == {d \in listed : CreatedBefore(d, c)}
<1>0. TypeOK /\ resolving[r] # None /\ At(r, "ASKED")
  BY DEF ChargesOK, Typed, Search, At
<1>1. resolving[r] \in Resolution /\ Sound(resolving[r]) /\ c \in Charges
  BY <1>0, AtIsAbout, AtIsSound
<1>2. PICK some \in SUBSET earlier :
        resolving' = [resolving EXCEPT ![r].stage = "SEARCHED",
                                       ![r].seen = (listed \ earlier) \cup some]
  BY DEF Search
<1> DEFINE saw == (listed \ earlier) \cup some
<1>3. saw \subseteq listed /\ (c \in listed /\ ~ CreatedBefore(c, c) => c \in saw)
  OBVIOUS
<1>4. x.stage = "SEARCHED" /\ x.charge = c /\ x.mature = resolving[r].mature /\ x.seen = saw
  <2> HIDE DEF saw, c
  <2>1. resolving' = [resolving EXCEPT ![r].stage = "SEARCHED", ![r].seen = saw]
    BY <1>2 DEF saw
  <2> QED BY <1>0, <1>1, <2>1 DEF TypeOK, Resolution, c
<1>5. \A d \in saw : bank[d] = "LISTED" /\ Charged(d) = Charged(c)
  BY <1>3
<1>6. x.mature /\ Lone(c) => c \in saw
  <2> SUFFICES ASSUME x.mature, Lone(c) PROVE c \in saw
    OBVIOUS
  <2>1. age[c] # "YOUNG"
    BY <1>1, <1>4 DEF Sound
  <2>2. bank[c] # "DEBITED"
    BY <1>1, <2>1 DEF ChargesOK, Charging, Spent
  <2>3. bank[c] = "LISTED"
    BY <2>2 DEF Lone, Debited
  <2>4. ~ CreatedBefore(c, c)
    BY <1>0, <1>1, NotBeforeItself DEF ChargesOK, TypeOK
  <2> QED BY <1>1, <1>3, <2>3, <2>4
<1>7. Raised(c) /\ payments[c].status \notin {"NONE", "PENDING"} /\ (x.mature => age[c] # "YOUNG")
  BY <1>0, <1>1, <1>4 DEF Sound, At
<1> HIDE DEF saw, c
<1> QED BY <1>4, <1>5, <1>6, <1>7 DEF Sound

(* A match is one movement of the payer; and when the only charge of its   *)
(* kind was debited and nothing matches, it has its movement already.      *)
LEMMA MatchSound ==
  ASSUME ChargesOK, NEW r \in Resolvers, Match(r), NEW x \in Resolution, resolving'[r] = x
  PROVE  Sound(x)
<1> DEFINE c == resolving[r].charge
           candidates == {d \in resolving[r].seen : ~ Consumed(d)}
           byPayer == {d \in candidates : OfPayer(c, d)}
           stage == IF candidates = {} THEN "NO_MATCH"
                    ELSE IF Cardinality(byPayer) = 1 THEN "MATCHED" ELSE "AMBIGUOUS"
           saw == IF Cardinality(byPayer) = 1 THEN byPayer ELSE {}
<1>0. TypeOK /\ resolving[r] # None /\ resolving[r].stage = "SEARCHED"
  BY DEF ChargesOK, Typed, Match, At
<1>1. /\ resolving[r] \in Resolution /\ Sound(resolving[r]) /\ c \in Charges
      /\ resolving[r].seen \in SUBSET Charges
  BY <1>0, AtIsAbout, AtIsSound
<1>2. x.stage = stage /\ x.charge = c /\ x.mature = resolving[r].mature /\ x.seen = saw
  <2>1. resolving' = [resolving EXCEPT ![r].stage = stage, ![r].seen = saw]
    BY DEF Match
  <2> HIDE DEF saw, c, stage
  <2> QED BY <1>0, <1>1, <2>1 DEF TypeOK, Resolution, c
<1>3. Raised(c) /\ payments[c].status \notin {"NONE", "PENDING"} /\ (x.mature => age[c] # "YOUNG")
  BY <1>0, <1>1, <1>2 DEF Sound
<1>4. \A d \in saw : bank[d] = "LISTED" /\ d \in Alike(c)
  <2> SUFFICES ASSUME NEW d \in saw PROVE bank[d] = "LISTED" /\ d \in Alike(c)
    OBVIOUS
  <2>1. d \in byPayer
    OBVIOUS
  <2>2. d \in Charges /\ bank[d] = "LISTED" /\ Charged(d) = Charged(c)
    BY <1>0, <1>1, <2>1 DEF Sound
  <2>3. Raised(d)
    BY <2>2 DEF ChargesOK, Charging, Asking
  <2>4. orders[d].payer = orders[c].payer
    BY <2>1 DEF OfPayer
  <2> QED BY <2>2, <2>3, <2>4 DEF Alike
<1>5. x.stage = "NO_MATCH" /\ x.mature /\ Lone(c) => payments[c].status # "IN_DOUBT"
  <2> SUFFICES ASSUME stage = "NO_MATCH", x.mature, Lone(c) PROVE payments[c].status # "IN_DOUBT"
    BY <1>2
  <2>1. candidates = {}
    OBVIOUS
  <2>2. c \in resolving[r].seen
    BY <1>0, <1>1, <1>2 DEF Sound
  <2>3. Consumed(c)
    BY <2>1, <2>2
  <2>4. PICK e \in Charges : payments[e].reference = <<"REFERENCE", c>>
    BY <2>3 DEF Consumed, Movement
  <2>5. payments[e].reference # None
    BY <1>1, <2>4, NoneIsNothing DEF References
  <2>6. payments[e].status \in {"SUCCEEDED", "AMBIGUOUS"} /\ c \in Alike(e)
    <3>1. Spent(e)
      BY DEF ChargesOK, Charging
    <3>2. payments[e].reference[2] = c
      BY <2>4
    <3> HIDE DEF c
    <3> QED BY <2>5, <3>1, <3>2 DEF Spent, Referenced
  <2>7. Raised(e)
    BY <2>6 DEF Raised
  <2>8. e \in Alike(c)
    BY <2>6, <2>7 DEF Alike
  <2>9. e = c
    BY <2>8 DEF Lone
  <2> QED BY <2>6, <2>9
<1>6. x.stage \in {"NO_MATCH", "MATCHED", "AMBIGUOUS"}
  BY <1>2
<1> HIDE DEF saw, c, stage
<1> QED BY <1>2, <1>3, <1>4, <1>5, <1>6 DEF Sound

(* Every step keeps resolutions sound: what one has seen was listed, and   *)
(* what it read before its lock it reads again.                            *)
LEMMA ResolvingStep == ASSUME ChargesOK, [Next]_vars PROVE Resolving'
<1> SUFFICES ASSUME NEW r \in Resolvers, NEW x \in Resolution, resolving'[r] = x PROVE Sound(x)'
  BY DEF Resolving
<1>0. TypeOK /\ Grows
  BY GrowsStep DEF ChargesOK, Typed
<1>1. x # None
  BY NoneIsNothing
<1>2. SUFFICES ASSUME resolving'[r] # resolving[r] PROVE Sound(x)
  <2>1. CASE resolving'[r] = resolving[r]
    BY <2>1, AtIsSound, <1>0, SoundKept, <1>1
  <2>2. CASE resolving'[r] # resolving[r]
    BY <1>0, <1>2, <2>2, SoundKept
  <2> QED BY <2>1, <2>2
<1>3. resolving[r] # None => /\ resolving[r] \in Resolution /\ Sound(resolving[r])
                            /\ resolving[r].charge \in Charges
  BY <1>0, AtIsAbout, AtIsSound
<1>4. resolving' # resolving
  BY <1>2
<1>5. PICK q \in Resolvers :
        \/ \E c \in Charges : Ask(q, c)
        \/ ExpireWindow(q) \/ Search(q) \/ Match(q)
        \/ FindResolved(q) \/ SettleMatched(q) \/ RefuseMatched(q) \/ ParkMatched(q)
        \/ LoseMovement(q) \/ StopAmbiguous(q) \/ FailUnmatched(q)
        \/ GiveUp(q)
  <2>1. ASSUME ChargeStep \/ OutsideStep \/ UNCHANGED vars PROVE FALSE
    BY <1>4, <2>1 DEF ChargeStep, OutsideStep, vars, Submit, Approve, Decline, Misread, HearNothing,
         RecordDoubt, RecordRefusal, SettleDirect, ParkDirect, Crash, Debit, List, Mature, Expire,
         OtherPayment, CloseBill
  <2> QED BY <2>1 DEF Next, Uninterrupted, ResolveStep, Interrupted
<1>6. ASSUME Ends(q) PROVE FALSE
  BY <1>0, <1>1, <1>2, <1>6 DEF TypeOK, Ends
<1>7. ASSUME NEW c \in Charges, Ask(q, c) PROVE Sound(x)
  <2>1. q = r
    BY <1>0, <1>2, <1>7 DEF TypeOK, Ask
  <2>2. x = [stage |-> IF age[c] = "EXPIRED" THEN "EXPIRING" ELSE "ASKED",
             charge |-> c, mature |-> age[c] # "YOUNG", seen |-> {}]
    BY <1>0, <1>7, <2>1 DEF TypeOK, Ask
  <2>3. x.charge = c /\ x.mature = (age[c] # "YOUNG")
    BY <2>2
  <2>4. x.stage = IF age[c] = "EXPIRED" THEN "EXPIRING" ELSE "ASKED"
    BY <2>2
  <2>5. x.stage \in {"EXPIRING", "ASKED"} /\ payments[c].status = "IN_DOUBT"
    BY <1>7, <2>4 DEF Ask
  <2>6. x.mature => age[c] # "YOUNG"
    BY <2>3, Zenon
  <2>7. Raised(c)
    BY <1>7 DEF Ask, Raised
  <2> QED BY <2>3, <2>5, <2>6, <2>7 DEF Sound
<1>8. CASE Search(q)
  <2>1. q = r
    BY <1>0, <1>2, <1>8 DEF TypeOK, Search
  <2> QED BY <1>8, <2>1, SearchSound
<1>9. CASE Match(q)
  <2>1. q = r
    BY <1>0, <1>2, <1>9 DEF TypeOK, Match
  <2> QED BY <1>9, <2>1, MatchSound
<1>11. CASE RefuseMatched(q)
  <2>1. q = r /\ resolving[r] # None /\ resolving[r].stage = "MATCHED"
    BY <1>0, <1>2, <1>11 DEF TypeOK, RefuseMatched, Goes, At
  <2>2. /\ x.stage = "PARKING" /\ x.charge = resolving[r].charge
        /\ x.mature = resolving[r].mature /\ x.seen = resolving[r].seen
    BY <1>0, <1>3, <1>11, <2>1 DEF TypeOK, RefuseMatched, Goes, Resolution
  <2> QED BY <1>3, <2>1, <2>2 DEF Sound
<1> QED BY <1>5, <1>6, <1>7, <1>8, <1>9, <1>11
        DEF ExpireWindow, FindResolved, SettleMatched, ParkMatched, LoseMovement, StopAmbiguous, FailUnmatched,
            GiveUp

-----------------------------------------------------------------------------
(* What is written on a payment.                                           *)

(* A row written after the first: to a status it may move to, with a free  *)
(* reference of a debit that could be its own, and with the bill when it   *)
(* is settled.                                                             *)
RowWritten(c, ref, s) ==
  /\ MayMove(c, s) /\ Free(c, ref) /\ Raised(c)
  /\ payments' = [payments EXCEPT ![c] = Written(c, ref, s)]
  /\ orders' = orders
  /\ ref # None => /\ s \in {"SUCCEEDED", "AMBIGUOUS"}
                   /\ ref[1] \in Answers \cup {"REFERENCE"}
                   /\ ref[2] \in Alike(c) /\ Debited(ref[2])
  /\ s = "FAILED" =>
       bank[c] = "REFUSED" \/ call'[c].at = "MISLED" \/ (age[c] # "YOUNG" /\ ~ Lone(c))
  /\ IF s = "SUCCEEDED"
     THEN /\ payments[c].status # "SUCCEEDED"
          /\ bill'.paid = bill.paid + orders[c].amount /\ bill'.other = bill.other
     ELSE bill' = bill

(* A step of a charge writes one row, with its bill, or none.              *)
LEMMA ChargeWrites ==
  ASSUME ChargesOK, NEW c \in Charges,
         RecordDoubt(c) \/ RecordRefusal(c) \/ SettleDirect(c) \/ ParkDirect(c)
  PROVE  UNCHANGED <<payments, orders, bill>> \/
         \E ref \in References \cup {None}, s \in Status : RowWritten(c, ref, s)
<1>0. TypeOK /\ bill.other <= bill.paid
  BY DEF ChargesOK, Typed
<1>1. Asking(c) /\ Running(c) /\ Raised(c) /\ payments[c].status = "PENDING" /\ orders[c] \in Order
  BY DEF ChargesOK, Charging, Asking, RecordDoubt, RecordRefusal, SettleDirect, ParkDirect, Running
<1>2. ASSUME call[c].at = "APPROVED"
      PROVE  /\ call[c].reference \in References \cup {None}
             /\ call[c].reference # None =>
                  /\ call[c].reference[1] \in Answers \cup {"REFERENCE"}
                  /\ call[c].reference[2] \in Alike(c) /\ Debited(call[c].reference[2])
  <2>1. PICK answer \in Answers : call[c].reference = ReferenceFor(answer, c)
    BY <1>1, <1>2 DEF Asking
  <2>2. /\ ReferenceFor(answer, c) \in References \cup {None}
        /\ ReferenceFor(answer, c) # None =>
              ReferenceFor(answer, c)[1] \in Answers /\ ReferenceFor(answer, c)[2] = c
    BY ReferenceType
  <2>3. Debited(c) /\ c \in Alike(c)
    BY <1>1, <1>2 DEF Asking, Alike
  <2> QED BY <2>1, <2>2, <2>3, NoneIsNothing
<1>3. UNCHANGED orders
  BY DEF RecordDoubt, RecordRefusal, SettleDirect, ParkDirect
<1>4. None \in References \cup {None}
  OBVIOUS
<1>5. ASSUME RecordDoubt(c), Move(c, "IN_DOUBT") PROVE RowWritten(c, None, "IN_DOUBT")
  <2>1. payments' = [payments EXCEPT ![c] = Written(c, None, "IN_DOUBT")]
    BY <1>0, <1>5, MoveIs DEF Status
  <2> QED BY <1>1, <1>3, <1>5, <2>1 DEF RowWritten, RecordDoubt, Move, Free
<1>6. ASSUME RecordRefusal(c), Move(c, "FAILED") PROVE RowWritten(c, None, "FAILED")
  <2>1. payments' = [payments EXCEPT ![c] = Written(c, None, "FAILED")]
    BY <1>0, <1>6, MoveIs DEF Status
  <2>2. bank[c] = "REFUSED" \/ call'[c].at = "MISLED"
    BY <1>0, <1>1, <1>6 DEF RecordRefusal, Asking, Move, Tell, TypeOK
  <2> QED BY <1>1, <1>3, <1>6, <2>1, <2>2 DEF RowWritten, RecordRefusal, Move, Free
<1>7. CASE SettleDirect(c)
  <2> DEFINE ref == call[c].reference
  <2>1. call[c].at = "APPROVED" /\ Spend(c, ref, "SUCCEEDED") /\ ApplyToBill(orders[c].amount)
    BY <1>7 DEF SettleDirect
  <2>2. payments' = [payments EXCEPT ![c] = Written(c, ref, "SUCCEEDED")]
    BY <1>0, <1>2, <2>1, SpendIs DEF Status
  <2>3. bill'.paid = bill.paid + orders[c].amount /\ bill'.other = bill.other
    BY <1>0, <1>1, <2>1, ApplyType DEF Order
  <2>4. MayMove(c, "SUCCEEDED") /\ Free(c, ref)
    BY <2>1 DEF Spend
  <2> HIDE DEF ref
  <2>5. RowWritten(c, ref, "SUCCEEDED")
    BY <1>1, <1>2, <1>3, <2>1, <2>2, <2>3, <2>4 DEF RowWritten, ref
  <2> QED BY <1>2, <2>1, <2>5 DEF Status, ref
<1>8. CASE ParkDirect(c)
  <2> DEFINE ref == IF Free(c, call[c].reference) THEN call[c].reference ELSE None
  <2>1. call[c].at = "APPROVED" /\ UNCHANGED bill
    BY <1>8 DEF ParkDirect
  <2>2. ref \in References \cup {None}
    BY <1>2, <2>1
  <2>3. ref # None => ref = call[c].reference
    OBVIOUS
  <2>4. Spend(c, ref, "AMBIGUOUS") \/ UNCHANGED payments
    BY <1>8 DEF ParkDirect
  <2> HIDE DEF ref
  <2>5. CASE Spend(c, ref, "AMBIGUOUS")
    <3>1. payments' = [payments EXCEPT ![c] = Written(c, ref, "AMBIGUOUS")]
      BY <1>0, <2>2, <2>5, SpendIs DEF Status
    <3>2. MayMove(c, "AMBIGUOUS") /\ Free(c, ref)
      BY <2>5 DEF Spend
    <3>3. RowWritten(c, ref, "AMBIGUOUS")
      BY <1>1, <1>2, <1>3, <2>1, <2>3, <3>1, <3>2 DEF RowWritten
    <3> QED BY <2>2, <3>3 DEF Status
  <2> QED BY <1>3, <2>1, <2>4, <2>5
<1> QED BY <1>3, <1>4, <1>5, <1>6, <1>7, <1>8 DEF RecordDoubt, RecordRefusal, Status

(* So does a step of a resolution.                                         *)
LEMMA ResolveWrites ==
  ASSUME ChargesOK, NEW r \in Resolvers,
         ExpireWindow(r) \/ StopAmbiguous(r) \/ FailUnmatched(r) \/ SettleMatched(r) \/ ParkMatched(r)
  PROVE  UNCHANGED <<payments, orders, bill>> \/
         \E c \in Charges, ref \in References \cup {None}, s \in Status : RowWritten(c, ref, s)
<1> DEFINE c == resolving[r].charge
<1>0. TypeOK /\ bill.other <= bill.paid
  BY DEF ChargesOK, Typed
<1>1. resolving[r] # None
  BY DEF ExpireWindow, StopAmbiguous, FailUnmatched, SettleMatched, ParkMatched, At
<1>2. /\ c \in Charges /\ Sound(resolving[r])
      /\ \A d \in resolving[r].seen : d \in Charges /\ Movement(d) \in References
  BY <1>0, <1>1, AtIsAbout, AtIsSound, MovementType
<1>3. Raised(c) /\ orders[c] \in Order
  BY <1>2 DEF Sound, ChargesOK, Charging, Asking
<1>4. UNCHANGED orders
  BY DEF ExpireWindow, StopAmbiguous, FailUnmatched, SettleMatched, ParkMatched
<1>5. ASSUME ExpireWindow(r) \/ StopAmbiguous(r), UNCHANGED bill, Move(c, "AMBIGUOUS")
      PROVE  RowWritten(c, None, "AMBIGUOUS")
  <2>1. payments' = [payments EXCEPT ![c] = Written(c, None, "AMBIGUOUS")]
    BY <1>0, <1>2, <1>5, MoveIs DEF Status
  <2> QED BY <1>3, <1>4, <1>5, <2>1 DEF RowWritten, Move, Free
<1>6. ASSUME FailUnmatched(r), AbsenceProves(r), Move(c, "FAILED")
      PROVE  RowWritten(c, None, "FAILED")
  <2>1. payments' = [payments EXCEPT ![c] = Written(c, None, "FAILED")]
    BY <1>0, <1>2, <1>6, MoveIs DEF Status
  <2>2. age[c] # "YOUNG" /\ ~ Lone(c)
    BY <1>2, <1>6 DEF FailUnmatched, AbsenceProves, StillInDoubt, At, Sound
  <2> QED BY <1>3, <1>4, <1>6, <2>1, <2>2 DEF RowWritten, FailUnmatched, Move, Free
<1>7. ASSUME NEW d \in resolving[r].seen, resolving[r].stage \in {"MATCHED", "PARKING"}
      PROVE  LET ref == Movement(d) IN
             /\ ref \in References /\ ref # None /\ ref[1] \in Answers \cup {"REFERENCE"}
             /\ ref[2] \in Alike(c) /\ Debited(ref[2])
  <2>1. bank[d] = "LISTED" /\ d \in Alike(c)
    BY <1>2, <1>7 DEF Sound
  <2>2. Movement(d)[1] = "REFERENCE" /\ Movement(d)[2] = d
    BY DEF Movement
  <2> QED BY <1>2, <2>1, <2>2, NoneIsNothing DEF Debited
<1>8. CASE SettleMatched(r)
  <2>1. PICK d \in resolving[r].seen : Spend(c, Movement(d), "SUCCEEDED")
    BY <1>8 DEF SettleMatched
  <2> DEFINE ref == Movement(d)
  <2>2. resolving[r].stage = "MATCHED" /\ ApplyToBill(orders[c].amount) /\ payments[c].status = "IN_DOUBT"
    BY <1>8 DEF SettleMatched, At, StillInDoubt
  <2>3. /\ ref \in References /\ ref # None /\ ref[1] \in Answers \cup {"REFERENCE"}
        /\ ref[2] \in Alike(c) /\ Debited(ref[2])
    BY <1>7, <2>2
  <2>4. payments' = [payments EXCEPT ![c] = Written(c, ref, "SUCCEEDED")]
    BY <1>0, <1>2, <2>1, <2>3, SpendIs DEF Status
  <2>5. MayMove(c, "SUCCEEDED") /\ Free(c, ref)
    BY <2>1 DEF Spend
  <2>6. bill'.paid = bill.paid + orders[c].amount /\ bill'.other = bill.other
    BY <1>0, <1>3, <2>2, ApplyType DEF Order
  <2> HIDE DEF ref, c
  <2>7. RowWritten(c, ref, "SUCCEEDED")
    BY <1>3, <1>4, <2>2, <2>3, <2>4, <2>5, <2>6 DEF RowWritten
  <2> QED BY <1>2, <2>3, <2>7 DEF Status
<1>9. CASE ParkMatched(r)
  <2>1. PICK d \in resolving[r].seen : Spend(c, Movement(d), "AMBIGUOUS")
    BY <1>9 DEF ParkMatched
  <2> DEFINE ref == Movement(d)
  <2>2. resolving[r].stage = "PARKING" /\ UNCHANGED bill
    BY <1>9 DEF ParkMatched, At
  <2>3. /\ ref \in References /\ ref # None /\ ref[1] \in Answers \cup {"REFERENCE"}
        /\ ref[2] \in Alike(c) /\ Debited(ref[2])
    BY <1>7, <2>2
  <2>4. payments' = [payments EXCEPT ![c] = Written(c, ref, "AMBIGUOUS")]
    BY <1>0, <1>2, <2>1, <2>3, SpendIs DEF Status
  <2>5. MayMove(c, "AMBIGUOUS") /\ Free(c, ref)
    BY <2>1 DEF Spend
  <2> HIDE DEF ref, c
  <2>6. RowWritten(c, ref, "AMBIGUOUS")
    BY <1>3, <1>4, <2>2, <2>3, <2>4, <2>5 DEF RowWritten
  <2> QED BY <1>2, <2>3, <2>6 DEF Status
<1>10. CASE ExpireWindow(r) \/ StopAmbiguous(r)
  <2>1. Move(c, "AMBIGUOUS") /\ UNCHANGED bill
    BY <1>10 DEF ExpireWindow, StopAmbiguous
  <2>2. RowWritten(c, None, "AMBIGUOUS")
    BY <1>5, <1>10, <2>1
  <2> QED BY <1>2, <2>2 DEF Status
<1>11. CASE FailUnmatched(r)
  <2>1. CASE UNCHANGED payments
    BY <1>11, <2>1 DEF FailUnmatched
  <2>2. CASE AbsenceProves(r) /\ Move(c, "FAILED")
    <3>1. RowWritten(c, None, "FAILED")
      BY <1>6, <1>11, <2>2
    <3> QED BY <1>2, <3>1 DEF Status
  <2> QED BY <1>11, <2>1, <2>2 DEF FailUnmatched
<1> QED BY <1>8, <1>9, <1>10, <1>11

(* So a step leaves the payments alone, raises one, or writes one.         *)
Raises == \E c \in Charges, payer \in Payers, amount \in PayableVes, tip \in Tips :
            Submit(c, payer, amount, tip)

(* Whatever the step: it raises a charge, writes one row, or leaves all.   *)
LEMMA PaymentSteps ==
  ASSUME ChargesOK, [Next]_vars
  PROVE  \/ UNCHANGED <<payments, orders>> /\ (OutsideStep \/ UNCHANGED bill)
         \/ Raises
         \/ \E c \in Charges, ref \in References \cup {None}, s \in Status : RowWritten(c, ref, s)
<1>1. CASE UNCHANGED vars
  BY <1>1 DEF vars
<1>2. CASE OutsideStep
  BY <1>2 DEF OutsideStep, Debit, List, Mature, Expire, OtherPayment, CloseBill
<1>3. CASE ChargeStep
  <2>1. ASSUME NEW c \in Charges, Approve(c) \/ Decline(c) \/ Misread(c) \/ HearNothing(c) \/ Crash(c)
        PROVE  UNCHANGED <<payments, orders, bill>>
    BY <2>1 DEF Approve, Decline, Misread, HearNothing, Crash
  <2> QED BY <1>3, <2>1, ChargeWrites DEF ChargeStep, Raises
<1>4. CASE ResolveStep \/ Interrupted
  <2>1. PICK r \in Resolvers :
          \/ \E c \in Charges : Ask(r, c)
          \/ ExpireWindow(r) \/ Search(r) \/ Match(r)
          \/ FindResolved(r) \/ SettleMatched(r) \/ RefuseMatched(r) \/ ParkMatched(r)
          \/ LoseMovement(r) \/ StopAmbiguous(r) \/ FailUnmatched(r)
          \/ GiveUp(r)
    BY <1>4 DEF ResolveStep, Interrupted
  <2>2. CASE \/ \E c \in Charges : Ask(r, c)
             \/ Search(r) \/ Match(r) \/ FindResolved(r) \/ RefuseMatched(r)
             \/ LoseMovement(r) \/ GiveUp(r)
    <3>1. UNCHANGED <<payments, orders, bill>>
      BY <2>2 DEF Ask, Search, Match, FindResolved, RefuseMatched, LoseMovement, GiveUp
    <3> QED BY <3>1
  <2> QED BY <2>1, <2>2, ResolveWrites
<1> QED BY <1>1, <1>2, <1>3, <1>4 DEF Next, Uninterrupted

(* A charge whose row is left alone stays as spent as it was.              *)
LEMMA SpentKept ==
  ASSUME ChargesOK, Grows, NEW c \in Charges, payments'[c] = payments[c]
  PROVE  Spent(c)'
<1>0. TypeOK /\ Spent(c)
  BY DEF ChargesOK, Typed, Charging
<1>1. Referenced(c)'
  <2> SUFFICES ASSUME payments[c].reference # None
               PROVE  /\ payments[c].status \in {"SUCCEEDED", "AMBIGUOUS"}
                      /\ payments[c].reference[1] \in Answers \cup {"REFERENCE"}
                      /\ payments[c].reference[2] \in Alike(c)'
                      /\ Debited(payments[c].reference[2])'
    BY DEF Referenced, Debited
  <2> DEFINE d == payments[c].reference[2]
  <2>1. /\ payments[c].status \in {"SUCCEEDED", "AMBIGUOUS"}
        /\ payments[c].reference[1] \in Answers \cup {"REFERENCE"}
        /\ d \in Alike(c) /\ Debited(d)
    BY <1>0 DEF Spent, Referenced
  <2>2. d \in Charges
    BY <2>1 DEF Alike
  <2>3. Debited(d)'
    BY <2>1, <2>2, Kept
  <2>4. d \in Alike(c)'
    BY <2>1, AlikeGrows DEF Raised
  <2> QED BY <2>1, <2>3, <2>4
<1>2. payments[c].status = "FAILED" =>
        bank'[c] = "REFUSED" \/ call'[c].at = "MISLED" \/ (age'[c] # "YOUNG" /\ ~ Lone(c)')
  <2> SUFFICES ASSUME payments[c].status = "FAILED", bank[c] # "REFUSED", call[c].at # "MISLED"
               PROVE  age'[c] # "YOUNG" /\ ~ Lone(c)'
    BY Kept
  <2>1. age[c] # "YOUNG" /\ ~ Lone(c) /\ Raised(c)
    BY <1>0 DEF Spent, Raised
  <2> QED BY <2>1, Kept, LoneBefore
<1>3. age'[c] # "YOUNG" => bank'[c] # "DEBITED"
  BY <1>0 DEF Spent, Grows, BankGrows, AgeGrows
<1> QED BY <1>0, <1>1, <1>2, <1>3 DEF Spent

(* A row that is written is settled with a movement that was its own to    *)
(* spend.                                                                  *)
LEMMA RowSpent ==
  ASSUME ChargesOK, Grows, NEW c \in Charges, NEW ref \in References \cup {None}, NEW s \in Status,
         RowWritten(c, ref, s)
  PROVE  Spent(c)'
<1>0. TypeOK /\ Spent(c) /\ Raised(c)
  BY DEF ChargesOK, Typed, Charging, RowWritten
<1>1. payments'[c] = Written(c, ref, s)
  BY <1>0 DEF RowWritten, TypeOK
<1>2. payments'[c].status = s
  BY <1>1 DEF Written
<1>3. age'[c] # "YOUNG" => bank'[c] # "DEBITED"
  BY <1>0 DEF Spent, Grows, BankGrows, AgeGrows
<1>4. s = "FAILED" =>
        bank'[c] = "REFUSED" \/ call'[c].at = "MISLED" \/ (age'[c] # "YOUNG" /\ ~ Lone(c)')
  BY <1>0, Kept, LoneBefore DEF RowWritten
<1>5. CASE ref = None
  <2>1. payments'[c].reference = payments[c].reference
    BY <1>1, <1>5 DEF Written
  <2>3. payments[c].reference # None => payments[c].status = s
    BY <1>0 DEF Spent, Referenced, RowWritten, MayMove
  <2>4. CASE payments[c].reference = None
    BY <1>2, <1>3, <1>4, <2>1, <2>4 DEF Spent, Referenced
  <2>5. CASE payments[c].reference # None
    <3>1. payments'[c] = payments[c]
      <4>1. payments[c] = [status |-> payments[c].status, reference |-> payments[c].reference]
        BY <1>0 DEF TypeOK
      <4> QED BY <1>1, <1>5, <2>3, <2>5, <4>1 DEF Written
    <3> QED BY <3>1, SpentKept
  <2> QED BY <2>4, <2>5
<1>6. CASE ref # None
  <2>1. payments'[c].reference = ref
    BY <1>1, <1>6 DEF Written
  <2>2. /\ s \in {"SUCCEEDED", "AMBIGUOUS"} /\ ref[1] \in Answers \cup {"REFERENCE"}
        /\ ref[2] \in Alike(c) /\ Debited(ref[2])
    BY <1>6 DEF RowWritten
  <2>3. ref[2] \in Alike(c)' /\ Debited(ref[2])'
    <3>1. ref[2] \in Charges
      BY <2>2 DEF Alike
    <3> QED BY <1>0, <2>2, <3>1, Kept, AlikeGrows
  <2>4. Referenced(c)'
    BY <1>2, <2>1, <2>2, <2>3 DEF Referenced, Debited
  <2> QED BY <1>2, <1>3, <1>4, <1>6, <2>1, <2>4 DEF Spent
<1> QED BY <1>5, <1>6

(* Every step keeps charges settled with their own.                        *)
LEMMA SpentStep == ASSUME ChargesOK, [Next]_vars PROVE \A c \in Charges : Spent(c)'
<1> SUFFICES ASSUME NEW c \in Charges PROVE Spent(c)'
  OBVIOUS
<1>0. TypeOK /\ Grows
  BY GrowsStep DEF ChargesOK, Typed
<1>1. CASE UNCHANGED payments
  BY <1>0, <1>1, SpentKept
<1>2. CASE Raises
  <2>1. PICK d \in Charges : /\ ~ Raised(d) /\ age' = age /\ bank' = bank
                             /\ payments' = [payments EXCEPT ![d].status = "PENDING"]
    BY <1>2 DEF Raises, Submit
  <2>2. CASE c # d
    BY <1>0, <2>1, <2>2, SpentKept DEF TypeOK
  <2>3. CASE c = d
    <3>1. Spent(c) /\ payments[c].reference = None
      BY <2>1, <2>3 DEF ChargesOK, Charging, Spent, Referenced, Raised
    <3>2. payments'[c].status = "PENDING" /\ payments'[c].reference = None
      BY <1>0, <2>1, <2>3, <3>1 DEF TypeOK
    <3> QED BY <2>1, <3>1, <3>2 DEF Spent, Referenced
  <2> QED BY <2>2, <2>3
<1>3. ASSUME NEW d \in Charges, NEW ref \in References \cup {None}, NEW s \in Status, RowWritten(d, ref, s)
      PROVE  Spent(c)'
  <2>1. CASE c = d
    BY <1>0, <1>3, <2>1, RowSpent
  <2>2. CASE c # d
    <3>1. payments'[c] = payments[c]
      BY <1>0, <1>3, <2>2 DEF TypeOK, RowWritten
    <3> QED BY <1>0, <3>1, SpentKept
  <2> QED BY <2>1, <2>2
<1> QED BY <1>1, <1>2, <1>3, PaymentSteps

(* No reference is spent on two charges.                                   *)
LEMMA SpentOnceStep == ASSUME ChargesOK, [Next]_vars PROVE SpentOnce'
<1>0. TypeOK /\ SpentOnce
  BY DEF ChargesOK, Typed
<1>1. CASE UNCHANGED payments
  BY <1>0, <1>1 DEF SpentOnce
<1>2. CASE Raises
  <2>1. \A c \in Charges : payments'[c].reference = payments[c].reference
    BY <1>0, <1>2 DEF Raises, Submit, TypeOK
  <2> QED BY <1>0, <2>1 DEF SpentOnce
<1>3. ASSUME NEW e \in Charges, NEW ref \in References \cup {None}, NEW s \in Status, RowWritten(e, ref, s)
      PROVE  SpentOnce'
  <2>1. /\ payments'[e].reference = IF ref = None THEN payments[e].reference ELSE ref
        /\ \A d \in Charges \ {e} : payments'[d] = payments[d]
    BY <1>0, <1>3 DEF TypeOK, RowWritten, Written
  <2>2. ref # None => \A d \in Charges \ {e} : payments[d].reference # ref
    BY <1>3 DEF RowWritten, Free
  <2> QED BY <1>0, <2>1, <2>2 DEF SpentOnce
<1> QED BY <1>1, <1>2, <1>3, PaymentSteps

-----------------------------------------------------------------------------
(* The books: the bill's counter and the payments settled move together.   *)

(* What a settled charge adds to the total of its bill.                    *)
LEMMA SettledAmounts ==
  ASSUME ChargesOK, NEW c \in Charges
  PROVE  /\ Amount[c] \in Ves
         /\ Raised(c) => Amount[c] = orders[c].amount /\ orders[c].amount \in Nat
         /\ c \in Settled <=> payments[c].status = "SUCCEEDED"
         /\ IsFiniteSet(Settled)
<1>1. Raised(c) => orders[c] \in Order
  BY DEF ChargesOK, Charging, Asking
<1>2. Amount[c] = IF Raised(c) THEN orders[c].amount ELSE 0
  BY DEF Amount
<1>3. Raised(c) => orders[c].amount \in Ves /\ orders[c].amount \in Nat
  BY <1>1, MaxVesAssumption DEF Order, PayableVes, Ves
<1>4. 0 \in Ves
  BY MaxVesAssumption DEF Ves
<1>5. Settled \subseteq Charges /\ (c \in Settled <=> payments[c].status = "SUCCEEDED")
  BY DEF Settled, WithStatus
<1>6. IsFiniteSet(Settled)
  BY <1>5, FS_Subset, C2PAssumption
<1> QED BY <1>2, <1>3, <1>4, <1>5, <1>6

(* Every step keeps the bill the sum of what was settled on it.            *)
LEMMA BookedStep == ASSUME ChargesOK, [Next]_vars PROVE Booked'
<1>0. TypeOK /\ Booked /\ Typed' /\ bill.paid \in Nat /\ bill.other \in Nat
  BY TypedStep DEF ChargesOK, Typed, TypeOK, Ves
<1> DEFINE T == TotalOf(Amount, Settled)
<1>t. T \in Nat /\ IsFiniteSet(Settled)
  <2>1. Settled \subseteq Charges
    BY DEF Settled, WithStatus
  <2>2. IsFiniteSet(Settled)
    BY <2>1, FS_Subset, C2PAssumption
  <2> QED BY <2>2, TotalType
<1>b. bill.paid = bill.other + T
  BY <1>0 DEF Booked
<1>1. ASSUME UNCHANGED <<payments, orders>>, OutsideStep \/ UNCHANGED bill PROVE Booked'
  <2>1. TotalOf(Amount, Settled)' = T
    BY <1>1 DEF Amount, Settled, WithStatus, Raised, TotalOf, Centimos
  <2>2. bill'.paid = bill'.other + T
    <3>1. CASE UNCHANGED bill
      BY <1>b, <3>1
    <3>2. ASSUME NEW a \in PayableVes, OtherPayment(a) PROVE bill'.paid = bill'.other + T
      <4>1. bill'.paid = bill.paid + a /\ bill'.other = bill.other + a
        BY <3>2 DEF OtherPayment
      <4>2. a \in Nat
        BY MaxVesAssumption DEF PayableVes
      <4> QED BY <1>0, <1>t, <1>b, <4>1, <4>2
    <3>3. ASSUME CloseBill PROVE bill'.paid = bill'.other + T
      <4>1. bill'.paid = bill.paid /\ bill'.other = bill.other
        BY <1>0, <3>3 DEF CloseBill, TypeOK
      <4> QED BY <1>b, <4>1
    <3>4. ASSUME NEW c \in Charges, Debit(c) \/ List(c) \/ Mature(c) \/ Expire(c) PROVE UNCHANGED bill
      BY <3>4 DEF Debit, List, Mature, Expire
    <3> QED BY <1>1, <3>1, <3>2, <3>3, <3>4 DEF OutsideStep
  <2> HIDE DEF T
  <2> QED BY <2>1, <2>2 DEF Booked
<1>2. CASE Raises
  <2>1. PICK c \in Charges, payer \in Payers, amount \in PayableVes, tip \in Tips :
          Submit(c, payer, amount, tip)
    BY <1>2 DEF Raises
  <2>2. /\ ~ Raised(c) /\ UNCHANGED bill /\ payments'[c].status = "PENDING"
        /\ \A d \in Charges \ {c} : payments'[d] = payments[d] /\ orders'[d] = orders[d]
    BY <1>0, <2>1 DEF Submit, TypeOK
  <2>3. Settled' = Settled
    BY <2>2 DEF Settled, WithStatus, Raised
  <2>4. \A d \in Settled : Amount'[d] = Amount[d]
    BY <2>2 DEF Settled, WithStatus, Amount, Raised
  <2>5. TotalOf(Amount', Settled) = T
    BY <2>4, TotalSame
  <2>6. TotalOf(Amount, Settled)' = T
    BY <2>3, <2>5 DEF TotalOf, Centimos
  <2> HIDE DEF T
  <2> QED BY <1>b, <2>2, <2>6 DEF Booked
<1>3. ASSUME NEW c \in Charges, NEW ref \in References \cup {None}, NEW s \in Status, RowWritten(c, ref, s)
      PROVE  Booked'
  <2>1. /\ payments'[c].status = s /\ Raised(c) /\ orders' = orders
        /\ \A d \in Charges \ {c} : payments'[d] = payments[d]
    BY <1>0, <1>3 DEF TypeOK, RowWritten, Written
  <2>2. Raised(c)' /\ \A d \in Charges : Raised(d)' = Raised(d)
    <3>1. s # "NONE"
      BY <1>3 DEF RowWritten, MayMove, Raised
    <3> QED BY <2>1, <3>1 DEF Raised
  <2>3. Amount' = Amount
    BY <2>1, <2>2 DEF Amount
  <2>4. CASE s = "SUCCEEDED"
    <3>1. c \notin Settled /\ Settled' = Settled \cup {c}
      BY <1>3, <2>1, <2>4 DEF Settled, WithStatus, RowWritten
    <3>2. Amount[c] \in Ves /\ Amount[c] = orders[c].amount /\ orders[c].amount \in Nat
      BY <2>1, SettledAmounts
    <3>3. TotalOf(Amount, Settled \cup {c}) = T + Amount[c]
      BY <1>t, <3>1, <3>2, TotalAdd
    <3>4. TotalOf(Amount, Settled)' = T + orders[c].amount
      BY <2>3, <3>1, <3>2, <3>3 DEF TotalOf, Centimos
    <3>5. bill'.paid = bill.paid + orders[c].amount /\ bill'.other = bill.other
      BY <1>3, <2>4 DEF RowWritten
    <3> HIDE DEF T
    <3>6. bill'.paid = bill'.other + (T + orders[c].amount)
      BY <1>0, <1>t, <1>b, <3>2, <3>5
    <3> QED BY <3>4, <3>6 DEF Booked
  <2>5. CASE s # "SUCCEEDED"
    <3>1. payments[c].status # "SUCCEEDED"
      BY <1>3, <2>5 DEF RowWritten, MayMove
    <3>2. Settled' = Settled
      BY <2>1, <2>5, <3>1 DEF Settled, WithStatus
    <3>3. TotalOf(Amount, Settled)' = T /\ bill' = bill
      BY <1>3, <2>3, <2>5, <3>2 DEF TotalOf, Centimos, RowWritten
    <3> HIDE DEF T
    <3> QED BY <1>b, <3>3 DEF Booked
  <2> QED BY <2>4, <2>5
<1> QED BY <1>1, <1>2, <1>3, PaymentSteps

-----------------------------------------------------------------------------
(* No charge is raised at first.                                           *)
LEMMA ChargesInit == Init => ChargesOK
<1> SUFFICES ASSUME Init PROVE ChargesOK
  OBVIOUS
<1>0. 0 \in Ves
  BY MaxVesAssumption DEF Ves
<1>1. Typed
  <2>1. raised \in Seq(Charges)
    BY DEF Init
  <2> QED BY <1>0, <2>1 DEF Init, Typed, TypeOK, Status, Age
<1>2. Charging
  BY DEF Init, Charging, Asking, Spent, Referenced, Raised, Running, Debited
<1>3. InOrder /\ SpentOnce
  BY DEF Init, InOrder, SpentOnce
<1>4. Resolving
  BY NoneIsNothing DEF Init, Resolving
<1>5. Booked
  <2>1. Settled = {}
    BY DEF Init, Settled, WithStatus
  <2>2. TotalOf(Amount, Settled) = 0
    BY <2>1, TotalEmpty
  <2>3. bill.paid = 0 /\ bill.other = 0
    BY DEF Init
  <2> QED BY <2>2, <2>3 DEF Booked
<1> QED BY <1>1, <1>2, <1>3, <1>4, <1>5 DEF ChargesOK

(* The inductive invariant of charges, from which all that is promised of  *)
(* them follows.                                                           *)
THEOREM ChargesAreOK == Spec => []ChargesOK
<1>1. ChargesOK /\ [Next]_vars => ChargesOK'
  <2> SUFFICES ASSUME ChargesOK, [Next]_vars PROVE ChargesOK'
    OBVIOUS
  <2>1. Charging'
    BY AskingStep, SpentStep DEF Charging
  <2> QED BY <2>1, TypedStep, InOrderStep, SpentOnceStep, ResolvingStep, BookedStep DEF ChargesOK
<1> QED BY <1>1, ChargesInit, PTL DEF Spec

(* Rows, orders, answers and searches stay what they are, the bill's       *)
(* counter keeps its width and never holds less than came from elsewhere.  *)
THEOREM ChargesType == Spec => []TypeOK
<1>1. ChargesOK => TypeOK
  BY DEF ChargesOK, Typed
<1> QED BY <1>1, ChargesAreOK, PTL

(* Who settles a charge found a debit of its payer for the whole sum.      *)
THEOREM OwnMoneySettles == Spec => []SettledWithOwnMoney
<1>1. ASSUME ChargesOK PROVE SettledWithOwnMoney
  <2> SUFFICES ASSUME NEW c \in Charges, NEW d \in Charges, payments[c].reference = Movement(d)
               PROVE  Debited(d) /\ d \in Alike(c)
    BY DEF SettledWithOwnMoney
  <2>1. Spent(c) /\ Movement(d) \in References
    BY <1>1, MovementType DEF ChargesOK, Charging
  <2>2. payments[c].reference # None
    BY <2>1, NoneIsNothing
  <2>3. payments[c].reference[2] = d
    BY DEF Movement
  <2> QED BY <2>1, <2>2, <2>3 DEF Spent, Referenced
<1> QED BY <1>1, ChargesAreOK, PTL

(* "Failed", or an error that lets the diner try again, is said only of a  *)
(* charge the bank refused.                                                *)
THEOREM RefusalsAreTrue == Spec => []RefusalMeansNoDebit
<1>1. ChargesOK => RefusalMeansNoDebit
  BY DEF ChargesOK, Charging, Asking, RefusalMeansNoDebit, Debited
<1> QED BY <1>1, ChargesAreOK, PTL

(* A debit nobody else's charge resembles is never taken for an absence.   *)
THEOREM LoneDebitIsKept == Spec => []LoneDebitKept
<1>1. ChargesOK => LoneDebitKept
  BY DEF ChargesOK, Charging, Spent, LoneDebitKept, Lone, Debited
<1> QED BY <1>1, ChargesAreOK, PTL

(* A charge settled with a movement was settled with a debit of its own:   *)
(* a payer has no more of them than debits.                                *)
LEMMA SettledByDebit ==
  ASSUME ChargesOK, NEW c \in Charges, Raised(c)
  PROVE  Cardinality({d \in WithStatus(Alike(c), {"SUCCEEDED"}) : Named(d)})
           <= Cardinality({d \in Alike(c) : Debited(d)})
<1> DEFINE S == {d \in WithStatus(Alike(c), {"SUCCEEDED"}) : Named(d)}
           D == {d \in Alike(c) : Debited(d)}
           f == [x \in S |-> payments[x].reference[2]]
<1>1. \A x \in S : /\ x \in Charges /\ x \in Alike(c) /\ Spent(x)
                   /\ payments[x].reference = <<"REFERENCE", payments[x].reference[2]>>
                   /\ payments[x].reference # None
  <2> TAKE x \in S
  <2>1. PICK d \in Charges : payments[x].reference = Movement(d)
    BY DEF Named
  <2>2. Movement(d) # None
    BY MovementType, NoneIsNothing
  <2> QED BY <2>1, <2>2 DEF Movement, WithStatus, Alike, ChargesOK, Charging
<1>2. \A x \in S : f[x] \in D
  <2> TAKE x \in S
  <2>1. payments[x].reference[2] \in Alike(x) /\ Debited(payments[x].reference[2])
    BY <1>1 DEF Spent, Referenced
  <2>2. payments[x].reference[2] \in Alike(c)
    BY <1>1, <2>1 DEF Alike
  <2> QED BY <2>1, <2>2
<1>3. \A x, y \in S : f[x] = f[y] => x = y
  BY <1>1 DEF ChargesOK, SpentOnce
<1>4. f \in Injection(S, D)
  BY <1>2, <1>3 DEF Injection, IsInjective
<1>5. IsFiniteSet(D)
  <2>1. D \subseteq Charges
    BY DEF Alike
  <2> QED BY <2>1, FS_Subset, C2PAssumption
<1> HIDE DEF S, D, f
<1>6. Cardinality(S) <= Cardinality(D)
  BY <1>4, <1>5, FS_Injection
<1> QED BY <1>6 DEF S, D

(* The bill counts each settled charge once, and a payer has no more       *)
(* charges settled with a movement than the bank debited, whatever its     *)
(* answers carry.                                                          *)
THEOREM CreditsAreBacked == Spec => []CreditsBackedByDebits
<1>1. ASSUME ChargesOK PROVE CreditsBackedByDebits
  <2>1. bill.paid = bill.other + TotalOf(Amount, Settled)
    BY <1>1 DEF ChargesOK, Booked
  <2>2. \A c \in Charges : Raised(c) =>
          Cardinality({d \in WithStatus(Alike(c), {"SUCCEEDED"}) : Named(d)})
            <= Cardinality({d \in Alike(c) : Debited(d)})
    BY <1>1, SettledByDebit
  <2> QED BY <2>1, <2>2 DEF CreditsBackedByDebits
<1> QED BY <1>1, ChargesAreOK, PTL

-----------------------------------------------------------------------------
(* Notifications, whatever each event says.                                *)


(* Every event is of a kind the program knows.                             *)
LEMMA KindIsAKind == ASSUME NEW a PROVE Kind(a) \in Kinds \ {NoEvent}
BY WebhooksAssumption DEF Kind, KindUnchecked, Kinds

(* The statuses, outcomes and answers stay what they are, and the bill is  *)
(* never credited with more than it takes.                                 *)
THEOREM WebhooksType == WebhooksSpec => []WebhooksTypeOK
<1>1. WebhooksInit => WebhooksTypeOK
  BY WebhooksAssumption DEF WebhooksInit, WebhooksTypeOK
<1>2. WebhooksTypeOK /\ [WebhooksStep]_webhookVars => WebhooksTypeOK'
  <2> SUFFICES ASSUME WebhooksTypeOK, [WebhooksStep]_webhookVars PROVE WebhooksTypeOK'
    OBVIOUS
  <2> USE WebhooksAssumption DEF WebhooksTypeOK, Handling
  <2>1. ASSUME NEW p \in Payments, Commit(p) \/ SettleByHand(p) PROVE WebhooksTypeOK'
    BY <2>1 DEF Commit, SettleByHand
  <2>2. ASSUME NEW a \in Attempts, NEW e \in Events, Deliver(a, e) PROVE WebhooksTypeOK'
    BY <2>2 DEF Deliver
  <2>3. ASSUME NEW a \in Attempts,
               Drop(a) \/ FindProcessed(a) \/ TryLater(a) \/ Mismatch(a) \/ LoseRace(a)
        PROVE  WebhooksTypeOK'
    BY <2>3 DEF Drop, FindProcessed, TryLater, Mismatch, LoseRace, Accept, Answer, Is, Event
  <2>4. ASSUME NEW a \in Attempts, FindNew(a) PROVE WebhooksTypeOK'
    BY <2>4 DEF FindNew, Is
  <2>5. ASSUME NEW a \in Attempts, Process(a) PROVE WebhooksTypeOK'
    <3>1. Event(a) \in Events /\ Payment(a) \in Payments
      BY <2>5 DEF Process, Is, Event, Payment
    <3>2. statuses' \in [Payments -> {"NONE", "PENDING", "SUCCEEDED", "FAILED"}]
      BY <2>5, <3>1 DEF Process, StatusAfter
    <3>3. processed' \in [Events -> Kinds \cup {NoEvent}]
      BY <2>5, <3>1, KindIsAKind DEF Process, Recorded
    <3>4. Kind(a) = "SETTLED" => credited # Capacity
      <4> SUFFICES ASSUME Kind(a) = "SETTLED" PROVE credited # Capacity
        OBVIOUS
      <4>1. statuses[Payment(a)] = "PENDING" /\ Says[Event(a)] \notin {"FAILED", "OTHER"}
        BY DEF Kind, KindUnchecked
      <4>2. Says[Event(a)] = "SUCCEEDED"
        BY <3>1, <4>1
      <4> QED BY <2>5, <4>1, <4>2 DEF Process, BillRefuses
    <3>5. credited' \in 0 .. Capacity
      BY <2>5, <3>4 DEF Process
    <3> QED BY <2>5, <3>1, <3>2, <3>3, <3>5 DEF Process, Accept, Answer
  <2>6. CASE UNCHANGED webhookVars
    BY <2>6 DEF webhookVars
  <2> QED BY <2>1, <2>2, <2>3, <2>4, <2>5, <2>6 DEF WebhooksStep, Handle
<1> QED BY <1>1, <1>2, PTL DEF WebhooksSpec
-----------------------------------------------------------------------------
(* What Process does to a payment: it is settled exactly if the event asks *)
(* for it and it was pending.                                              *)
LEMMA ProcessSettles ==
  ASSUME WebhooksTypeOK, NEW a \in Attempts, Process(a)
  PROVE  /\ Event(a) \in Events /\ Payment(a) \in Own /\ processed[Event(a)] = NoEvent
         /\ \A e \in Events : processed'[e] =
              IF e = Event(a) /\ e \in Numbered THEN Kind(a) ELSE processed[e]
         /\ Kind(a) = "SETTLED" =>
              /\ Payment(a) \notin SettledPayments /\ SettledPayments' = SettledPayments \cup {Payment(a)}
              /\ credited' = credited + 1 /\ Says[Event(a)] = "SUCCEEDED"
         /\ Kind(a) # "SETTLED" => SettledPayments' = SettledPayments /\ credited' = credited
<1> USE WebhooksAssumption DEF WebhooksTypeOK, Handling
<1>1. /\ Event(a) \in Events /\ Payment(a) \in Own /\ Payment(a) \in Payments
      /\ processed[Event(a)] = NoEvent
  BY DEF Process, Is, Event, Payment
<1>2. \A e \in Events : processed'[e] =
        IF e = Event(a) /\ e \in Numbered THEN Kind(a) ELSE processed[e]
  BY <1>1 DEF Process, Recorded
<1>3. \A q \in Payments : statuses'[q] = IF q = Payment(a) THEN StatusAfter(a) ELSE statuses[q]
  BY <1>1 DEF Process
<1>4. ASSUME Kind(a) = "SETTLED"
      PROVE  /\ Payment(a) \notin SettledPayments /\ SettledPayments' = SettledPayments \cup {Payment(a)}
             /\ credited' = credited + 1 /\ Says[Event(a)] = "SUCCEEDED"
  <2>1. statuses[Payment(a)] = "PENDING" /\ Says[Event(a)] \notin {"FAILED", "OTHER"}
    BY <1>4 DEF Kind, KindUnchecked
  <2>2. StatusAfter(a) = "SUCCEEDED"
    BY <1>4 DEF StatusAfter
  <2>3. Says[Event(a)] = "SUCCEEDED" /\ credited' = credited + 1
    BY <1>1, <1>4, <2>1 DEF Process
  <2> QED BY <1>1, <1>3, <2>1, <2>2, <2>3 DEF SettledPayments
<1>5. ASSUME Kind(a) # "SETTLED" PROVE SettledPayments' = SettledPayments /\ credited' = credited
  <2>1. StatusAfter(a) = "SUCCEEDED" <=> statuses[Payment(a)] = "SUCCEEDED"
    <3>1. CASE statuses[Payment(a)] = "PENDING"
      <4>1. Kind(a) \in {"FAILED", "IGNORED"}
        BY <1>5, <3>1 DEF Kind, KindUnchecked
      <4> QED BY <3>1, <4>1 DEF StatusAfter
    <3>2. CASE statuses[Payment(a)] # "PENDING"
      <4>1. Kind(a) = "DUPLICATE"
        BY <3>2 DEF Kind
      <4> QED BY <4>1 DEF StatusAfter
    <3> QED BY <3>1, <3>2
  <2>2. credited' = credited
    BY <1>5 DEF Process
  <2> QED BY <1>3, <2>1, <2>2 DEF SettledPayments
<1> QED BY <1>1, <1>2, <1>4, <1>5

(* What money has moved is counted and finite.                             *)
MoneySafe == MoneyWithItsEvent /\ IsFiniteSet(SettledPayments)

(* Only Process and SettleByHand turn a payment into money, and only       *)
(* Process writes an event.                                                *)
LEMMA MoneyStep ==
  WebhooksTypeOK /\ MoneySafe /\ [WebhooksStep]_webhookVars => MoneySafe'
<1> SUFFICES ASSUME WebhooksTypeOK, MoneySafe, [WebhooksStep]_webhookVars
             PROVE  MoneySafe'
  OBVIOUS
<1> USE DEF WebhooksTypeOK, Handling
<1>1. ASSUME UNCHANGED <<processed, credited>>, SettledPayments' = SettledPayments PROVE MoneySafe'
  <2>1. \A p \in Own : Telling(p)' = Telling(p) /\ Unnumbered(p)' = Unnumbered(p)
    BY <1>1 DEF Telling, Unnumbered
  <2> QED BY <1>1, <2>1 DEF MoneySafe, MoneyWithItsEvent
<1>2. ASSUME NEW p \in Payments, Commit(p) PROVE MoneySafe'
  <2>1. SettledPayments' = SettledPayments
    BY <1>2 DEF Commit, SettledPayments
  <2> QED BY <1>1, <1>2, <2>1 DEF Commit
<1>3. ASSUME NEW p \in Payments, SettleByHand(p) PROVE MoneySafe'
  <2>1. /\ p \notin SettledPayments /\ p \notin Own /\ SettledPayments' = SettledPayments \cup {p}
        /\ credited' = credited + 1 /\ processed' = processed
    BY <1>3 DEF SettleByHand, SettledPayments
  <2>2. \A q \in Own : Telling(q)' = Telling(q) /\ Unnumbered(q)' = Unnumbered(q)
    BY <2>1 DEF Telling, Unnumbered
  <2>3. \A q \in Own : q \in SettledPayments' <=> q \in SettledPayments
    BY <2>1
  <2>4. IsFiniteSet(SettledPayments') /\ credited' = Cardinality(SettledPayments')
    BY <2>1, FS_AddElement DEF MoneySafe, MoneyWithItsEvent
  <2> QED BY <2>2, <2>3, <2>4 DEF MoneySafe, MoneyWithItsEvent
<1>4. ASSUME NEW a \in Attempts, Process(a) PROVE MoneySafe'
  <2> DEFINE e == Event(a)
             p == Payment(a)
  <2>1. p = About[e]
    BY DEF Payment
  <2>2. \A q \in Own : Unnumbered(q)' = Unnumbered(q)
    BY DEF Unnumbered
  <2>3. CASE Kind(a) = "SETTLED"
    <3>1. /\ e \in Events /\ p \in Own /\ p \notin SettledPayments /\ SettledPayments' = SettledPayments \cup {p}
          /\ credited' = credited + 1 /\ Says[e] = "SUCCEEDED"
          /\ \A f \in Events : processed'[f] = IF f = e /\ f \in Numbered THEN "SETTLED" ELSE processed[f]
      BY <1>4, <2>3, ProcessSettles
    <3>2. Telling(p) = {}
      BY <3>1 DEF MoneySafe, MoneyWithItsEvent
    <3>3. \A q \in Own : Telling(q)' = IF q = p /\ e \in Numbered THEN {e} ELSE Telling(q)
      BY <2>1, <3>1, <3>2 DEF Telling
    <3>4. e \notin Numbered => e \in Unnumbered(p)
      BY <2>1, <3>1 DEF Unnumbered
    <3>5. IsFiniteSet(SettledPayments') /\ credited' = Cardinality(SettledPayments')
      BY <3>1, FS_AddElement DEF MoneySafe, MoneyWithItsEvent
    <3>6. ASSUME NEW q \in Own
          PROVE  /\ Telling(q)' # {} => q \in SettledPayments'
                 /\ q \in SettledPayments' => Telling(q)' \cup Unnumbered(q)' # {}
                 /\ \A f, g \in Telling(q)' : f = g
      BY <2>2, <3>1, <3>2, <3>3, <3>4 DEF MoneySafe, MoneyWithItsEvent
    <3> QED BY <3>5, <3>6 DEF MoneySafe, MoneyWithItsEvent
  <2>4. CASE Kind(a) # "SETTLED"
    <3>1. /\ SettledPayments' = SettledPayments /\ credited' = credited /\ e \in Events /\ processed[e] = NoEvent
          /\ \A f \in Events : processed'[f] = IF f = e /\ f \in Numbered THEN Kind(a) ELSE processed[f]
      BY <1>4, <2>4, ProcessSettles
    <3>2. NoEvent # "SETTLED"
      BY WebhooksAssumption
    <3>3. \A q \in Own : Telling(q)' = Telling(q)
      BY <2>4, <3>1, <3>2 DEF Telling
    <3> QED BY <2>2, <3>1, <3>3 DEF MoneySafe, MoneyWithItsEvent
  <2> QED BY <2>3, <2>4
<1>5. ASSUME UNCHANGED <<statuses, processed, credited>> PROVE MoneySafe'
  <2>1. SettledPayments' = SettledPayments
    BY <1>5 DEF SettledPayments
  <2> QED BY <1>1, <1>5, <2>1
<1>6. CASE UNCHANGED webhookVars
  BY <1>5, <1>6 DEF webhookVars
<1> QED
  BY <1>2, <1>3, <1>4, <1>5, <1>6
  DEF WebhooksStep, Handle, Drop, Deliver, FindProcessed, FindNew, TryLater, Mismatch, LoseRace

(* Money moves with its event and each payment is credited once, for every *)
(* number of payments, events and deliveries in flight (settleFromWebhook). *)
THEOREM MoneyMovesWithItsEvent == WebhooksSpec => []MoneyWithItsEvent
<1>1. WebhooksInit => MoneySafe
  <2> SUFFICES ASSUME WebhooksInit PROVE MoneySafe
    OBVIOUS
  <2>1. SettledPayments = {} /\ \A p \in Own : Telling(p) = {}
    BY WebhooksAssumption DEF WebhooksInit, SettledPayments, Telling
  <2> QED BY <2>1, FS_EmptySet DEF WebhooksInit, MoneySafe, MoneyWithItsEvent
<1>2. MoneySafe => MoneyWithItsEvent
  BY DEF MoneySafe
<1> QED BY <1>1, <1>2, MoneyStep, WebhooksType, PTL DEF WebhooksSpec
-----------------------------------------------------------------------------
(* What is accepted was processed: an event answered with 202 is on        *)
(* record, is about a payment of another rail, or has no id and nothing    *)
(* left to do (handleDelivery).                                            *)
THEOREM AcceptedWasProcessed == WebhooksSpec => []AcceptedIsProcessed
<1>1. WebhooksInit => AcceptedIsProcessed
  BY DEF WebhooksInit, AcceptedIsProcessed
<1>2. WebhooksTypeOK /\ AcceptedIsProcessed /\ [WebhooksStep]_webhookVars
        => AcceptedIsProcessed'
  <2> SUFFICES ASSUME WebhooksTypeOK, AcceptedIsProcessed, [WebhooksStep]_webhookVars
               PROVE  AcceptedIsProcessed'
    OBVIOUS
  <2> USE WebhooksAssumption DEF WebhooksTypeOK, Handling, AcceptedIsProcessed
  <2>1. ASSUME UNCHANGED <<statuses, processed, accepted>> PROVE AcceptedIsProcessed'
    BY <2>1
  <2>2. ASSUME NEW p \in Payments, Commit(p) \/ SettleByHand(p) PROVE AcceptedIsProcessed'
    <3>1. \A q \in Payments : statuses[q] # "NONE" /\ statuses'[q] = "PENDING" => statuses[q] = "PENDING"
      BY <2>2 DEF Commit, SettleByHand
    <3>2. \A q \in Payments : statuses[q] # "NONE" => statuses'[q] # "NONE"
      BY <2>2 DEF Commit, SettleByHand
    <3> QED BY <2>2, <3>1, <3>2 DEF Commit, SettleByHand
  <2>3. ASSUME NEW a \in Attempts, FindProcessed(a) \/ LoseRace(a) \/ Mismatch(a)
        PROVE  AcceptedIsProcessed'
    BY <2>3 DEF FindProcessed, LoseRace, Mismatch, Accept, Is, Event, Payment
  <2>4. ASSUME NEW a \in Attempts, Process(a) PROVE AcceptedIsProcessed'
    <3>1. /\ Event(a) \in Events /\ Payment(a) \in Payments /\ Payment(a) = About[Event(a)]
          /\ statuses[Payment(a)] # "NONE"
      BY <2>4 DEF Process, Is, Event, Payment
    <3>2. \A q \in Payments : statuses'[q] = IF q = Payment(a) THEN StatusAfter(a) ELSE statuses[q]
      BY <2>4, <3>1 DEF Process
    <3>3. StatusAfter(a) # "NONE"
      BY <3>1 DEF StatusAfter
    <3>4. StatusAfter(a) = "PENDING" => Says[Event(a)] = "OTHER" /\ statuses[Payment(a)] = "PENDING"
      BY <3>1 DEF StatusAfter, Kind, KindUnchecked
    <3>5. \A f \in Events : processed[f] # NoEvent => processed'[f] # NoEvent
      BY <2>4, <3>1, KindIsAKind DEF Process, Recorded
    <3>6. Event(a) \in Numbered => processed'[Event(a)] # NoEvent
      BY <2>4, <3>1, KindIsAKind DEF Process, Recorded
    <3>7. accepted' = accepted \cup {Event(a)}
      BY <2>4 DEF Process, Accept
    <3> QED BY <3>1, <3>2, <3>3, <3>4, <3>5, <3>6, <3>7
  <2> QED
    BY <2>1, <2>2, <2>3, <2>4
    DEF WebhooksStep, Handle, Drop, Deliver, FindNew, TryLater, Answer, webhookVars
<1> QED BY <1>1, <1>2, WebhooksType, PTL DEF WebhooksSpec
=============================================================================
