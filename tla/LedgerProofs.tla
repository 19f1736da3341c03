---------------------------- MODULE LedgerProofs ----------------------------
(***************************************************************************)
(* Theorems about the settlement core, for every set of bills, payments,   *)
(* splits, diners and requests and every bound on amounts.                 *)
(***************************************************************************)
EXTENDS Ledger, MoneyProofs

(* A well-formed bill: never overpaid, empty until it is opened and once it*)
(* is voided, and explained to the last céntimo once it is closed.         *)
BillRow == {row \in Bill :
  /\ row.paid <= row.due
  /\ row.status \in {"NONE", "VOID"} => row.paid = 0
  /\ row.status = "CLOSED" => row.paid + row.adjusted = row.due
  /\ row.status # "CLOSED" => row.adjusted = 0}

(* A well-formed plan: no share overpaid, nothing paid into a discarded one*)
SplitRow == {row \in Split : \A d \in Diners :
  /\ row.paid[d] <= row.owed[d]
  /\ row.status \in {"NONE", "VOID"} => row.paid[d] = 0}

(* The tables one by one.                                                  *)
BillsOK == bills \in [Bills -> BillRow]
SplitsOK == splits \in [Splits -> SplitRow]
PaymentsOK == payments \in [Payments -> Payment] /\ Recorded
DraftsOK == drafts \in [Requests -> Draft \cup {None}]

TypeInv == BillsOK /\ SplitsOK /\ PaymentsOK /\ DraftsOK
-----------------------------------------------------------------------------
(* What a step can do to each table, whichever action takes it.            *)

BillMove ==
  \/ bills' = bills
  \/ \E b \in Bills, due \in Ves : OpenBill(b, due) \/ ChangeTotal(b, due)
  \/ \E b \in Bills : SettleBill(b) \/ VoidBill(b)
  \/ \E b \in Bills, a \in PayableVes : ApplyToBill(b, a)

(* Every transaction touches at most one bill, in one of the ways above.   *)
LEMMA BillMoves == TypeInv /\ [Next]_vars => BillMove
<1> SUFFICES ASSUME TypeInv, [Next]_vars
             PROVE  BillMove
  OBVIOUS
<1>1. CASE BillStep
  BY <1>1 DEF BillStep, BillMove
<1>2. CASE PaymentStep
  <2>1. ASSUME NEW p \in Payments, ClaimPending(p) \/ ChargeOpen(p)
        PROVE  payments[p].bill \in Bills /\ payments[p].amount \in PayableVes
    BY <2>1 DEF TypeInv, PaymentsOK, Recorded, ClaimPending, ChargeOpen
  <2> QED  BY <1>2, <2>1 DEF PaymentStep, BillMove, TakePayment, DeclareClaim, SubmitC2P,
             Declare, ConfirmClaim, RejectClaim, SettleC2P, DoubtC2P, FailC2P, ParkC2P, MarkC2P
<1>3. CASE SplitStep
  BY <1>3 DEF SplitStep, BillMove, ReadBillForSplit, CreateSplit, DropDraft, VoidSplit
<1>4. CASE UNCHANGED vars
  BY <1>4 DEF vars, BillMove
<1> QED  BY <1>1, <1>2, <1>3, <1>4 DEF Next

(* Each of those moves leaves every bill well formed.                      *)
LEMMA BillsStep == BillsOK /\ BillMove => BillsOK'
<1> SUFFICES ASSUME BillsOK, BillMove
             PROVE  BillsOK'
  OBVIOUS
<1> USE MaxVesAssumption
<1>0. ASSUME NEW b \in Bills, NEW row \in BillRow, bills' = [bills EXCEPT ![b] = row]
      PROVE  BillsOK'
  BY <1>0 DEF BillsOK
<1>1. CASE bills' = bills
  BY <1>1 DEF BillsOK
<1>2. ASSUME NEW b \in Bills, NEW due \in Ves, OpenBill(b, due)
      PROVE  BillsOK'
  <2> DEFINE row == [status |-> "OPEN", itemised |-> due = 0, due |-> due, paid |-> 0, adjusted |-> 0]
  <2>1. row \in BillRow
    BY DEF BillRow, Bill, BillStatus, Ves
  <2> QED  BY <1>0, <1>2, <2>1 DEF OpenBill
<1>3. ASSUME NEW b \in Bills, NEW due \in Ves, ChangeTotal(b, due)
      PROVE  BillsOK'
  <2> DEFINE row == [bills[b] EXCEPT !.due = due]
  <2>1. row \in BillRow
    BY <1>3 DEF ChangeTotal, IsOpen, TotalAllowed, BillsOK, BillRow, Bill
  <2> QED  BY <1>0, <1>3, <2>1 DEF ChangeTotal
<1>4. ASSUME NEW b \in Bills, SettleBill(b)
      PROVE  BillsOK'
  <2> DEFINE row == [bills[b] EXCEPT !.status = "CLOSED", !.adjusted = Shortfall(b)]
  <2>1. row \in BillRow
    <3>1. bills[b] \in Bill /\ bills[b].paid <= bills[b].due
      BY DEF BillsOK, BillRow
    <3>2. /\ bills[b].due - bills[b].paid \in Ves
          /\ bills[b].paid + (bills[b].due - bills[b].paid) = bills[b].due
      BY <3>1 DEF Bill, Ves
    <3>3. row \in Bill /\ row.paid = bills[b].paid /\ row.due = bills[b].due
          /\ row.status = "CLOSED" /\ row.adjusted = bills[b].due - bills[b].paid
      BY <3>1, <3>2 DEF Shortfall, Remaining, Bill, BillStatus
    <3> QED  BY <3>1, <3>2, <3>3 DEF BillRow
  <2>2. bills' = [bills EXCEPT ![b] = row]
    BY <1>4 DEF SettleBill, BillsOK
  <2> QED  BY <1>0, <2>1, <2>2
<1>5. ASSUME NEW b \in Bills, VoidBill(b)
      PROVE  BillsOK'
  <2> DEFINE row == [bills[b] EXCEPT !.status = "VOID"]
  <2>1. row \in BillRow
    BY <1>5 DEF VoidBill, Voidable, IsOpen, BillsOK, BillRow, Bill, BillStatus
  <2> QED  BY <1>0, <1>5, <2>1 DEF VoidBill
<1>6. ASSUME NEW b \in Bills, NEW a \in PayableVes, ApplyToBill(b, a)
      PROVE  BillsOK'
  <2> DEFINE row == [bills[b] EXCEPT !.paid = bills[b].paid + a, !.status = StatusAfter(b, a)]
  <2>1. row \in BillRow
    <3>1. bills[b] \in Bill /\ bills[b].adjusted = 0
      BY <1>6 DEF ApplyToBill, BillTakes, IsOpen, BillsOK, BillRow
    <3>2. bills[b].paid + a \in Ves /\ bills[b].paid + a <= bills[b].due
      BY <1>6, <3>1 DEF ApplyToBill, BillTakes, Bill, Ves, PayableVes
    <3>3. StatusAfter(b, a) \in {"OPEN", "CLOSED"}
          /\ (StatusAfter(b, a) = "CLOSED" => bills[b].paid + a = bills[b].due)
      BY DEF StatusAfter
    <3>4. row \in Bill /\ row.paid = bills[b].paid + a /\ row.due = bills[b].due
          /\ row.status = StatusAfter(b, a) /\ row.adjusted = 0
      BY <3>1, <3>2, <3>3 DEF Bill, BillStatus
    <3>5. row.paid + row.adjusted = row.paid
      BY <3>2, <3>4 DEF Ves
    <3> QED  BY <3>2, <3>3, <3>4, <3>5 DEF BillRow
  <2>2. bills' = [bills EXCEPT ![b] = row]
    BY <1>6 DEF ApplyToBill, BillsOK
  <2> QED  BY <1>0, <2>1, <2>2
<1> QED  BY <1>1, <1>2, <1>3, <1>4, <1>5, <1>6 DEF BillMove
-----------------------------------------------------------------------------
SplitMove ==
  \/ splits' = splits
  \/ \E b \in Bills, due \in Ves : splits' = Staled(b, due)
  \/ \E sh \in Shares, b \in Bills, a \in PayableVes :
       ShareTakes(sh, b, a) /\ splits' = Advanced(sh, a)
  \/ \E r \in Requests, s \in Splits, owed \in [Diners -> Ves] : CreateSplit(r, s, owed)
  \/ \E s \in Splits : VoidSplit(s)

(* Rows of bill_splits are never deleted.                                  *)
PlansKept == \A s \in Splits : splits[s].status # "NONE" => splits'[s].status # "NONE"

(* Every transaction touches the plans in one of the ways above: a plan is *)
(* retired, credited, written or discarded.                                *)
LEMMA SplitMoves == TypeInv /\ [Next]_vars => SplitMove
<1> SUFFICES ASSUME TypeInv, [Next]_vars
             PROVE  SplitMove
  OBVIOUS
<1>1. CASE BillStep
  BY <1>1 DEF BillStep, SplitMove, OpenBill, ChangeTotal, SettleBill, VoidBill
<1>2. CASE PaymentStep
  <2>1. ASSUME NEW b \in Bills, NEW a \in PayableVes, NEW sh \in Shares \cup {None},
               AdvanceShare(sh, b, a)
        PROVE  SplitMove
    BY <2>1 DEF AdvanceShare, SplitMove
  <2>2. ASSUME NEW p \in Payments, ClaimPending(p) \/ ChargeOpen(p)
        PROVE  /\ payments[p].bill \in Bills /\ payments[p].amount \in PayableVes
               /\ payments[p].share \in Shares \cup {None}
    BY <2>2 DEF TypeInv, PaymentsOK, Recorded, ClaimPending, ChargeOpen, Payment
  <2>3. ASSUME NEW p \in Payments, NEW st, Transition(p, st), ClaimPending(p) \/ ChargeOpen(p)
        PROVE  SplitMove
    <3>1. CASE splits' = splits
      BY <3>1 DEF SplitMove
    <3>2. CASE AdvanceShare(payments[p].share, payments[p].bill, payments[p].amount)
      BY <2>1, <2>2, <2>3, <3>2
    <3> QED  BY <2>3, <3>1, <3>2 DEF Transition
  <2>4. ASSUME NEW p \in Payments, ConfirmClaim(p)
        PROVE  SplitMove
    <3>1. CASE splits' = splits
      BY <3>1 DEF SplitMove
    <3> QED  BY <2>3, <2>4, <3>1 DEF ConfirmClaim, TransitionDetaching
  <2>5. ASSUME NEW p \in Payments,
               RejectClaim(p) \/ SettleC2P(p) \/ DoubtC2P(p) \/ FailC2P(p) \/ ParkC2P(p)
        PROVE  SplitMove
    BY <2>3, <2>5 DEF RejectClaim, SettleC2P, DoubtC2P, FailC2P, ParkC2P, MarkC2P
  <2>6. ASSUME NEW p \in Payments, NEW b \in Bills, NEW a \in PayableVes,
               NEW sh \in Shares \cup {None},
               TakePayment(p, b, a, sh) \/ DeclareClaim(p, b, a, sh) \/ SubmitC2P(p, b, a, sh)
        PROVE  SplitMove
    <3>1. CASE splits' = splits
      BY <3>1 DEF SplitMove
    <3> QED  BY <2>1, <2>6, <3>1 DEF TakePayment, DeclareClaim, SubmitC2P, Declare
  <2> QED  BY <1>2, <2>4, <2>5, <2>6 DEF PaymentStep
<1>3. CASE SplitStep
  BY <1>3 DEF SplitStep, SplitMove, ReadBillForSplit, DropDraft
<1>4. CASE UNCHANGED vars
  BY <1>4 DEF vars, SplitMove
<1> QED  BY <1>1, <1>2, <1>3, <1>4 DEF Next

(* Each of those moves leaves every plan well formed and deletes none.     *)
LEMMA SplitsStep == SplitsOK /\ DraftsOK /\ SplitMove => SplitsOK' /\ PlansKept
<1> SUFFICES ASSUME SplitsOK, DraftsOK, SplitMove
             PROVE  SplitsOK' /\ PlansKept
  OBVIOUS
<1> USE MaxVesAssumption DEF PlansKept
<1>0. ASSUME splits' = [s \in Splits |-> splits'[s]],
             \A s \in Splits :
               splits'[s] \in SplitRow /\ (splits[s].status # "NONE" => splits'[s].status # "NONE")
      PROVE  SplitsOK' /\ PlansKept
  BY <1>0 DEF SplitsOK
<1>1. CASE splits' = splits
  BY <1>1 DEF SplitsOK
<1>2. ASSUME NEW b \in Bills, NEW due \in Ves, splits' = Staled(b, due)
      PROVE  SplitsOK' /\ PlansKept
  <2>1. ASSUME NEW s \in Splits
        PROVE  splits'[s] \in SplitRow /\ (splits[s].status # "NONE" => splits'[s].status # "NONE")
    BY <1>2 DEF Staled, Governs, SplitsOK, SplitRow, Split, SplitStatus
  <2> QED  BY <1>0, <1>2, <2>1 DEF Staled
<1>3. ASSUME NEW sh \in Shares, NEW b \in Bills, NEW a \in PayableVes,
             ShareTakes(sh, b, a), splits' = Advanced(sh, a)
      PROVE  SplitsOK' /\ PlansKept
  <2>1. PICK s \in Splits, d \in Diners : sh = <<s, d>>
    BY DEF Shares
  <2>2. /\ splits[s].status = "ACTIVE"
        /\ splits[s].paid[d] + a \in Ves /\ splits[s].paid[d] + a <= splits[s].owed[d]
    BY <1>3, <2>1 DEF ShareTakes, Governs, SplitsOK, SplitRow, Split, Ves, PayableVes
  <2>3. splits' = [splits EXCEPT ![s].paid[d] = splits[s].paid[d] + a]
    BY <1>3, <2>1 DEF Advanced
  <2>4. ASSUME NEW x \in Splits
        PROVE  splits'[x] \in SplitRow /\ (splits[x].status # "NONE" => splits'[x].status # "NONE")
    <3>1. splits'[x] \in Split /\ splits'[x].status = splits[x].status
          /\ \A e \in Diners : splits'[x].paid[e] <= splits'[x].owed[e]
      BY <2>2, <2>3 DEF SplitsOK, SplitRow, Split
    <3>2. splits[x].status # "ACTIVE" => splits'[x] = splits[x]
      BY <2>2, <2>3 DEF SplitsOK
    <3> QED  BY <3>1, <3>2 DEF SplitsOK, SplitRow
  <2> QED  BY <1>0, <2>3, <2>4 DEF SplitsOK
<1>4. ASSUME NEW r \in Requests, NEW s \in Splits, NEW owed \in [Diners -> Ves],
             CreateSplit(r, s, owed)
      PROVE  SplitsOK' /\ PlansKept
  <2>1. drafts[r].bill \in Bills /\ drafts[r].outstanding \in Ves /\ 0 \in Ves
    BY <1>4 DEF CreateSplit, DraftsOK, Draft, Ves, PayableVes
  <2>2. ASSUME NEW x \in Splits, x # s
        PROVE  splits'[x] \in SplitRow /\ (splits[x].status # "NONE" => splits'[x].status # "NONE")
    <3>1. CASE Governs(x, drafts[r].bill)
      <4>1. splits'[x] = [splits[x] EXCEPT !.status = "VOID"] /\ Discardable(x)
        BY <1>4, <2>2, <3>1 DEF CreateSplit
      <4>2. splits[x] \in Split /\ \A d \in Diners : splits[x].paid[d] <= splits[x].owed[d]
        BY DEF SplitsOK, SplitRow
      <4>3. splits'[x] \in Split /\ splits'[x].paid = splits[x].paid
            /\ splits'[x].owed = splits[x].owed /\ splits'[x].status = "VOID"
        BY <4>1, <4>2 DEF Split, SplitStatus
      <4> QED  BY <4>1, <4>2, <4>3 DEF Discardable, SplitRow
    <3>2. CASE ~ Governs(x, drafts[r].bill)
      BY <1>4, <2>2, <3>2 DEF CreateSplit, SplitsOK
    <3> QED  BY <3>1, <3>2
  <2>3. splits'[s] \in SplitRow /\ splits'[s].status # "NONE"
    <3>1. splits'[s] = [status |-> "ACTIVE", bill |-> drafts[r].bill,
                        basis |-> drafts[r].outstanding, owed |-> owed,
                        paid |-> [d \in Diners |-> 0]]
      BY <1>4 DEF CreateSplit, NoSplit
    <3>2. splits'[s] \in Split
      BY <2>1, <3>1 DEF Split, SplitStatus
    <3> QED  BY <3>1, <3>2 DEF SplitRow, Ves
  <2>4. splits' = [x \in Splits |-> splits'[x]]
    BY <1>4 DEF CreateSplit
  <2> QED  BY <1>0, <2>2, <2>3, <2>4
<1>5. ASSUME NEW s \in Splits, VoidSplit(s)
      PROVE  SplitsOK' /\ PlansKept
  <2>1. [splits[s] EXCEPT !.status = "VOID"] \in SplitRow
    BY <1>5 DEF VoidSplit, Discardable, SplitsOK, SplitRow, Split, SplitStatus
  <2> QED  BY <1>5, <2>1 DEF VoidSplit, SplitsOK
<1> QED  BY <1>1, <1>2, <1>3, <1>4, <1>5 DEF SplitMove
-----------------------------------------------------------------------------
(* A row of the ledger is inserted, moves to another status, or is settled *)
(* without its share.                                                      *)
Inserted(p, r) ==
  /\ payments[p].status = "NONE"
  /\ r.status \in {"SUCCEEDED", "PENDING"} /\ NamesShare(r.share)
  /\ payments' = [payments EXCEPT ![p] = r]
Moved(p, st) ==
  /\ payments[p].status # "NONE" /\ st \in PaymentStatus \ {"NONE"}
  /\ payments' = [payments EXCEPT ![p].status = st]

Recordable == [status : {"SUCCEEDED", "PENDING"}, rail : Rails, bill : Bills,
               amount : PayableVes, share : Shares \cup {None}]

PaymentMove ==
  \/ payments' = payments
  \/ \E p \in Payments, r \in Recordable : Inserted(p, r)
  \/ \E p \in Payments, st \in PaymentStatus : Moved(p, st)
  \/ \E p \in Payments : payments[p].status # "NONE" /\ payments' = Detached(p)

(* Every transaction touches the payments in one of the ways above: no     *)
(* code path deletes a row or rewrites its bill or its amount.             *)
LEMMA PaymentMoves == TypeInv /\ [Next]_vars => PaymentMove
<1> SUFFICES ASSUME TypeInv, [Next]_vars
             PROVE  PaymentMove
  OBVIOUS
<1>1. CASE BillStep
  BY <1>1 DEF BillStep, PaymentMove, OpenBill, ChangeTotal, SettleBill, VoidBill
<1>2. CASE PaymentStep
  <2>1. ASSUME NEW p \in Payments, NEW b \in Bills, NEW a \in PayableVes,
               NEW sh \in Shares \cup {None},
               TakePayment(p, b, a, sh) \/ DeclareClaim(p, b, a, sh) \/ SubmitC2P(p, b, a, sh)
        PROVE  PaymentMove
    <3>1. ASSUME NEW st \in {"SUCCEEDED", "PENDING"}, NEW rail \in Rails
          PROVE  /\ NewPayment(st, rail, b, a, sh) \in Recordable
                 /\ NewPayment(st, rail, b, a, sh).status = st
                 /\ NewPayment(st, rail, b, a, sh).share = sh
      BY DEF NewPayment, Recordable
    <3>2. PICK st \in {"SUCCEEDED", "PENDING"}, rail \in Rails :
            Inserted(p, NewPayment(st, rail, b, a, sh))
      BY <2>1, <3>1 DEF TakePayment, DeclareClaim, SubmitC2P, Declare, Inserted, Rails
    <3> QED  BY <3>1, <3>2 DEF PaymentMove
  <2>2. ASSUME NEW p \in Payments, NEW st \in PaymentStatus \ {"NONE"}, Transition(p, st),
               ClaimPending(p) \/ ChargeOpen(p)
        PROVE  PaymentMove
    BY <2>2 DEF Transition, PaymentMove, Moved, ClaimPending, ChargeOpen
  <2>3. ASSUME NEW p \in Payments, ConfirmClaim(p)
        PROVE  PaymentMove
    <3>1. payments[p].status # "NONE"
      BY <2>3 DEF ConfirmClaim, ClaimPending
    <3> QED  BY <2>2, <2>3, <3>1 DEF ConfirmClaim, TransitionDetaching, PaymentMove, PaymentStatus
  <2>4. ASSUME NEW p \in Payments,
               RejectClaim(p) \/ SettleC2P(p) \/ DoubtC2P(p) \/ FailC2P(p) \/ ParkC2P(p)
        PROVE  PaymentMove
    BY <2>2, <2>4 DEF RejectClaim, SettleC2P, DoubtC2P, FailC2P, ParkC2P, MarkC2P, PaymentStatus
  <2> QED  BY <1>2, <2>1, <2>3, <2>4 DEF PaymentStep
<1>3. CASE SplitStep
  BY <1>3 DEF SplitStep, PaymentMove, ReadBillForSplit, CreateSplit, DropDraft, VoidSplit
<1>4. CASE UNCHANGED vars
  BY <1>4 DEF vars, PaymentMove
<1> QED  BY <1>1, <1>2, <1>3, <1>4 DEF Next

(* Each of those moves keeps the rows typed and their foreign keys held.   *)
LEMMA PaymentsStep == PaymentsOK /\ PlansKept /\ PaymentMove => PaymentsOK'
<1> SUFFICES ASSUME PaymentsOK, PlansKept, PaymentMove
             PROVE  PaymentsOK'
  OBVIOUS
<1> USE DEF PaymentsOK, Recorded, PlansKept
<1>0. ASSUME NEW p \in Payments, payments[p].share # None
      PROVE  payments[p].share[1] \in Splits
  BY <1>0 DEF Payment, Shares
<1>1. CASE payments' = payments
  BY <1>0, <1>1
<1>2. ASSUME NEW p \in Payments, NEW r \in Recordable, Inserted(p, r)
      PROVE  PaymentsOK'
  <2>1. r \in Payment /\ (r.share # None => r.share[1] \in Splits)
    BY MaxVesAssumption DEF Recordable, Payment, PaymentStatus, Shares, Ves, PayableVes
  <2>2. payments' \in [Payments -> Payment]
    BY <1>2, <2>1 DEF Inserted
  <2>3. Recorded'
    BY <1>0, <1>2, <2>1 DEF Inserted, NamesShare, Recordable
  <2> QED  BY <2>2, <2>3
<1>3. ASSUME NEW p \in Payments, NEW st \in PaymentStatus, Moved(p, st)
      PROVE  PaymentsOK'
  <2>1. ASSUME NEW q \in Payments
        PROVE  /\ payments'[q] \in Payment /\ payments'[q].bill = payments[q].bill
               /\ payments'[q].amount = payments[q].amount
               /\ payments'[q].share = payments[q].share
               /\ payments'[q].status # "NONE" => payments[q].status # "NONE"
    BY <1>3 DEF Moved, Payment
  <2> QED  BY <1>0, <1>3, <2>1 DEF Moved
<1>4. ASSUME NEW p \in Payments, payments[p].status # "NONE", payments' = Detached(p)
      PROVE  PaymentsOK'
  <2>1. ASSUME NEW q \in Payments
        PROVE  /\ payments'[q] \in Payment /\ payments'[q].bill = payments[q].bill
               /\ payments'[q].amount = payments[q].amount
               /\ payments'[q].share \in {payments[q].share, None}
               /\ payments'[q].status # "NONE" => payments[q].status # "NONE"
    BY <1>4 DEF Detached, Payment, PaymentStatus
  <2> QED  BY <1>0, <1>4, <2>1 DEF Detached
<1> QED  BY <1>1, <1>2, <1>3, <1>4 DEF PaymentMove
-----------------------------------------------------------------------------
(* What a splitting request holds of its bill stays a positive balance.    *)
LEMMA DraftsStep == TypeInv /\ [Next]_vars => DraftsOK'
<1> SUFFICES ASSUME TypeInv, [Next]_vars
             PROVE  DraftsOK'
  OBVIOUS
<1> USE DEF TypeInv, DraftsOK
<1>1. ASSUME NEW r \in Requests, NEW b \in Bills, ReadBillForSplit(r, b)
      PROVE  DraftsOK'
  <2>1. Remaining(b) \in PayableVes
    BY <1>1, MaxVesAssumption DEF ReadBillForSplit, BillsOK, BillRow, Remaining, Bill, Ves, PayableVes
  <2> QED  BY <1>1, <2>1 DEF ReadBillForSplit, Draft
<1>2. ASSUME NEW r \in Requests, NEW s \in Splits, NEW owed, CreateSplit(r, s, owed)
      PROVE  DraftsOK'
  BY <1>2 DEF CreateSplit
<1>3. ASSUME NEW r \in Requests, DropDraft(r)
      PROVE  DraftsOK'
  BY <1>3 DEF DropDraft
<1>4. CASE UNCHANGED drafts
  BY <1>4
<1>5. CASE BillStep
  BY <1>4, <1>5 DEF BillStep, OpenBill, ChangeTotal, SettleBill, VoidBill
<1>6. CASE PaymentStep
  BY <1>4, <1>6 DEF PaymentStep, TakePayment, DeclareClaim, SubmitC2P, Declare, ConfirmClaim,
     RejectClaim, SettleC2P, DoubtC2P, FailC2P, ParkC2P, MarkC2P
<1>7. CASE SplitStep
  BY <1>1, <1>2, <1>3, <1>4, <1>7 DEF SplitStep, VoidSplit
<1> QED  BY <1>4, <1>5, <1>6, <1>7 DEF Next, vars

(* Empty tables are well formed.                                           *)
LEMMA TypeInit == Init => TypeInv
BY MaxVesAssumption DEF Init, TypeInv, BillsOK, BillRow, SplitsOK, SplitRow, PaymentsOK, DraftsOK, Recorded,
   Bill, Payment, Split, NoBill, NoPayment, NoSplit, BillStatus, PaymentStatus, SplitStatus, Rails, Ves

(* No transaction leaves a malformed row behind.                           *)
LEMMA TypeStep == TypeInv /\ [Next]_vars => TypeInv'
BY BillMoves, BillsStep, SplitMoves, SplitsStep, PaymentMoves, PaymentsStep, DraftsStep DEF TypeInv

(* So every reachable database is well formed.                             *)
LEMMA TypeSafe == Spec => []TypeInv
BY TypeInit, TypeStep, PTL DEF Spec

(* Every row keeps its type for any number of rows: in particular no       *)
(* amount leaves the range of its column.                                  *)
THEOREM TypeCorrect == Spec => []TypeOK
<1>1. TypeInv => TypeOK
  BY DEF TypeInv, BillsOK, BillRow, SplitsOK, SplitRow, PaymentsOK, DraftsOK, TypeOK
<1> QED  BY <1>1, TypeSafe, PTL

(* No order of payments on any rail, edits of the bill and splits takes a  *)
(* bill or a share past what it owes.                                      *)
THEOREM NeverOverpaidHolds == Spec => []NeverOverpaid
<1>1. TypeInv => NeverOverpaid
  BY DEF TypeInv, BillsOK, BillRow, SplitsOK, SplitRow, NeverOverpaid
<1> QED  BY <1>1, TypeSafe, PTL
-----------------------------------------------------------------------------
(* Where money moves.  Every step either settles one payment, moving both  *)
(* counters by its amount, or moves no settled money at all.               *)
Settles(p, b, a, sh) ==
  /\ payments[p].status # "SUCCEEDED"
  /\ ApplyToBill(b, a)
  /\ AdvanceShare(sh, b, a)
  /\ \E row \in Payment :
       /\ row.status = "SUCCEEDED" /\ row.bill = b /\ row.amount = a /\ row.share = sh
       /\ payments' = [payments EXCEPT ![p] = row]

SettlesSome ==
  \E p \in Payments, b \in Bills, a \in PayableVes, sh \in Shares \cup {None} :
    Settles(p, b, a, sh)

BillsQuiet == \A b \in Bills : bills'[b].paid = bills[b].paid
SplitsQuiet ==
  \A s \in Splits, d \in Diners :
    \/ splits'[s].paid[d] = splits[s].paid[d]
    \/ splits[s].status = "NONE" /\ splits'[s].paid[d] = 0
PaymentsQuiet ==
  \A p \in Payments :
    \/ payments'[p] = payments[p]
    \/ payments[p].status # "SUCCEEDED" /\ payments'[p].status # "SUCCEEDED"

MoneyStill == BillsQuiet /\ SplitsQuiet /\ PaymentsQuiet

(* Editing, settling or voiding a bill moves no money.                     *)
LEMMA BillStepStill == TypeInv /\ BillStep => MoneyStill
<1> SUFFICES ASSUME TypeInv, BillStep
             PROVE  MoneyStill
  OBVIOUS
<1>1. payments' = payments
  BY DEF BillStep, OpenBill, ChangeTotal, SettleBill, VoidBill
<1>2. SplitsQuiet
  <2>1. splits' = splits \/ \E b \in Bills, due \in Ves : splits' = Staled(b, due)
    BY DEF BillStep, OpenBill, ChangeTotal, SettleBill, VoidBill
  <2> QED  BY <2>1 DEF TypeInv, SplitsOK, SplitRow, Split, SplitsQuiet, Staled
<1>3. BillsQuiet
  <2> USE DEF TypeInv, BillsOK, BillRow, Bill, BillsQuiet
  <2>1. ASSUME NEW b \in Bills, NEW due \in Ves, OpenBill(b, due)
        PROVE  BillsQuiet
    BY <2>1 DEF OpenBill
  <2>2. ASSUME NEW b \in Bills, NEW due \in Ves, ChangeTotal(b, due)
        PROVE  BillsQuiet
    BY <2>2 DEF ChangeTotal
  <2>3. ASSUME NEW b \in Bills, SettleBill(b) \/ VoidBill(b)
        PROVE  BillsQuiet
    BY <2>3 DEF SettleBill, VoidBill
  <2> QED  BY <2>1, <2>2, <2>3 DEF BillStep
<1> QED  BY <1>1, <1>2, <1>3 DEF MoneyStill, PaymentsQuiet

(* Reading a bill, writing a plan and discarding one move no money.        *)
LEMMA SplitStepStill == TypeInv /\ SplitStep => MoneyStill
<1> SUFFICES ASSUME TypeInv, SplitStep
             PROVE  MoneyStill
  OBVIOUS
<1>1. bills' = bills /\ payments' = payments
  BY DEF SplitStep, ReadBillForSplit, CreateSplit, DropDraft, VoidSplit
<1>2. SplitsQuiet
  <2> USE DEF TypeInv, SplitsOK, SplitRow, Split, SplitsQuiet
  <2>1. CASE splits' = splits
    BY <2>1
  <2>2. ASSUME NEW r \in Requests, NEW s \in Splits, NEW owed, CreateSplit(r, s, owed)
        PROVE  SplitsQuiet
    <3>1. ASSUME NEW x \in Splits, x # s
          PROVE  splits'[x].paid = splits[x].paid
      BY <2>2, <3>1 DEF CreateSplit
    <3>2. \A d \in Diners : splits'[s].paid[d] = 0
      BY <2>2 DEF CreateSplit, NoSplit
    <3> QED  BY <2>2, <3>1, <3>2 DEF CreateSplit
  <2>3. ASSUME NEW s \in Splits, VoidSplit(s)
        PROVE  SplitsQuiet
    BY <2>3 DEF VoidSplit
  <2> QED  BY <2>1, <2>2, <2>3 DEF SplitStep, ReadBillForSplit, DropDraft
<1> QED  BY <1>1, <1>2 DEF MoneyStill, BillsQuiet, PaymentsQuiet

(* A payment step settles one payment whole, or settles none: no rail moves*)
(* a counter without the row, or the row without the counters.             *)
LEMMA PaymentStepMoney == TypeInv /\ PaymentStep => SettlesSome \/ MoneyStill
<1> SUFFICES ASSUME TypeInv, PaymentStep
             PROVE  SettlesSome \/ MoneyStill
  OBVIOUS
<1>1. ASSUME NEW p \in Payments, NEW b \in Bills, NEW a \in PayableVes,
             NEW sh \in Shares \cup {None}, TakePayment(p, b, a, sh)
      PROVE  SettlesSome
  <2> DEFINE row == NewPayment("SUCCEEDED", "TILL", b, a, sh)
  <2>1. row \in Payment /\ row.status = "SUCCEEDED" /\ row.bill = b
        /\ row.amount = a /\ row.share = sh
    BY MaxVesAssumption DEF NewPayment, Payment, PaymentStatus, Rails, Ves, PayableVes
  <2> HIDE DEF row
  <2>2. payments' = [payments EXCEPT ![p] = row]
    BY <1>1 DEF TakePayment, row
  <2>3. Settles(p, b, a, sh)
    BY <1>1, <2>1, <2>2 DEF TakePayment, Settles
  <2> QED  BY <2>3 DEF SettlesSome
<1>2. ASSUME NEW p \in Payments, NEW row, payments[p].status = "NONE", row.status = "PENDING",
             payments' = [payments EXCEPT ![p] = row], UNCHANGED <<bills, splits>>
      PROVE  MoneyStill
  BY <1>2 DEF MoneyStill, BillsQuiet, SplitsQuiet, PaymentsQuiet, TypeInv, PaymentsOK
<1>3. ASSUME NEW p \in Payments, NEW b \in Bills, NEW a \in PayableVes,
             NEW sh \in Shares \cup {None}, NEW rail, Declare(rail, p, b, a, sh)
      PROVE  MoneyStill
  BY <1>2, <1>3 DEF Declare, NewPayment
<1>4. ASSUME NEW p \in Payments, payments[p].status \in InFlight
      PROVE  /\ payments[p].bill \in Bills /\ payments[p].amount \in PayableVes
             /\ payments[p].share \in Shares \cup {None} /\ payments[p] \in Payment
  BY <1>4 DEF InFlight, TypeInv, PaymentsOK, Recorded, Payment
<1>5. ASSUME NEW p \in Payments, payments[p].status \in InFlight,
             ApplyToBill(payments[p].bill, payments[p].amount), TransitionDetaching(p)
      PROVE  SettlesSome
  <2>0. /\ payments[p].bill \in Bills /\ payments[p].amount \in PayableVes
        /\ payments[p].share \in Shares \cup {None} /\ payments[p] \in Payment
    BY <1>4, <1>5
  <2> DEFINE b == payments[p].bill
             a == payments[p].amount
             kept == [payments[p] EXCEPT !.status = "SUCCEEDED"]
             bare == [payments[p] EXCEPT !.status = "SUCCEEDED", !.share = None]
  <2>1. CASE payments' = [payments EXCEPT ![p].status = "SUCCEEDED"]
             /\ AdvanceShare(payments[p].share, b, a)
    <3>1. kept \in Payment /\ kept.status = "SUCCEEDED" /\ kept.bill = b /\ kept.amount = a
          /\ kept.share = payments[p].share
      BY <2>0 DEF Payment, PaymentStatus
    <3>2. payments' = [payments EXCEPT ![p] = kept]
      BY <2>1 DEF TypeInv, PaymentsOK
    <3>3. Settles(p, b, a, payments[p].share)
      <4> HIDE DEF kept
      <4> QED  BY <1>5, <2>1, <3>1, <3>2 DEF Settles, InFlight
    <3> QED  BY <2>0, <3>3 DEF SettlesSome
  <2>2. CASE payments' = Detached(p) /\ splits' = splits
    <3>1. bare \in Payment /\ bare.status = "SUCCEEDED" /\ bare.bill = b /\ bare.amount = a
          /\ bare.share = None
      BY <2>0 DEF Payment, PaymentStatus
    <3>2. payments' = [payments EXCEPT ![p] = bare]
      BY <2>2 DEF Detached, TypeInv, PaymentsOK
    <3>3. AdvanceShare(None, b, a)
      BY <2>2 DEF AdvanceShare
    <3>4. Settles(p, b, a, None)
      <4> HIDE DEF bare
      <4> QED  BY <1>5, <3>1, <3>2, <3>3 DEF Settles, InFlight
    <3> QED  BY <2>0, <3>4 DEF SettlesSome
  <2> QED  BY <1>5, <2>1, <2>2 DEF TransitionDetaching, Transition, InFlight
<1>6. ASSUME NEW p \in Payments, NEW st \in {"FAILED", "IN_DOUBT", "AMBIGUOUS"},
             payments[p].status \in InFlight, Transition(p, st), bills' = bills
      PROVE  MoneyStill
  <2>1. splits' = splits
    BY <1>6 DEF Transition
  <2>2. PaymentsQuiet
    BY <1>6 DEF Transition, InFlight, PaymentsQuiet, TypeInv, PaymentsOK, Payment
  <2> QED  BY <1>6, <2>1, <2>2 DEF MoneyStill, BillsQuiet, SplitsQuiet
<1>7. ASSUME NEW p \in Payments, ConfirmClaim(p) \/ SettleC2P(p)
      PROVE  SettlesSome
  BY <1>5, <1>7 DEF ConfirmClaim, SettleC2P, TransitionDetaching, ClaimPending, ChargeOpen, InFlight
<1>8. ASSUME NEW p \in Payments, RejectClaim(p) \/ DoubtC2P(p) \/ FailC2P(p) \/ ParkC2P(p)
      PROVE  MoneyStill
  BY <1>6, <1>8 DEF RejectClaim, DoubtC2P, FailC2P, ParkC2P, MarkC2P, ClaimPending, ChargeOpen, InFlight
<1> QED  BY <1>1, <1>3, <1>7, <1>8 DEF PaymentStep, DeclareClaim, SubmitC2P

(* Whatever the transaction: it settles one payment whole or moves none.   *)
LEMMA MoneyMoves == TypeInv /\ [Next]_vars => SettlesSome \/ MoneyStill
<1>1. UNCHANGED vars => MoneyStill
  BY DEF vars, MoneyStill, BillsQuiet, SplitsQuiet, PaymentsQuiet
<1> QED  BY <1>1, BillStepStill, SplitStepStill, PaymentStepMoney DEF Next
-----------------------------------------------------------------------------
(* The counters agree with the ledger.                                     *)

(* When one payment is settled, the total of any set of settled payments   *)
(* grows by its amount if the payment joins the set, and stays otherwise.  *)
LEMMA SettledTotals ==
  ASSUME TypeInv,
         NEW p \in Payments, NEW row \in Payment, payments' = [payments EXCEPT ![p] = row],
         NEW S \in SUBSET (Payments \ {p})
  PROVE  /\ TotalOf(Amount', S) = TotalOf(Amount, S)
         /\ TotalOf(Amount', S \cup {p}) = TotalOf(Amount, S) + row.amount
<1>1. Amount' = [q \in Payments |-> payments'[q].amount]
  BY DEF Amount
<1>2. payments'[p] = row /\ \A q \in S : payments'[q] = payments[q]
  BY DEF TypeInv, PaymentsOK
<1>3. \A q \in S : Amount'[q] = Amount[q]
  BY <1>1, <1>2 DEF Amount
<1>4. TotalOf(Amount', S) = TotalOf(Amount, S)
  BY <1>3, TotalSame
<1>5. Amount'[p] = row.amount /\ row.amount \in Ves
  BY <1>1, <1>2 DEF Payment
<1>6. IsFiniteSet(S)
  BY LedgerAssumption, FS_Subset
<1>7. TotalOf(Amount', S \cup {p}) = TotalOf(Amount', S) + Amount'[p]
  BY <1>5, <1>6, TotalAdd
<1> QED  BY <1>4, <1>5, <1>7

(* The payments a step leaves settled are the same, and so is their total, *)
(* when it settles none.                                                   *)
LEMMA StillTotals ==
  ASSUME TypeInv, PaymentsQuiet
  PROVE  /\ \A b \in Bills :
              SettledOn(b)' = SettledOn(b)
              /\ TotalOf(Amount, SettledOn(b))' = TotalOf(Amount, SettledOn(b))
         /\ \A sh \in Shares :
              SettledFor(sh)' = SettledFor(sh)
              /\ TotalOf(Amount, SettledFor(sh))' = TotalOf(Amount, SettledFor(sh))
<1>1. Amount' = [q \in Payments |-> payments'[q].amount]
  BY DEF Amount
<1>2. \A q \in Payments : payments[q].status = "SUCCEEDED" => Amount'[q] = Amount[q]
  BY <1>1 DEF PaymentsQuiet, Amount
<1>3. ASSUME NEW b \in Bills
      PROVE  SettledOn(b)' = SettledOn(b)
             /\ TotalOf(Amount, SettledOn(b))' = TotalOf(Amount, SettledOn(b))
  <2>1. SettledOn(b)' = SettledOn(b)
    BY DEF SettledOn, PaymentsQuiet
  <2>2. TotalOf(Amount', SettledOn(b)) = TotalOf(Amount, SettledOn(b))
    BY <1>2, TotalSame DEF SettledOn
  <2> QED  BY <2>1, <2>2
<1>4. ASSUME NEW sh \in Shares
      PROVE  SettledFor(sh)' = SettledFor(sh)
             /\ TotalOf(Amount, SettledFor(sh))' = TotalOf(Amount, SettledFor(sh))
  <2>1. SettledFor(sh)' = SettledFor(sh)
    BY DEF SettledFor, PaymentsQuiet
  <2>2. TotalOf(Amount', SettledFor(sh)) = TotalOf(Amount, SettledFor(sh))
    BY <1>2, TotalSame DEF SettledFor
  <2> QED  BY <2>1, <2>2
<1> QED  BY <1>3, <1>4

(* Empty tables agree with an empty ledger.                                *)
LEMMA LedgerInit == Init => LedgerAgrees /\ ShareAgrees
<1> SUFFICES ASSUME Init
             PROVE  LedgerAgrees /\ ShareAgrees
  OBVIOUS
<1>1. \A b : SettledOn(b) = {}
  BY DEF Init, NoPayment, SettledOn
<1>2. \A sh : SettledFor(sh) = {}
  BY DEF Init, NoPayment, SettledFor
<1>3. \A b \in Bills : bills[b].paid = 0
  BY DEF Init, NoBill
<1>4. \A s \in Splits, d \in Diners : splits[s].paid[d] = 0
  BY DEF Init, NoSplit
<1> QED  BY <1>1, <1>2, <1>3, <1>4, TotalEmpty DEF LedgerAgrees, ShareAgrees

(* A settled payment moves its bill's counter with its row.                *)
LEMMA SettlesLedger ==
  ASSUME TypeInv, LedgerAgrees, NEW p \in Payments, NEW b \in Bills, NEW a \in PayableVes,
         NEW sh, Settles(p, b, a, sh)
  PROVE  LedgerAgrees'
<1>1. PICK row \in Payment : row.status = "SUCCEEDED" /\ row.bill = b /\ row.amount = a
                            /\ payments' = [payments EXCEPT ![p] = row]
  BY DEF Settles
<1>2. payments[p].status # "SUCCEEDED" /\ payments'[p] = row
      /\ \A q \in Payments \ {p} : payments'[q] = payments[q]
  BY <1>1 DEF Settles, TypeInv, PaymentsOK
<1>3. ASSUME NEW c \in Bills
      PROVE  /\ SettledOn(c) \in SUBSET (Payments \ {p})
             /\ SettledOn(c)' = IF c = b THEN SettledOn(c) \cup {p} ELSE SettledOn(c)
  BY <1>1, <1>2 DEF SettledOn
<1>4. ASSUME NEW c \in Bills
      PROVE  bills'[c].paid = IF c = b THEN bills[c].paid + a ELSE bills[c].paid
  BY DEF Settles, ApplyToBill, TypeInv, BillsOK, BillRow, Bill
<1>5. ASSUME NEW c \in Bills
      PROVE  bills'[c].paid = TotalOf(Amount', SettledOn(c)')
  <2>1. /\ TotalOf(Amount', SettledOn(c)) = TotalOf(Amount, SettledOn(c))
        /\ TotalOf(Amount', SettledOn(c) \cup {p}) = TotalOf(Amount, SettledOn(c)) + a
    BY <1>1, <1>3, SettledTotals
  <2> QED  BY <1>3, <1>4, <2>1 DEF LedgerAgrees
<1> QED  BY <1>5 DEF LedgerAgrees

(* ... and the counter of the share it names, if it names one.             *)
LEMMA SettlesShares ==
  ASSUME TypeInv, ShareAgrees, NEW p \in Payments, NEW b \in Bills, NEW a \in PayableVes,
         NEW sh \in Shares \cup {None}, Settles(p, b, a, sh)
  PROVE  ShareAgrees'
<1>1. PICK row \in Payment : row.status = "SUCCEEDED" /\ row.share = sh /\ row.amount = a
                            /\ payments' = [payments EXCEPT ![p] = row]
  BY DEF Settles
<1>2. payments[p].status # "SUCCEEDED" /\ payments'[p] = row
      /\ \A q \in Payments \ {p} : payments'[q] = payments[q]
  BY <1>1 DEF Settles, TypeInv, PaymentsOK
<1>3. ASSUME NEW t \in Shares
      PROVE  /\ SettledFor(t) \in SUBSET (Payments \ {p})
             /\ SettledFor(t)' = IF t = sh THEN SettledFor(t) \cup {p} ELSE SettledFor(t)
  BY <1>1, <1>2 DEF SettledFor
<1>4. ASSUME NEW s \in Splits, NEW d \in Diners
      PROVE  splits'[s].paid[d] = IF <<s, d>> = sh THEN splits[s].paid[d] + a
                                  ELSE splits[s].paid[d]
  <2>1. CASE sh = None
    BY <2>1, LedgerAssumption DEF Settles, AdvanceShare, Shares
  <2>2. CASE sh # None
    <3>1. PICK t \in Splits, e \in Diners : sh = <<t, e>>
      BY <2>2 DEF Shares
    <3>2. splits' = [splits EXCEPT ![t].paid[e] = splits[t].paid[e] + a]
      BY <2>2, <3>1 DEF Settles, AdvanceShare, Advanced
    <3> QED  BY <3>1, <3>2 DEF TypeInv, SplitsOK, SplitRow, Split
  <2> QED  BY <2>1, <2>2
<1>5. ASSUME NEW s \in Splits, NEW d \in Diners
      PROVE  splits'[s].paid[d] = TotalOf(Amount', SettledFor(<<s, d>>)')
  <2>0. <<s, d>> \in Shares
    BY DEF Shares
  <2>1. /\ TotalOf(Amount', SettledFor(<<s, d>>)) = TotalOf(Amount, SettledFor(<<s, d>>))
        /\ TotalOf(Amount', SettledFor(<<s, d>>) \cup {p})
             = TotalOf(Amount, SettledFor(<<s, d>>)) + a
    BY <1>1, <1>3, <2>0, SettledTotals
  <2> QED  BY <1>3, <1>4, <2>0, <2>1 DEF ShareAgrees
<1> QED  BY <1>5 DEF ShareAgrees

(* A step that settles nothing keeps both agreements: a plan it writes     *)
(* starts at zero, and no settled payment names a share of a plan not      *)
(* written yet (the foreign key).                                          *)
LEMMA StillAgrees ==
  ASSUME TypeInv, LedgerAgrees, ShareAgrees, MoneyStill
  PROVE  LedgerAgrees' /\ ShareAgrees'
<1>1. LedgerAgrees'
  <2>1. ASSUME NEW b \in Bills
        PROVE  bills'[b].paid = TotalOf(Amount, SettledOn(b))'
    BY StillTotals DEF MoneyStill, BillsQuiet, LedgerAgrees
  <2> QED  BY <2>1 DEF LedgerAgrees
<1>2. ASSUME NEW s \in Splits, NEW d \in Diners
      PROVE  splits'[s].paid[d] = TotalOf(Amount, SettledFor(<<s, d>>))'
  <2>0. <<s, d>> \in Shares
    BY DEF Shares
  <2>1. CASE splits'[s].paid[d] = splits[s].paid[d]
    BY <2>0, <2>1, StillTotals DEF MoneyStill, ShareAgrees
  <2>2. CASE splits[s].status = "NONE" /\ splits'[s].paid[d] = 0
    <3>1. <<s, d>> # None /\ <<s, d>>[1] = s
      BY <2>0, LedgerAssumption
    <3>2. ASSUME NEW p \in Payments, payments[p].share = <<s, d>>
          PROVE  splits[s].status # "NONE"
      <4>1. payments[p].share # None => splits[payments[p].share[1]].status # "NONE"
        BY DEF TypeInv, PaymentsOK, Recorded
      <4> QED  BY <3>1, <3>2, <4>1
    <3>3. SettledFor(<<s, d>>) = {}
      BY <2>2, <3>2 DEF SettledFor
    <3> QED  BY <2>0, <2>2, <3>3, StillTotals, TotalEmpty DEF MoneyStill
  <2> QED  BY <2>1, <2>2 DEF MoneyStill, SplitsQuiet
<1> QED  BY <1>1, <1>2 DEF ShareAgrees

(* The inductive invariant of the core.                                    *)
LedgerInv == TypeInv /\ LedgerAgrees /\ ShareAgrees

(* Every transaction keeps both counters in agreement with the ledger.     *)
LEMMA LedgerStep == LedgerInv /\ [Next]_vars => LedgerInv'
<1> SUFFICES ASSUME LedgerInv, [Next]_vars
             PROVE  LedgerInv'
  OBVIOUS
<1> USE DEF LedgerInv
<1>1. TypeInv'
  BY TypeStep
<1>2. CASE SettlesSome
  BY <1>1, <1>2, SettlesLedger, SettlesShares DEF SettlesSome
<1>3. CASE MoneyStill
  BY <1>1, <1>3, StillAgrees
<1> QED  BY <1>2, <1>3, MoneyMoves

(* So they agree in every reachable database.                              *)
LEMMA LedgerSafe == Spec => []LedgerInv
<1>1. Init => LedgerInv
  BY TypeInit, LedgerInit DEF LedgerInv
<1> QED  BY <1>1, LedgerStep, PTL DEF Spec

(* payment_ledger_drift is empty in every reachable state: what a bill     *)
(* says it was paid is the sum of the payments settled on it, for any      *)
(* number of bills and payments on any mix of rails.                       *)
THEOREM LedgerAlwaysAgrees == Spec => []LedgerAgrees
BY LedgerSafe, PTL DEF LedgerInv

(* bill_split_share_drift is empty in every reachable state.               *)
THEOREM ShareAlwaysAgrees == Spec => []ShareAgrees
BY LedgerSafe, PTL DEF LedgerInv

(* A bill voided by staff never took money and never will: what is still   *)
(* in flight on it cannot settle.                                          *)
THEOREM VoidTakesNoMoney == Spec => []VoidTookNoMoney
<1>1. LedgerInv => VoidTookNoMoney
  <2> SUFFICES ASSUME LedgerInv, NEW b \in Bills, bills[b].status = "VOID",
                      NEW p \in SettledOn(b)
               PROVE  FALSE
    BY DEF VoidTookNoMoney
  <2>1. bills[b].paid = 0
    BY DEF LedgerInv, TypeInv, BillsOK, BillRow
  <2>2. TotalOf(Amount, SettledOn(b)) = 0
    BY <2>1 DEF LedgerInv, LedgerAgrees
  <2>3. IsFiniteSet(SettledOn(b))
    BY LedgerAssumption, FS_Subset DEF SettledOn
  <2>4. Amount[p] \in PayableVes
    BY DEF SettledOn, Amount, LedgerInv, TypeInv, PaymentsOK, Recorded
  <2> QED  BY <2>2, <2>3, <2>4, TotalZero
<1> QED  BY <1>1, LedgerSafe, PTL

(* A plan that was discarded holds no money, whichever payments were       *)
(* racing with the discard.                                                *)
THEOREM VoidPlanTakesNoMoney == Spec => []VoidPlanTookNoMoney
<1>1. LedgerInv => VoidPlanTookNoMoney
  <2> SUFFICES ASSUME LedgerInv, NEW s \in Splits, NEW d \in Diners, splits[s].status = "VOID"
               PROVE  splits[s].paid[d] = 0 /\ SettledFor(<<s, d>>) = {}
    BY DEF VoidPlanTookNoMoney
  <2>1. splits[s].paid[d] = 0
    BY DEF LedgerInv, TypeInv, SplitsOK, SplitRow
  <2>2. TotalOf(Amount, SettledFor(<<s, d>>)) = 0
    BY <2>1 DEF LedgerInv, ShareAgrees
  <2>3. IsFiniteSet(SettledFor(<<s, d>>))
    BY LedgerAssumption, FS_Subset DEF SettledFor
  <2>4. ASSUME NEW p \in SettledFor(<<s, d>>)
        PROVE  Amount[p] \in PayableVes
    BY DEF SettledFor, Amount, LedgerInv, TypeInv, PaymentsOK, Recorded
  <2> QED  BY <2>1, <2>2, <2>3, <2>4, TotalZero
<1> QED  BY <1>1, LedgerSafe, PTL

(* Every closed bill is explained: what was paid and what a manager wrote  *)
(* off add up to what it came to.                                          *)
THEOREM ClosedAlwaysAccountedFor == Spec => []ClosedIsAccountedFor
<1>1. TypeInv => ClosedIsAccountedFor
  BY DEF TypeInv, BillsOK, BillRow, ClosedIsAccountedFor
<1> QED  BY <1>1, TypeSafe, PTL
-----------------------------------------------------------------------------
(* A payment and the share it settled are of one bill.                     *)

(* Once agreed, a plan divides the same bill for good.                     *)
PlansStay == \A s \in Splits : splits[s].status # "NONE" => splits'[s].bill = splits[s].bill

(* No step moves a plan to another bill.                                   *)
LEMMA PlansStayPut == TypeInv /\ [Next]_vars => PlansStay
<1> SUFFICES ASSUME TypeInv, SplitMove
             PROVE  PlansStay
  BY SplitMoves
<1> USE DEF TypeInv, SplitsOK, SplitRow, Split, PlansStay
<1>1. CASE splits' = splits
  BY <1>1
<1>2. ASSUME NEW b \in Bills, NEW due \in Ves, splits' = Staled(b, due)
      PROVE  PlansStay
  BY <1>2 DEF Staled
<1>3. ASSUME NEW sh \in Shares, NEW a \in PayableVes, splits' = Advanced(sh, a)
      PROVE  PlansStay
  BY <1>3 DEF Advanced
<1>4. ASSUME NEW r \in Requests, NEW s \in Splits, NEW owed, CreateSplit(r, s, owed)
      PROVE  PlansStay
  BY <1>4 DEF CreateSplit
<1>5. ASSUME NEW s \in Splits, VoidSplit(s)
      PROVE  PlansStay
  BY <1>5 DEF VoidSplit
<1> QED  BY <1>1, <1>2, <1>3, <1>4, <1>5 DEF SplitMove

(* No payment settles a share of another bill: the foreign key accepts any *)
(* share when the payment is recorded, and advanceShare is what looks at   *)
(* its bill.                                                               *)
THEOREM SharesKeptApart == Spec => []SharesOfTheirBill
<1>1. Init => SharesOfTheirBill
  BY DEF Init, NoPayment, SharesOfTheirBill
<1>2. TypeInv /\ SharesOfTheirBill /\ [Next]_vars => SharesOfTheirBill'
  <2> SUFFICES ASSUME TypeInv, SharesOfTheirBill, [Next]_vars, NEW p \in Payments,
                      payments'[p].status = "SUCCEEDED", payments'[p].share # None
               PROVE  splits'[payments'[p].share[1]].bill = payments'[p].bill
    BY DEF SharesOfTheirBill
  <2>1. PlansStay
    BY PlansStayPut
  <2>2. ASSUME payments'[p] = payments[p]
        PROVE  splits'[payments'[p].share[1]].bill = payments'[p].bill
    <3>1. /\ payments[p].share \in Shares
          /\ splits[payments[p].share[1]].status # "NONE"
      BY <2>2 DEF TypeInv, PaymentsOK, Recorded, Payment
    <3>2. splits[payments[p].share[1]].bill = payments[p].bill
      BY <2>2 DEF SharesOfTheirBill
    <3> QED  BY <2>1, <2>2, <3>1, <3>2 DEF PlansStay, Shares
  <2>3. ASSUME NEW q \in Payments, NEW b \in Bills, NEW a \in PayableVes,
               NEW sh \in Shares \cup {None}, Settles(q, b, a, sh)
        PROVE  splits'[payments'[p].share[1]].bill = payments'[p].bill
    <3>1. CASE p # q
      BY <2>2, <2>3, <3>1 DEF Settles, TypeInv, PaymentsOK
    <3>2. CASE p = q
      <4>1. payments'[p].share = sh /\ payments'[p].bill = b
        BY <2>3, <3>2 DEF Settles, TypeInv, PaymentsOK
      <4>2. Governs(sh[1], b) /\ sh[1] \in Splits
        BY <2>3, <4>1 DEF Settles, AdvanceShare, ShareTakes, Shares
      <4> QED  BY <2>1, <4>1, <4>2 DEF PlansStay, Governs
    <3> QED  BY <3>1, <3>2
  <2>4. CASE MoneyStill
    BY <2>2, <2>4 DEF MoneyStill, PaymentsQuiet
  <2> QED  BY <2>3, <2>4, MoneyMoves DEF SettlesSome
<1> QED  BY <1>1, <1>2, TypeSafe, PTL DEF Spec
-----------------------------------------------------------------------------
(* What a step may never do to a plan.                                     *)

(* No plan is discarded while a payment that may still settle names one of *)
(* its shares: neither by hand nor by the plan that replaces it.           *)
THEOREM InFlightHoldsItsPlan == Spec => InFlightKeepsItsPlan
<1>1. TypeInv /\ [Next]_vars =>
        \A p \in Payments, s \in Splits, d \in Diners :
          payments[p].status \in InFlight /\ payments[p].share = <<s, d>>
            => ~ (splits[s].status = "ACTIVE" /\ splits'[s].status = "VOID")
  <2> SUFFICES ASSUME TypeInv, SplitMove, NEW p \in Payments, NEW s \in Splits, NEW d \in Diners,
                      payments[p].status \in InFlight, payments[p].share = <<s, d>>,
                      splits[s].status = "ACTIVE", splits'[s].status = "VOID"
               PROVE  FALSE
    BY SplitMoves
  <2>1. ~ Discardable(s)
    <3>1. <<s, d>> \in {s} \X Diners
      OBVIOUS
    <3> QED  BY <3>1 DEF Discardable
  <2> USE DEF TypeInv, SplitsOK, SplitRow, Split
  <2>2. CASE splits' = splits
    BY <2>2
  <2>3. ASSUME NEW b \in Bills, NEW due \in Ves, splits' = Staled(b, due)
        PROVE  FALSE
    BY <2>3 DEF Staled
  <2>4. ASSUME NEW sh \in Shares, NEW a \in PayableVes, splits' = Advanced(sh, a)
        PROVE  FALSE
    BY <2>4 DEF Advanced
  <2>5. ASSUME NEW r \in Requests, NEW x \in Splits, NEW owed, CreateSplit(r, x, owed)
        PROVE  FALSE
    BY <2>1, <2>5 DEF CreateSplit, NoSplit
  <2>6. ASSUME NEW x \in Splits, VoidSplit(x)
        PROVE  FALSE
    BY <2>1, <2>6 DEF VoidSplit
  <2> QED  BY <2>2, <2>3, <2>4, <2>5, <2>6 DEF SplitMove
<1> QED  BY <1>1, TypeSafe, PTL DEF Spec, InFlightKeepsItsPlan

-----------------------------------------------------------------------------
(* The core implements the account abstraction.                            *)

(* What the abstraction sees of the two tables.                            *)
SeenBills ==
  [b \in Bills |-> [state |-> bills[b].status, due |-> bills[b].due, paid |-> bills[b].paid]]
SeenPayments ==
  [p \in Payments |-> IF payments[p].status = "SUCCEEDED"
                      THEN [bill |-> payments[p].bill, amount |-> payments[p].amount]
                      ELSE None]

(* A step that moves no settled money credits nothing.                     *)
LEMMA StillCredits == PaymentsQuiet => SeenPayments' = SeenPayments
BY DEF PaymentsQuiet, SeenPayments

(* One bill changed in the table is one account changed.                   *)
LEMMA SeenBillsChange ==
  ASSUME NEW b \in Bills, NEW st, NEW due, NEW paid,
         \A x \in Bills \ {b} : bills'[x] = bills[x],
         bills'[b].status = st, bills'[b].due = due, bills'[b].paid = paid
  PROVE  SeenBills' = [SeenBills EXCEPT ![b] = [state |-> st, due |-> due, paid |-> paid]]
BY DEF SeenBills

(* Settling a payment credits it, whole and for the first time, to the     *)
(* account it is of.                                                       *)
LEMMA SettlesCredits ==
  ASSUME TypeInv, NEW p \in Payments, NEW b \in Bills, NEW a \in PayableVes,
         NEW sh \in Shares \cup {None}, Settles(p, b, a, sh)
  PROVE  Account!Credit(p, b, a)
<1>1. /\ IsOpen(b) /\ bills[b].paid + a <= bills[b].due
      /\ bills' = [bills EXCEPT ![b].paid = bills[b].paid + a, ![b].status = StatusAfter(b, a)]
  BY DEF Settles, ApplyToBill, BillTakes
<1>2. /\ \A x \in Bills \ {b} : bills'[x] = bills[x]
      /\ bills'[b].status = StatusAfter(b, a) /\ bills'[b].due = bills[b].due
      /\ bills'[b].paid = bills[b].paid + a
  BY <1>1 DEF TypeInv, BillsOK, BillRow, Bill
<1>3. SeenBills' = [SeenBills EXCEPT ![b] =
                      [state |-> StatusAfter(b, a), due |-> bills[b].due, paid |-> bills[b].paid + a]]
  BY <1>2, SeenBillsChange
<1>4. SeenPayments' = [SeenPayments EXCEPT ![p] = [bill |-> b, amount |-> a]]
  <2>1. PICK row \in Payment :
          /\ row.status = "SUCCEEDED" /\ row.bill = b /\ row.amount = a
          /\ payments' = [payments EXCEPT ![p] = row]
    BY DEF Settles
  <2>2. \A x \in Payments : payments'[x] = IF x = p THEN row ELSE payments[x]
    BY <2>1 DEF TypeInv, PaymentsOK
  <2> QED  BY <2>1, <2>2 DEF SeenPayments
<1>5. SeenPayments[p] = None
  BY DEF Settles, SeenPayments
<1>6. /\ SeenBills[b].state = "OPEN" /\ SeenBills[b].due = bills[b].due
      /\ SeenBills[b].paid = bills[b].paid
  BY <1>1 DEF SeenBills, IsOpen
<1> QED  BY <1>1, <1>3, <1>4, <1>5, <1>6
         DEF Account!Credit, Account!IsOpen, SeenBills, SeenPayments, StatusAfter

(* Any other step opens an account, reprices, cancels or writes one off,   *)
(* or is a stutter of the abstraction.                                     *)
LEMMA StillAccounts ==
  ASSUME TypeInv, MoneyStill, BillMove
  PROVE  Account!Next \/ UNCHANGED Account!vars
<1> USE DEF TypeInv, BillsOK, BillRow, Bill
<1>1. SeenPayments' = SeenPayments
  BY StillCredits DEF MoneyStill
<1>2. CASE bills' = bills
  <2>1. SeenBills' = SeenBills
    BY <1>2 DEF SeenBills
  <2> QED  BY <1>1, <2>1 DEF Account!vars, SeenBills, SeenPayments
<1>3. ASSUME NEW b \in Bills, NEW due \in Ves, OpenBill(b, due)
      PROVE  Account!Next
  <2>1. SeenBills' = [SeenBills EXCEPT ![b] = [state |-> "OPEN", due |-> due, paid |-> 0]]
    BY <1>3, SeenBillsChange DEF OpenBill
  <2>2. Account!Open(b, due)
    BY <1>1, <1>3, <2>1 DEF Account!Open, OpenBill, SeenBills, SeenPayments
  <2> QED  BY <2>2 DEF Account!Next, Ves, Account!Ves
<1>4. ASSUME NEW b \in Bills, NEW due \in Ves, ChangeTotal(b, due)
      PROVE  Account!Next
  <2>1. SeenBills' = [SeenBills EXCEPT ![b] =
                        [state |-> "OPEN", due |-> due, paid |-> bills[b].paid]]
    BY <1>4, SeenBillsChange DEF ChangeTotal, IsOpen
  <2>2. Account!Reprice(b, due)
    BY <1>1, <1>4, <2>1
       DEF Account!Reprice, Account!IsOpen, ChangeTotal, IsOpen, TotalAllowed, Ves, SeenBills, SeenPayments
  <2> QED  BY <2>2 DEF Account!Next, Ves, Account!Ves
<1>5. ASSUME NEW b \in Bills, SettleBill(b)
      PROVE  Account!Next
  <2>1. SeenBills' = [SeenBills EXCEPT ![b] =
                        [state |-> "CLOSED", due |-> bills[b].due, paid |-> bills[b].paid]]
    BY <1>5, SeenBillsChange DEF SettleBill
  <2>2. Account!WriteOff(b)
    BY <1>1, <1>5, <2>1 DEF Account!WriteOff, Account!IsOpen, SettleBill, IsOpen, SeenBills, SeenPayments
  <2> QED  BY <2>2 DEF Account!Next
<1>6. ASSUME NEW b \in Bills, VoidBill(b)
      PROVE  Account!Next
  <2>1. SeenBills' = [SeenBills EXCEPT ![b] =
                        [state |-> "VOID", due |-> bills[b].due, paid |-> 0]]
    BY <1>6, SeenBillsChange DEF VoidBill, Voidable
  <2>2. Account!Cancel(b)
    BY <1>1, <1>6, <2>1
       DEF Account!Cancel, Account!IsOpen, VoidBill, Voidable, IsOpen, SeenBills, SeenPayments
  <2> QED  BY <2>2 DEF Account!Next
<1>7. ASSUME NEW b \in Bills, NEW a \in PayableVes, ApplyToBill(b, a)
      PROVE  FALSE
  <2>1. bills'[b].paid = bills[b].paid + a
    BY <1>7 DEF ApplyToBill
  <2>2. bills'[b].paid = bills[b].paid
    BY DEF MoneyStill, BillsQuiet
  <2>3. bills[b].paid \in Nat /\ a \in Nat /\ a > 0
    BY MaxVesAssumption DEF Ves, PayableVes
  <2> QED  BY <2>1, <2>2, <2>3
<1> QED  BY <1>2, <1>3, <1>4, <1>5, <1>6, <1>7 DEF BillMove

(* Whatever the rails, claims, charges and plans do, to someone who sees   *)
(* only bills and settled payments it is an account that money reaches     *)
(* whole, at most once, and never past what is owed.                       *)
THEOREM ImplementsBillAccount == Spec => ImplementsAccount
<1>1. Init => Account!Init
  BY DEF Init, NoBill, NoPayment, Account!Init
<1>2. TypeInv /\ [Next]_vars => Account!Next \/ UNCHANGED Account!vars
  <2> SUFFICES ASSUME TypeInv, [Next]_vars
               PROVE  Account!Next \/ UNCHANGED Account!vars
    OBVIOUS
  <2>1. ASSUME NEW p \in Payments, NEW b \in Bills, NEW a \in PayableVes,
               NEW sh \in Shares \cup {None}, Settles(p, b, a, sh)
        PROVE  Account!Next
    <3>1. Account!Credit(p, b, a)
      BY <2>1, SettlesCredits
    <3> QED  BY <3>1 DEF Account!Next, PayableVes, Account!PayableVes
  <2> QED  BY <2>1, StillAccounts, BillMoves, MoneyMoves DEF SettlesSome
<1> QED  BY <1>1, <1>2, TypeSafe, PTL DEF Spec, ImplementsAccount, Account!Spec
=============================================================================
