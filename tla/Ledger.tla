------------------------------- MODULE Ledger -------------------------------
(***************************************************************************)
(* The settlement core: bills, the payment ledger and persistent splits,   *)
(* as the rows of the four tables bills, payments, bill_splits and         *)
(* bill_split_participants, and every transaction that moves them.         *)
(*                                                                         *)
(* One action is one committed transaction.  The code takes the bill row   *)
(* FOR UPDATE in each transaction that reads a bill and then writes it,    *)
(* the payment row FOR UPDATE in each that moves a payment, and the split  *)
(* and its shares FOR UPDATE in each that discards a split, so committed   *)
(* transactions take effect one at a time; a refused or rolled-back        *)
(* transaction changes nothing and is a stuttering step.  What the code    *)
(* does NOT protect is kept apart: a request to split a bill reads the     *)
(* bill in the route, outside any transaction (ReadBillForSplit), and      *)
(* writes the split later from what it read (CreateSplit).                 *)
(***************************************************************************)
EXTENDS Money

CONSTANTS
  Bills,      \* bill ids
  Payments,   \* payment ids
  Splits,     \* split ids
  Diners,     \* participant labels (ext_ref) within a split
  Requests,   \* requests to split a bill that may be in flight at once
  None        \* no row, no share, no draft

Shares == Splits \X Diners

ASSUME LedgerAssumption ==
  /\ IsFiniteSet(Payments) /\ IsFiniteSet(Diners)
  /\ None \notin Bills \cup Shares

VARIABLES
  bills,      \* the bills table
  payments,   \* the payments table
  splits,     \* bill_splits with its participants' amounts
  drafts      \* what each splitting request read of its bill

vars == <<bills, payments, splits, drafts>>
-----------------------------------------------------------------------------
(* The rows.  Status "NONE" is a row not inserted yet.                     *)

BillStatus == {"NONE", "OPEN", "CLOSED", "VOID"}
SplitStatus == {"NONE", "ACTIVE", "STALE", "VOID"}

(* TILL is the staff payment taken synchronously, CLAIM a declared Pago    *)
(* Móvil, C2P a charge raised against the diner's bank.                    *)
Rails == {"TILL", "CLAIM", "C2P"}
PaymentStatus ==
  {"NONE", "PENDING", "IN_DOUBT", "AMBIGUOUS", "SUCCEEDED", "FAILED"}
InFlight == {"PENDING", "IN_DOUBT", "AMBIGUOUS"}

Bill == [status : BillStatus, itemised : BOOLEAN, due : Ves, paid : Ves, adjusted : Ves]
Payment == [status : PaymentStatus, rail : Rails, bill : Bills \cup {None},
            amount : Ves, share : Shares \cup {None}]
Split == [status : SplitStatus, bill : Bills \cup {None}, basis : Ves,
          owed : [Diners -> Ves], paid : [Diners -> Ves]]
Draft == [bill : Bills, outstanding : PayableVes]

NoBill == [status |-> "NONE", itemised |-> FALSE, due |-> 0, paid |-> 0, adjusted |-> 0]
NoPayment == [status |-> "NONE", rail |-> "TILL", bill |-> None,
              amount |-> 0, share |-> None]
NoSplit == [status |-> "NONE", bill |-> None, basis |-> 0,
            owed |-> [d \in Diners |-> 0], paid |-> [d \in Diners |-> 0]]

TypeOK ==
  /\ bills \in [Bills -> Bill]
  /\ payments \in [Payments -> Payment]
  /\ splits \in [Splits -> Split]
  /\ drafts \in [Requests -> Draft \cup {None}]

Init ==
  /\ bills = [b \in Bills |-> NoBill]
  /\ payments = [p \in Payments |-> NoPayment]
  /\ splits = [s \in Splits |-> NoSplit]
  /\ drafts = [r \in Requests |-> None]
-----------------------------------------------------------------------------
(* Derived views of the tables.                                            *)

Amount == [p \in Payments |-> payments[p].amount]

(* The payments whose money is on the bill, and those on one share.  A     *)
(* refund status is never written by the program, so SUCCEEDED is the only *)
(* settled status.                                                         *)
SettledOn(b) == {p \in Payments : payments[p].status = "SUCCEEDED"
                                  /\ payments[p].bill = b}
SettledFor(sh) == {p \in Payments : payments[p].status = "SUCCEEDED"
                                    /\ payments[p].share = sh}

Remaining(b) == bills[b].due - bills[b].paid
IsOpen(b) == bills[b].status = "OPEN"
Governs(s, b) == splits[s].status = "ACTIVE" /\ splits[s].bill = b
-----------------------------------------------------------------------------
(* Opening and changing a bill.                                            *)

(* Opened with a fixed total, or at zero to have lines added: assertItemis-*)
(* able keeps the two apart for the life of the bill.                      *)
OpenBill(b, due) ==
  /\ bills[b].status = "NONE"
  /\ bills' = [bills EXCEPT ![b] =
       [status |-> "OPEN", itemised |-> due = 0, due |-> due, paid |-> 0, adjusted |-> 0]]
  /\ UNCHANGED <<payments, splits, drafts>>

(* markSplitsStale: a changed total retires the plan that divided the old. *)
Staled(b, due) ==
  [s \in Splits |-> IF Governs(s, b) /\ due # bills[b].due
                    THEN [splits[s] EXCEPT !.status = "STALE"]
                    ELSE splits[s]]

(* The total may not fall below what is already paid.                      *)
TotalAllowed(b, due) == due >= bills[b].paid

(* Adding, removing or re-counting lines, by staff or by a guest's order:  *)
(* each locks the open bill, writes its lines and recalculates the total.  *)
ChangeTotal(b, due) ==
  /\ IsOpen(b) /\ bills[b].itemised
  /\ TotalAllowed(b, due)
  /\ bills' = [bills EXCEPT ![b].due = due]
  /\ splits' = Staled(b, due)
  /\ UNCHANGED <<payments, drafts>>

(* What is left when a bill is closed by hand.                             *)
Shortfall(b) == Remaining(b)

(* A manager closes the bill and writes off what is missing.               *)
SettleBill(b) ==
  /\ IsOpen(b)
  /\ bills' = [bills EXCEPT ![b].status = "CLOSED", ![b].adjusted = Shortfall(b)]
  /\ UNCHANGED <<payments, splits, drafts>>

Voidable(b) == IsOpen(b) /\ bills[b].paid = 0

VoidBill(b) ==
  /\ Voidable(b)
  /\ bills' = [bills EXCEPT ![b].status = "VOID"]
  /\ UNCHANGED <<payments, splits, drafts>>
-----------------------------------------------------------------------------
(* The two counters every rail moves, in the transaction that settles.     *)

(* Wrong: a bill is never closed by its last payment.                      *)
StatusAfterOpen(b, a) == "OPEN"

(* applyToBill: only an open bill, never past its total, closed on exact   *)
(* equality.                                                               *)
BillTakes(b, a) == IsOpen(b) /\ bills[b].paid + a <= bills[b].due

StatusAfter(b, a) ==
  IF bills[b].paid + a = bills[b].due THEN "CLOSED" ELSE "OPEN"

ApplyToBill(b, a) ==
  /\ BillTakes(b, a)
  /\ bills' = [bills EXCEPT ![b].paid = @ + a, ![b].status = StatusAfter(b, a)]

(* advanceShare refuses a share of another bill, of a plan that is no      *)
(* longer active, and more than the share owes.                            *)
ShareTakes(sh, b, a) ==
  LET s == sh[1]  d == sh[2] IN
  /\ Governs(s, b)
  /\ splits[s].paid[d] + a <= splits[s].owed[d]

Advanced(sh, a) == [splits EXCEPT ![sh[1]].paid[sh[2]] = @ + a]

AdvanceShare(sh, b, a) ==
  \/ sh = None /\ splits' = splits
  \/ sh # None /\ ShareTakes(sh, b, a) /\ splits' = Advanced(sh, a)
-----------------------------------------------------------------------------
(* The ledger.                                                             *)

NewPayment(status, rail, b, a, sh) ==
  [status |-> status, rail |-> rail, bill |-> b, amount |-> a, share |-> sh]

(* The foreign key on split_participant_id: the share's row must exist, on *)
(* whichever bill and in whichever state its split is.                     *)
NamesShare(sh) == sh # None => splits[sh[1]].status # "NONE"

(* processSplitPayment: money taken by staff, recorded already settled.    *)
TakePayment(p, b, a, sh) ==
  /\ payments[p].status = "NONE"
  /\ NamesShare(sh)
  /\ ApplyToBill(b, a)
  /\ payments' = [payments EXCEPT ![p] = NewPayment("SUCCEEDED", "TILL", b, a, sh)]
  /\ AdvanceShare(sh, b, a)
  /\ UNCHANGED drafts

(* declareClaim and the first transaction of createC2PPayment: the same    *)
(* checks, and a PENDING row.  The balance is looked at and not reserved.  *)
Declarable(b, a) == IsOpen(b) /\ a <= Remaining(b)

Declare(rail, p, b, a, sh) ==
  /\ payments[p].status = "NONE"
  /\ NamesShare(sh)
  /\ Declarable(b, a)
  /\ payments' = [payments EXCEPT ![p] = NewPayment("PENDING", rail, b, a, sh)]
  /\ UNCHANGED <<bills, splits, drafts>>

DeclareClaim(p, b, a, sh) == Declare("CLAIM", p, b, a, sh)
SubmitC2P(p, b, a, sh) == Declare("C2P", p, b, a, sh)

(* The table of legal moves, as the service and the trigger on the table   *)
(* hold it, restricted to the statuses the program writes.                 *)
AllowedTransition ==
  [PENDING |-> {"IN_DOUBT", "AMBIGUOUS", "SUCCEEDED", "FAILED"},
   IN_DOUBT |-> {"AMBIGUOUS", "SUCCEEDED", "FAILED"},
   AMBIGUOUS |-> {"SUCCEEDED", "FAILED"},
   SUCCEEDED |-> {}, FAILED |-> {}, NONE |-> {}]

(* transitionPayment: moving to the status it already has is accepted and  *)
(* does nothing; entering SUCCEEDED credits the share.                     *)
Transition(p, status) ==
  \/ payments[p].status = status /\ UNCHANGED <<payments, splits>>
  \/ /\ status \in AllowedTransition[payments[p].status]
     /\ payments' = [payments EXCEPT ![p].status = status]
     /\ IF status = "SUCCEEDED"
        THEN AdvanceShare(payments[p].share, payments[p].bill, payments[p].amount)
        ELSE splits' = splits

(* Wrong: the settled payment goes on naming a share it never credited.    *)
DetachedKeepingShare(p) == [payments EXCEPT ![p].status = "SUCCEEDED"]

(* Money that did arrive is kept on the bill and loses the share that      *)
(* cannot take it.                                                         *)
Detached(p) == [payments EXCEPT ![p].status = "SUCCEEDED", ![p].share = None]

TransitionDetaching(p) ==
  LET sh == payments[p].share IN
  \/ Transition(p, "SUCCEEDED")
  \/ /\ "SUCCEEDED" \in AllowedTransition[payments[p].status]
     /\ sh # None /\ ~ ShareTakes(sh, payments[p].bill, payments[p].amount)
     /\ payments' = Detached(p) /\ splits' = splits

(* Wrong: the status read before the lock is trusted.                      *)
ClaimPendingUnchecked(p) == payments[p].rail = "CLAIM"

(* A claim is resolved only while it is PENDING, re-read under its lock.   *)
ClaimPending(p) == payments[p].rail = "CLAIM" /\ payments[p].status = "PENDING"

ConfirmClaim(p) ==
  /\ ClaimPending(p)
  /\ ApplyToBill(payments[p].bill, payments[p].amount)
  /\ TransitionDetaching(p)
  /\ UNCHANGED drafts

RejectClaim(p) ==
  /\ ClaimPending(p)
  /\ Transition(p, "FAILED")
  /\ UNCHANGED <<bills, drafts>>

(* What the bank's answer, or a later search of its movements, can do to a *)
(* C2P charge.  Settling is refused whole if the share refuses; the charge *)
(* is then parked for a person.                                            *)
ChargeOpen(p) ==
  payments[p].rail = "C2P" /\ payments[p].status \in {"PENDING", "IN_DOUBT"}

SettleC2P(p) ==
  /\ ChargeOpen(p)
  /\ ApplyToBill(payments[p].bill, payments[p].amount)
  /\ Transition(p, "SUCCEEDED")
  /\ UNCHANGED drafts

MarkC2P(p, status) ==
  /\ ChargeOpen(p)
  /\ Transition(p, status)
  /\ UNCHANGED <<bills, drafts>>

DoubtC2P(p) == MarkC2P(p, "IN_DOUBT")
FailC2P(p) == MarkC2P(p, "FAILED")
ParkC2P(p) == MarkC2P(p, "AMBIGUOUS")
-----------------------------------------------------------------------------
(* Splitting a bill.                                                       *)

(* The route reads the bill, and the engine divides what it read: an open  *)
(* bill with something outstanding.                                        *)
ReadBillForSplit(r, b) ==
  /\ drafts[r] = None
  /\ IsOpen(b) /\ Remaining(b) > 0
  /\ drafts' = [drafts EXCEPT ![r] = [bill |-> b, outstanding |-> Remaining(b)]]
  /\ UNCHANGED <<bills, payments, splits>>

(* Wrong: only the paid shares are looked at.                             *)
DiscardableIgnoringInFlight(s) == \A d \in Diners : splits[s].paid[d] = 0

(* discardUnpaidSplit: no share holds money and no payment that may still  *)
(* settle names one of them.                                               *)
Discardable(s) ==
  /\ \A d \in Diners : splits[s].paid[d] = 0
  /\ \A p \in Payments : payments[p].status \in InFlight
       => payments[p].share \notin ({s} \X Diners)

(* Shares that divide the basis exactly, however the mode weighs them.     *)
Allocations(basis) == {owed \in [Diners -> 0 .. basis] : TotalOf(owed, Diners) = basis}

(* createSplit's transaction: discard the live plan, write the new one     *)
(* from the draft.  The bill is not read again.                            *)
CreateSplit(r, s, owed) ==
  LET draft == drafts[r] IN
  /\ draft # None
  /\ splits[s].status = "NONE"
  /\ owed \in Allocations(draft.outstanding)
  /\ \A live \in Splits : Governs(live, draft.bill) => Discardable(live)
  /\ splits' = [x \in Splits |->
       IF x = s THEN [NoSplit EXCEPT !.status = "ACTIVE", !.bill = draft.bill,
                                     !.basis = draft.outstanding, !.owed = owed]
       ELSE IF Governs(x, draft.bill) THEN [splits[x] EXCEPT !.status = "VOID"]
       ELSE splits[x]]
  /\ drafts' = [drafts EXCEPT ![r] = None]
  /\ UNCHANGED <<bills, payments>>

(* The request ends without a split: refused, timed out or crashed.        *)
DropDraft(r) ==
  /\ drafts[r] # None
  /\ drafts' = [drafts EXCEPT ![r] = None]
  /\ UNCHANGED <<bills, payments, splits>>

VoidSplit(s) ==
  /\ splits[s].status = "ACTIVE"
  /\ Discardable(s)
  /\ splits' = [splits EXCEPT ![s].status = "VOID"]
  /\ UNCHANGED <<bills, payments, drafts>>
-----------------------------------------------------------------------------
BillStep ==
  \E b \in Bills :
    \/ \E due \in Ves : OpenBill(b, due) \/ ChangeTotal(b, due)
    \/ SettleBill(b)
    \/ VoidBill(b)

PaymentStep ==
  \E p \in Payments :
    \/ \E b \in Bills, a \in PayableVes, sh \in Shares \cup {None} :
         TakePayment(p, b, a, sh) \/ DeclareClaim(p, b, a, sh) \/ SubmitC2P(p, b, a, sh)
    \/ ConfirmClaim(p)
    \/ RejectClaim(p)
    \/ SettleC2P(p)
    \/ DoubtC2P(p)
    \/ FailC2P(p)
    \/ ParkC2P(p)

SplitStep ==
  \/ \E r \in Requests :
       \/ \E b \in Bills : ReadBillForSplit(r, b)
       \/ \E s \in Splits, owed \in [Diners -> Ves] : CreateSplit(r, s, owed)
       \/ DropDraft(r)
  \/ \E s \in Splits : VoidSplit(s)

Next == BillStep \/ PaymentStep \/ SplitStep

Spec == Init /\ [][Next]_vars
-----------------------------------------------------------------------------
(* Safety.                                                                 *)

(* Every recorded payment is money on a bill, and every share it names is  *)
(* a row of a plan: the NOT NULL and foreign keys the proofs start from.   *)
Recorded ==
  \A p \in Payments :
    /\ payments[p].status # "NONE" => payments[p].bill \in Bills /\ payments[p].amount \in PayableVes
    /\ payments[p].share # None => splits[payments[p].share[1]].status # "NONE"

(* payment_ledger_drift is always empty: the amount a bill says it has     *)
(* been paid is the sum of the settled payments on it.                     *)
LedgerAgrees ==
  \A b \in Bills : bills[b].paid = TotalOf(Amount, SettledOn(b))

(* bill_split_share_drift is always empty: what a share says it has been   *)
(* paid is the sum of the settled payments that name it, detached or       *)
(* refused ones excluded.                                                  *)
ShareAgrees ==
  \A s \in Splits, d \in Diners :
    splits[s].paid[d] = TotalOf(Amount, SettledFor(<<s, d>>))

(* No rail, in any order with the others and with edits of the bill, takes *)
(* a bill or a share past what it owes.                                    *)
NeverOverpaid ==
  /\ \A b \in Bills : bills[b].paid <= bills[b].due
  /\ \A s \in Splits, d \in Diners : splits[s].paid[d] <= splits[s].owed[d]

(* A closed bill is explained to the last céntimo, paid or written off by  *)
(* a manager, and nothing is written off a bill that is not closed.        *)
ClosedIsAccountedFor ==
  \A b \in Bills :
    /\ bills[b].status = "CLOSED" => bills[b].paid + bills[b].adjusted = bills[b].due
    /\ bills[b].status # "CLOSED" => bills[b].adjusted = 0

(* A voided bill never took a payment, and none reaches it afterwards:     *)
(* claims and charges still in flight on it cannot settle.                 *)
VoidTookNoMoney ==
  \A b \in Bills : bills[b].status = "VOID" => SettledOn(b) = {}

(* A discarded plan holds no money: "VOID: only possible while nothing had *)
(* been paid into it", whichever payments were racing with the discard.    *)
VoidPlanTookNoMoney ==
  \A s \in Splits, d \in Diners :
    splits[s].status = "VOID" => splits[s].paid[d] = 0 /\ SettledFor(<<s, d>>) = {}

(* A payment that settled a share settled the bill that share divides.     *)
SharesOfTheirBill ==
  \A p \in Payments :
    payments[p].status = "SUCCEEDED" /\ payments[p].share # None
      => splits[payments[p].share[1]].bill = payments[p].bill
-----------------------------------------------------------------------------
(* What a step may never do.                                               *)

(* No plan is discarded under a payment that may still settle against it.  *)
InFlightKeepsItsPlan ==
  [][\A p \in Payments, s \in Splits, d \in Diners :
       payments[p].status \in InFlight /\ payments[p].share = <<s, d>>
         => ~ (splits[s].status = "ACTIVE" /\ splits'[s].status = "VOID")]_vars

(* The core implements the account abstraction: the bills table is the     *)
(* account, and a payment is credited once it is SUCCEEDED.                *)
Account == INSTANCE BillAccount WITH
  account <- [b \in Bills |-> [state |-> bills[b].status,
                              due |-> bills[b].due, paid |-> bills[b].paid]],
  credits <- [p \in Payments |->
                IF payments[p].status = "SUCCEEDED"
                THEN [bill |-> payments[p].bill, amount |-> payments[p].amount]
                ELSE None]

ImplementsAccount == Account!Spec
=============================================================================
