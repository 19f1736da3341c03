---------------------------- MODULE ClaimMatching ----------------------------
(***************************************************************************)
(* Declared payments meet the movements of the restaurant's bank.          *)
(*                                                                         *)
(* A diner declares a transfer (services/paymentClaims.js); a connection   *)
(* of the bank brings movements (services/bankConnections.js); a           *)
(* reconciliation looks for the one among the other and, if the owner      *)
(* trusts that connection, confirms the claim by itself                    *)
(* (services/bankReconciliation.js).  Staff confirm and reject by hand     *)
(* meanwhile.  A reconciliation reads the claims and the movements in two  *)
(* queries, outside any transaction, and writes and confirms later, claim  *)
(* by claim; several run at once.  An action is one statement or one       *)
(* transaction: whatever stands between two awaits may see others act.     *)
(***************************************************************************)
EXTENDS Matching

CONSTANTS
  Claims,        \* payments that may be declared, on one bill
  Movements,     \* what may enter the restaurant's account
  Connections,   \* where the movements come from
  KindOf,        \* what sort of connection each is
  Managed,       \* bound: the connections the owner changes
  Source,        \* the connection that reports each movement
  Declares,      \* what the diner of each claim declares
  Reports,       \* what the bank says of each movement
  Share,         \* how much of the bill each claim pays, without the tip
  BillDue,       \* what the bill owes
  Reconcilers,   \* processes that ingest and reconcile
  MaxMovementsPerCall

ASSUME ClaimMatchingAssumption ==
  /\ IsFiniteSet(Claims) /\ IsFiniteSet(Movements)
  /\ NoMovement \notin Claims \cup Movements
  /\ Source \in [Movements -> Connections] /\ Managed \subseteq Connections
  /\ KindOf \in [Connections -> {"WEBHOOK", "MERCANTIL_P2C", "STATEMENT_IMPORT"}]
  /\ Share \in [Claims -> Nat \ {0}] /\ BillDue \in Nat
  /\ MaxMovementsPerCall \in Nat \ {0}

VARIABLES
  claims,      \* payments: status, and who confirmed
  movements,   \* bank_movements: stored, within the window, the claim it backs
  verdicts,    \* payment_bank_matches
  trust,       \* bank_connections: active, auto_confirm
  paidVes,        \* bills.amount_paid_ves
  work         \* what each process is at

claimVars == <<claims, movements, verdicts, trust, paidVes, work>>

-----------------------------------------------------------------------------
(* The rows, and where a process stands.                                   *)

ClaimStatus == {"NONE", "PENDING", "SUCCEEDED", "FAILED"}
ClaimRow == [status : ClaimStatus, via : {"NOBODY", "STAFF", "BANK"}]
Movement == [stored : BOOLEAN, recent : BOOLEAN, backs : Claims \cup {NoMovement}]
Outcomes == {"NOT_CHECKED", "MATCHED", "MISMATCH", "AMBIGUOUS", "NOT_FOUND"}
MatchRow == [outcome : Outcomes, movement : Movements \cup {NoMovement}]

(* rows: what an import has yet to store.  reads: the queries still to     *)
(* make.  pending, open, trusted: what they returned.  write, confirm: the *)
(* decisions yet to be written and acted on.                               *)
Work == [step : {"IDLE", "STORE", "READ", "WRITE", "CONFIRM"},
         rows : SUBSET Movements, reads : SUBSET {"claims", "movements"},
         pending : SUBSET Claims, open : SUBSET Movements, trusted : SUBSET Movements,
         decided : [Claims -> MatchRow], write : SUBSET Claims, confirm : SUBSET Claims]

NotChecked == [outcome |-> "NOT_CHECKED", movement |-> NoMovement]

AtRest == [step |-> "IDLE", rows |-> {}, reads |-> {}, pending |-> {}, open |-> {},
         trusted |-> {}, decided |-> [c \in Claims |-> NotChecked], write |-> {}, confirm |-> {}]
Reading == [AtRest EXCEPT !.step = "READ", !.reads = {"claims", "movements"}]
Storing(S) == [AtRest EXCEPT !.step = "STORE", !.rows = S]

ClaimsTypeOK ==
  /\ claims \in [Claims -> ClaimRow]
  /\ movements \in [Movements -> Movement]
  /\ verdicts \in [Claims -> MatchRow]
  /\ trust \in [Connections -> [active : BOOLEAN, auto : BOOLEAN]]
  /\ paidVes \in 0 .. BillDue
  /\ work \in [Reconcilers -> Work]

ClaimsInit ==
  /\ claims = [c \in Claims |-> [status |-> "NONE", via |-> "NOBODY"]]
  /\ movements = [m \in Movements |-> [stored |-> FALSE, recent |-> TRUE, backs |-> NoMovement]]
  /\ verdicts = [c \in Claims |-> NotChecked]
  /\ trust = [k \in Connections |-> [active |-> TRUE, auto |-> FALSE]]
  /\ paidVes = 0
  /\ work = [r \in Reconcilers |-> AtRest]

-----------------------------------------------------------------------------
(* Views of the tables.                                                    *)

Pending == {c \in Claims : claims[c].status = "PENDING"}
Live(c) == claims[c].status \in {"PENDING", "SUCCEEDED"}

(* The movements a claim may be matched with: stored, unused, of the last  *)
(* seven days and of a connection that is in service.                      *)
OpenMovements ==
  {m \in Movements : /\ movements[m].stored /\ movements[m].recent
                     /\ movements[m].backs = NoMovement /\ trust[Source[m]].active}
Trusted(S) == {m \in S : trust[Source[m]].auto}

(* What is decided of a set of claims and a set of movements.              *)
Decided(C, M) == Decide([c \in C |-> Declares[c]], [m \in M |-> Reports[m]])

-----------------------------------------------------------------------------
(* The diner and the staff.                                                *)

(* The reference of a live claim is spoken for (a partial unique index),   *)
(* and the sum must fit what the bill still owes.                          *)
MayDeclare(c) ==
  /\ claims[c].status = "NONE"
  /\ paidVes + Share[c] <= BillDue /\ paidVes < BillDue
  /\ \A o \in Claims : Live(o) => Declares[o].reference # Declares[c].reference

(* Wrong: a declared claim is not looked at until the bank says something. *)
AfterClaimNothing(r) == work[r]

(* reconcileAfterClaim: only a restaurant with a connection looks.         *)
AfterClaim(r) ==
  IF \E k \in Connections : trust[k].active THEN Reading ELSE work[r]

Declare(c, r) ==
  /\ MayDeclare(c) /\ work[r] = AtRest
  /\ claims' = [claims EXCEPT ![c].status = "PENDING"]
  /\ work' = [work EXCEPT ![r] = AfterClaim(r)]
  /\ UNCHANGED <<movements, verdicts, trust, paidVes>>

(* applyToBill: the bill is open and takes no more than it owes.           *)
BillTakes(c) == paidVes < BillDue /\ paidVes + Share[c] <= BillDue

Settle(c, via) ==
  /\ claims[c].status = "PENDING" /\ BillTakes(c)
  /\ claims' = [claims EXCEPT ![c] = [status |-> "SUCCEEDED", via |-> via]]
  /\ paidVes' = paidVes + Share[c]

(* Another rail pays the rest of the bill.                                 *)
PayAtTill ==
  /\ paidVes < BillDue
  /\ paidVes' = BillDue
  /\ UNCHANGED <<claims, movements, verdicts, trust, work>>

(* By hand: the movement suggested for this claim is used up with it, if   *)
(* nobody has used it before.                                              *)
Suggested(c) ==
  {m \in Movements : verdicts[c].outcome = "MATCHED" /\ verdicts[c].movement = m
                     /\ movements[m].backs = NoMovement}

ConfirmByHand(c) ==
  /\ Settle(c, "STAFF")
  /\ movements' = [m \in Movements |-> IF m \in Suggested(c)
                                       THEN [movements[m] EXCEPT !.backs = c]
                                       ELSE movements[m]]
  /\ UNCHANGED <<verdicts, trust, work>>

Reject(c) ==
  /\ claims[c].status = "PENDING"
  /\ claims' = [claims EXCEPT ![c].status = "FAILED"]
  /\ UNCHANGED <<movements, verdicts, trust, paidVes, work>>

-----------------------------------------------------------------------------
(* The bank's connections.                                                 *)

(* The rows that could be read, of one connection in service.  Any of them *)
(* may have come before.                                                   *)
Receive(r, k, S) ==
  /\ work[r] = AtRest /\ trust[k].active
  /\ \A m \in S : Source[m] = k
  /\ work' = [work EXCEPT ![r] = Storing(S)]
  /\ UNCHANGED <<claims, movements, verdicts, trust, paidVes>>

(* An upload or a signed POST.                                             *)
ReceiveRows(r, k, S) ==
  /\ KindOf[k] \in {"STATEMENT_IMPORT", "WEBHOOK"}
  /\ Cardinality(S) \in 1 .. MaxMovementsPerCall
  /\ Receive(r, k, S)

(* The bank itself, one payment at a time.                                 *)
MercantilInbound(r, k, m) == KindOf[k] = "MERCANTIL_P2C" /\ Receive(r, k, {m})

(* One INSERT per row.  A reference with its sum is stored once.           *)
Known(m) ==
  \E o \in Movements : /\ movements[o].stored
                       /\ Reports[o].reference = Reports[m].reference
                       /\ Reports[o].amount = Reports[m].amount

StoreRow(r, m) ==
  /\ work[r].step = "STORE" /\ m \in work[r].rows
  /\ work' = [work EXCEPT ![r] = IF work[r].rows = {m} THEN Reading
                                 ELSE [work[r] EXCEPT !.rows = @ \ {m}]]
  /\ movements' = [movements EXCEPT ![m].stored = @ \/ ~Known(m)]
  /\ UNCHANGED <<claims, verdicts, trust, paidVes>>

(* The owner trusts a connection, stops trusting it, or removes it.  Only  *)
(* the first looks at the claims that wait.  updateConnection writes back  *)
(* the whole row it read; here no two of an owner's changes overlap.       *)
SetAuto(k, r, auto) ==
  /\ k \in Managed /\ trust[k].active /\ trust[k].auto # auto /\ work[r] = AtRest
  /\ trust' = [trust EXCEPT ![k].auto = auto]
  /\ work' = [work EXCEPT ![r] = IF auto THEN Reading ELSE @]
  /\ UNCHANGED <<claims, movements, verdicts, paidVes>>

Remove(k) ==
  /\ k \in Managed /\ trust[k].active
  /\ trust' = [trust EXCEPT ![k].active = FALSE]
  /\ UNCHANGED <<claims, movements, verdicts, paidVes, work>>

(* A week passes over a movement nobody claimed; no request lasts so long. *)
Age(m) ==
  /\ \A r \in Reconcilers : work[r] = AtRest
  /\ movements[m].stored /\ movements[m].recent /\ movements[m].backs = NoMovement
  /\ movements' = [movements EXCEPT ![m].recent = FALSE]
  /\ UNCHANGED <<claims, verdicts, trust, paidVes, work>>

-----------------------------------------------------------------------------
(* A reconciliation.  Two queries in flight together, answered in either   *)
(* order; with both answers, everything is decided.                        *)

(* The claims to confirm are those matched with a movement that was trusted*)
(* when it was read.                                                       *)
Answered(w, q) ==
  LET left == w.reads \ {q}
      d == Decided(w.pending, w.open)
  IN  IF left # {} THEN [w EXCEPT !.reads = left]
      ELSE IF w.pending = {} THEN AtRest
      ELSE [AtRest EXCEPT
              !.step = "WRITE", !.write = w.pending,
              !.decided = [c \in Claims |-> IF c \in w.pending THEN d[c] ELSE NotChecked],
              !.confirm = {c \in w.pending : d[c].outcome = "MATCHED"
                                             /\ d[c].movement \in w.trusted}]

ReadClaims(r) ==
  /\ work[r].step = "READ" /\ "claims" \in work[r].reads
  /\ work' = [work EXCEPT ![r] = Answered([@ EXCEPT !.pending = Pending], "claims")]
  /\ UNCHANGED <<claims, movements, verdicts, trust, paidVes>>

ReadMovements(r) ==
  /\ work[r].step = "READ" /\ "movements" \in work[r].reads
  /\ work' = [work EXCEPT ![r] =
       Answered([@ EXCEPT !.open = OpenMovements, !.trusted = Trusted(OpenMovements)], "movements")]
  /\ UNCHANGED <<claims, movements, verdicts, trust, paidVes>>

(* The loop is over: the next one, or nothing left to do.                  *)
Rest(w) == IF w.write # {} THEN w
           ELSE IF w.confirm # {} THEN [w EXCEPT !.step = "CONFIRM"] ELSE AtRest

WriteVerdict(r, c) ==
  /\ work[r].step = "WRITE" /\ c \in work[r].write
  /\ verdicts' = [verdicts EXCEPT ![c] = work[r].decided[c]]
  /\ work' = [work EXCEPT ![r] = Rest([work[r] EXCEPT !.write = @ \ {c}])]
  /\ UNCHANGED <<claims, movements, trust, paidVes>>

(* Wrong: the movement is taken whoever it backs.                          *)
FreeAlways(m) == TRUE
Free(m) == movements[m].backs = NoMovement

(* confirmClaim for the bank: the movement has to be free, or the whole    *)
(* confirmation is undone.                                                 *)
ConfirmByBank(r, c) ==
  /\ work[r].step = "CONFIRM" /\ c \in work[r].confirm
  /\ LET m == work[r].decided[c].movement IN
     /\ Settle(c, "BANK") /\ Free(m)
     /\ movements' = [movements EXCEPT ![m].backs = c]
  /\ work' = [work EXCEPT ![r] = Rest([work[r] EXCEPT !.confirm = @ \ {c}])]
  /\ UNCHANGED <<verdicts, trust>>

(* Somebody resolved the claim, closed the bill or used the movement in    *)
(* between: the claim is skipped.                                          *)
SkipClaim(r, c) ==
  /\ work[r].step = "CONFIRM" /\ c \in work[r].confirm
  /\ \/ claims[c].status # "PENDING"
     \/ ~BillTakes(c)
     \/ ~Free(work[r].decided[c].movement)
  /\ work' = [work EXCEPT ![r] = Rest([work[r] EXCEPT !.confirm = @ \ {c}])]
  /\ UNCHANGED <<claims, movements, verdicts, trust, paidVes>>

-----------------------------------------------------------------------------
ClaimsStep ==
  \/ PayAtTill
  \/ \E c \in Claims : ConfirmByHand(c) \/ Reject(c)
  \/ \E r \in Reconcilers, c \in Claims :
       Declare(c, r) \/ WriteVerdict(r, c) \/ ConfirmByBank(r, c) \/ SkipClaim(r, c)
  \/ \E r \in Reconcilers, k \in Connections :
       \/ \E S \in SUBSET Movements : ReceiveRows(r, k, S)
       \/ \E m \in Movements : MercantilInbound(r, k, m)
       \/ \E auto \in BOOLEAN : SetAuto(k, r, auto)
  \/ \E r \in Reconcilers, m \in Movements : StoreRow(r, m)
  \/ \E r \in Reconcilers : ReadClaims(r) \/ ReadMovements(r)
  \/ \E k \in Connections : Remove(k)
  \/ \E m \in Movements : Age(m)

ClaimsSpec == ClaimsInit /\ [][ClaimsStep]_claimVars

-----------------------------------------------------------------------------
(* Properties.                                                             *)

(* What the bank confirms, a movement backs that says the same in every    *)
(* field and backs nothing else: confirmClaim's rowCount check, under any  *)
(* number of reconciliations deciding from old reads.                      *)
BankConfirmsWithItsMovement ==
  \A c \in Claims : claims[c].via = "BANK" =>
    \E m \in Movements :
      /\ movements[m].backs = c
      /\ ReferenceAgrees(Declares[c].reference, Reports[m].reference)
      /\ Disagreements(Declares[c], Reports[m]) = {}

(* The claims that are, now, matched with a movement that is trusted, and  *)
(* that the bill would take.                                               *)
Overlooked ==
  {c \in Pending : /\ Decided(Pending, OpenMovements)[c].movement \in Trusted(OpenMovements)
                   /\ Decided(Pending, OpenMovements)[c].outcome = "MATCHED"
                   /\ BillTakes(c)}

(* A claim and the movement that pays it do not miss each other: whichever *)
(* is committed last looks for the other (reconcileAfterClaim, ingest and  *)
(* the switch of updateConnection), so when nothing is running no claim is *)
(* left with a movement that would confirm it.  A claim that was rejected, *)
(* a movement that went to another or grew old and a connection that was   *)
(* removed settle a doubt without anybody looking again, and are excepted; *)
(* nothing is said of a process that dies.                                 *)
NothingOverlooked ==
  (/\ \A r \in Reconcilers : work[r] = AtRest
   /\ \A c \in Claims : claims[c].status \in {"NONE", "PENDING"}
   /\ \A m \in Movements : movements[m].recent
   /\ \A k \in Connections : trust[k].active)
  => Overlooked = {}
=============================================================================
