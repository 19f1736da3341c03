------------------------------- MODULE MCHouse -------------------------------
(***************************************************************************)
(* Four parts of the house that share no state: the idempotency key of a   *)
(* request, the staff of a restaurant, the payments that diners declare,   *)
(* with the movements of the bank, and what the staff read of the money,   *)
(* which is looked at in three: who serves a bill, the tips of a shift,    *)
(* and the feed of payments. Nothing a part does depends on what another   *)
(* holds and every property here is about one of them, so a behaviour runs *)
(* a single part, and one run explores them all.                           *)
(*                                                                         *)
(* Key: three requests, two uses of the key. Staff: one restaurant, whose  *)
(* owner-to-be sent the form, and two addresses that can work there.       *)
(* Claims: two whose references end alike, and two movements, one of each  *)
(* connection; the first matches both claims unless a field tells them     *)
(* apart, the second only the claim with the longer reference; two         *)
(* processes reconcile. Reports: two payments of a bill, two waiters, a    *)
(* manager, pages of one entry.                                            *)
(***************************************************************************)
EXTENDS Idempotency, Staff, ClaimMatching, Reports, TLC

CONSTANTS r, a, b, l1, x1, x2, u1, u2,
          c1, c2, m1, m2, mercantil, statement, p1, p2, t1

VARIABLE part
house == <<part, vars, staffVars, claimVars, reportVars>>

Parts == {"KEY", "STAFF", "CLAIMS", "SERVING", "TIPS", "FEED"}

(* Nobody serves anything where that is not what is looked at.             *)
HouseInit ==
  /\ part \in Parts
  /\ Init /\ StaffInit /\ ClaimsInit /\ ReportsInit
  /\ part = "SERVING" \/ \A t \in Bills : served[t] = NoOne

HouseNext ==
  \/ part = "KEY" /\ Next /\ UNCHANGED <<part, staffVars, claimVars, reportVars>>
  \/ part = "STAFF" /\ StaffStep /\ UNCHANGED <<part, vars, claimVars, reportVars>>
  \/ part = "CLAIMS" /\ ClaimsStep /\ UNCHANGED <<part, vars, staffVars, reportVars>>
  \/ /\ \/ part = "SERVING" /\ Serving
        \/ part = "TIPS" /\ (Pass \/ Paying \/ Tips)
        \/ part = "FEED" /\ (Pass \/ Paying \/ Watching)
     /\ UNCHANGED <<part, vars, staffVars, claimVars>>

HouseSpec == HouseInit /\ [][HouseNext]_house

MCLeadOf == l1 :> [restaurant |-> r, address |-> a]
MCSource == m1 :> mercantil @@ m2 :> statement
MCKindOf == mercantil :> "MERCANTIL_P2C" @@ statement :> "STATEMENT_IMPORT"
MCDeclares ==
  c1 :> [reference |-> <<2, 3>>, amount |-> 2, bank |-> Unknown, phone |-> <<1>>, id |-> Unknown]
  @@ c2 :> [reference |-> <<1, 2, 3>>, amount |-> 2, bank |-> 1, phone |-> Unknown, id |-> 7]
MCReports ==
  m1 :> [reference |-> <<1, 2, 3>>, amount |-> 2, bank |-> 1, phone |-> <<1>>, id |-> Unknown]
  @@ m2 :> [reference |-> <<0, 2, 3>>, amount |-> 2, bank |-> Unknown, phone |-> <<1>>, id |-> 7]
MCShare == c1 :> 2 @@ c2 :> 1
MCBillOf == p1 :> t1 @@ p2 :> t1

(* Invitations, reconcilers and the requests for a bill have the same      *)
(* names.                                                                  *)
Symmetry == Permutations(Invitations) \cup Permutations(Updates)
=============================================================================
