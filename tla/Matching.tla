------------------------------ MODULE Matching ------------------------------
(***************************************************************************)
(* Is this movement of the bank the payment the diner declared?            *)
(*                                                                         *)
(* The pure rules that decide it: payments/validation/match.js compares    *)
(* one claim with the movements, bankReconciliation.js decides for all the *)
(* pending claims at once.  A reference, a phone and an identity document  *)
(* are sequences of digits, as bankMovementNormalizer.js leaves them; a    *)
(* field that one side did not give is Unknown.                            *)
(***************************************************************************)
EXTENDS Integers, Sequences, FiniteSets

CONSTANTS
  MinReferenceDigits,   \* how long a common ending must be to mean anything
  PhoneDigits,          \* how many last digits tell two phones apart
  NoMovement,                 \* no movement
  Unknown               \* a field that was not given

ASSUME MatchingAssumption ==
  MinReferenceDigits \in Nat \ {0} /\ PhoneDigits \in Nat \ {0}

(* The last n digits, and whether two numbers end alike: the shorter of    *)
(* the two says how much can be compared.                                  *)
Tail_(s, n) == SubSeq(s, Len(s) - n + 1, Len(s))
Shorter(a, b) == IF Len(a) <= Len(b) THEN Len(a) ELSE Len(b)

ReferenceAgrees(declared, reported) ==
  LET n == Shorter(declared, reported)
  IN  n >= MinReferenceDigits /\ Tail_(declared, n) = Tail_(reported, n)

PhoneAgrees(declared, reported) ==
  /\ Shorter(declared, reported) >= PhoneDigits
  /\ Tail_(declared, PhoneDigits) = Tail_(reported, PhoneDigits)

(* What the bank says against it.  The sum has no tolerance; what either   *)
(* side does not know is not held against it.                              *)
BothKnow(a, b) == a # Unknown /\ b # Unknown

Disagreements(claim, movement) ==
  {f \in {"amount", "bank", "phone", "id"} :
     CASE f = "amount" -> movement.amount # claim.amount
       [] f = "bank"   -> BothKnow(movement.bank, claim.bank) /\ movement.bank # claim.bank
       [] f = "phone"  -> BothKnow(movement.phone, claim.phone)
                          /\ ~PhoneAgrees(claim.phone, movement.phone)
       [] f = "id"     -> BothKnow(movement.id, claim.id) /\ movement.id # claim.id}

-----------------------------------------------------------------------------
(* One claim among the movements.  reports maps the movements that are     *)
(* looked at to what the bank said of them.                                *)

Candidates(claim, reports) ==
  {m \in DOMAIN reports : ReferenceAgrees(claim.reference, reports[m].reference)}

Exact(claim, reports) ==
  {m \in Candidates(claim, reports) : Disagreements(claim, reports[m]) = {}}

(* Sorted by the number of disagreements, any of the least.                *)
Closest(claim, reports) ==
  LET Bad(m) == Cardinality(Disagreements(claim, reports[m]))
  IN  CHOOSE m \in Candidates(claim, reports) :
        \A o \in Candidates(claim, reports) : Bad(m) <= Bad(o)

Verdict(outcome, movement) == [outcome |-> outcome, movement |-> movement]

MatchClaim(claim, reports) ==
  LET exact == Exact(claim, reports) IN
  CASE Candidates(claim, reports) = {} -> Verdict("NOT_FOUND", NoMovement)
    [] Cardinality(exact) > 1          -> Verdict("AMBIGUOUS", NoMovement)
    [] Cardinality(exact) = 1          -> Verdict("MATCHED", CHOOSE m \in exact : TRUE)
    [] OTHER                           -> Verdict("MISMATCH", Closest(claim, reports))

(* All the pending claims at once: a movement that would confirm two of    *)
(* them confirms neither.  claims maps the claims to what was declared.    *)
Wanting(claims, reports, m) ==
  {c \in DOMAIN claims : MatchClaim(claims[c], reports) = Verdict("MATCHED", m)}

Decide(claims, reports) ==
  [c \in DOMAIN claims |->
     LET v == MatchClaim(claims[c], reports)
     IN  IF v.outcome = "MATCHED" /\ Wanting(claims, reports, v.movement) # {c}
         THEN Verdict("AMBIGUOUS", NoMovement) ELSE v]
=============================================================================
