------------------------------ MODULE MCLedger ------------------------------
(***************************************************************************)
(* Model-checking instances of the settlement core.                        *)
(***************************************************************************)
EXTENDS Ledger, TLC

Symmetry == Permutations(Payments) \cup Permutations(Splits)
              \cup Permutations(Diners) \cup Permutations(Bills)
=============================================================================
