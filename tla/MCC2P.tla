------------------------------- MODULE MCC2P -------------------------------
(***************************************************************************)
(* Model-checking instances of the C2P rail.                               *)
(***************************************************************************)
EXTENDS C2P, TLC

Symmetry == Permutations(Charges) \cup Permutations(Payers) \cup Permutations(Resolvers)
=============================================================================
