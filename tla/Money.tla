------------------------------- MODULE Money -------------------------------
(***************************************************************************)
(* Amounts of money, in céntimos of bolívar (VES minor units).             *)
(*                                                                         *)
(* The program holds amounts in BIGINT columns and adds them with SUM() or *)
(* BigInt.  Here an amount is a natural number no larger than MaxVes, and  *)
(* a sum is counted rather than folded: the total of amount[x] over x in S *)
(* is the number of pairs <<x, c>> with c one of the céntimos 1..amount[x].*)
(* That form needs no recursion, so TLC evaluates it and TLAPS reasons     *)
(* about it with the library's theorems on finite cardinalities.           *)
(***************************************************************************)
EXTENDS Naturals, FiniteSets

CONSTANT MaxVes   \* the largest amount a column holds (BIGINT in the code)

ASSUME MaxVesAssumption == MaxVes \in Nat

(* Any amount, and an amount somebody can pay: toPaymentAmount refuses 0.  *)
Ves == 0 .. MaxVes
PayableVes == 1 .. MaxVes

(* The céntimos of the amounts of S, one pair for each.                    *)
Centimos(amount, S) == {c \in S \X PayableVes : c[2] <= amount[c[1]]}

(* SUM(amount) over S.                                                     *)
TotalOf(amount, S) == Cardinality(Centimos(amount, S))
=============================================================================
