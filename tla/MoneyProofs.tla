---------------------------- MODULE MoneyProofs ----------------------------
(***************************************************************************)
(* Facts about totals: how the sum of a column moves when a row joins it.  *)
(* They are all the arithmetic of money that the ledger's theorems need.   *)
(***************************************************************************)
EXTENDS Money, FiniteSetTheorems, TLAPS

(* A total over finitely many rows is a natural number: SUM() of a finite  *)
(* table is defined.                                                       *)
LEMMA TotalType ==
  ASSUME NEW S, IsFiniteSet(S), NEW f
  PROVE  IsFiniteSet(Centimos(f, S)) /\ TotalOf(f, S) \in Nat
<1>1. IsFiniteSet(PayableVes)
  BY FS_Interval, MaxVesAssumption DEF PayableVes
<1>2. IsFiniteSet(S \X PayableVes)
  BY <1>1, FS_Product
<1>3. Centimos(f, S) \in SUBSET (S \X PayableVes)
  BY DEF Centimos
<1>4. IsFiniteSet(Centimos(f, S))
  BY <1>2, <1>3, FS_Subset
<1> QED  BY <1>4, FS_CardinalityType DEF TotalOf

(* The total of no row is zero, as COALESCE(SUM(..), 0) has it.            *)
LEMMA TotalEmpty ==
  ASSUME NEW f
  PROVE  TotalOf(f, {}) = 0
<1>1. Centimos(f, {}) = {}
  BY DEF Centimos
<1> QED  BY <1>1, FS_EmptySet DEF TotalOf

(* Only the rows counted matter: other rows may be inserted or changed.    *)
LEMMA TotalSame ==
  ASSUME NEW S, NEW f, NEW g, \A x \in S : f[x] = g[x]
  PROVE  TotalOf(f, S) = TotalOf(g, S)
<1>1. Centimos(f, S) = Centimos(g, S)
  BY DEF Centimos
<1> QED  BY <1>1 DEF TotalOf

(* The céntimos of one row are as many as its amount.                      *)
LEMMA TotalOfOne ==
  ASSUME NEW x, NEW f, f[x] \in Ves
  PROVE  IsFiniteSet(Centimos(f, {x})) /\ TotalOf(f, {x}) = f[x]
<1>1. PICK n \in Nat : n = f[x] /\ n <= MaxVes
  BY MaxVesAssumption DEF Ves
<1>2. Centimos(f, {x}) = {x} \X (1 .. n)
  BY <1>1, MaxVesAssumption DEF Centimos, PayableVes
<1>3. IsFiniteSet({x}) /\ Cardinality({x}) = 1
  BY FS_Singleton
<1>4. IsFiniteSet(1 .. n) /\ Cardinality(1 .. n) = n
  <2>1. IsFiniteSet(1 .. n) /\ Cardinality(1 .. n) = IF 1 > n THEN 0 ELSE n - 1 + 1
    BY FS_Interval
  <2> QED  BY <2>1
<1>5. IsFiniteSet({x} \X (1 .. n)) /\ Cardinality({x} \X (1 .. n)) = 1 * n
  <2>1. /\ IsFiniteSet({x} \X (1 .. n))
        /\ Cardinality({x} \X (1 .. n)) = Cardinality({x}) * Cardinality(1 .. n)
    BY <1>3, <1>4, FS_Product, Zenon
  <2> QED  BY <2>1, <1>3, <1>4, Zenon
<1>6. 1 * n = n
  OBVIOUS
<1>7. IsFiniteSet(Centimos(f, {x})) /\ Cardinality(Centimos(f, {x})) = n
  BY <1>2, <1>5, <1>6, Zenon
<1> QED  BY <1>1, <1>7 DEF TotalOf

(* A row that joins the rows counted adds its amount, once.                *)
LEMMA TotalAdd ==
  ASSUME NEW S, IsFiniteSet(S), NEW x, x \notin S, NEW f, f[x] \in Ves
  PROVE  TotalOf(f, S \cup {x}) = TotalOf(f, S) + f[x]
<1>1. Centimos(f, S \cup {x}) = Centimos(f, S) \cup Centimos(f, {x})
  BY DEF Centimos
<1>2. Centimos(f, S) \cap Centimos(f, {x}) = {}
  BY DEF Centimos
<1>3. IsFiniteSet(Centimos(f, S)) /\ IsFiniteSet(Centimos(f, {x}))
  BY TotalType, TotalOfOne
<1>4. Cardinality(Centimos(f, S \cup {x}))
        = Cardinality(Centimos(f, S)) + Cardinality(Centimos(f, {x})) - Cardinality({})
  BY <1>1, <1>2, <1>3, FS_Union
<1> QED  BY <1>3, <1>4, TotalType, TotalOfOne, FS_EmptySet, MaxVesAssumption DEF TotalOf, Ves

(* If the total is zero no row counted has an amount: a bill that received *)
(* nothing has no settled payment.                                         *)
LEMMA TotalZero ==
  ASSUME NEW S, IsFiniteSet(S), NEW f, TotalOf(f, S) = 0, NEW x \in S
  PROVE  f[x] \notin PayableVes
<1>1. Centimos(f, S) = {}
  BY TotalType, FS_EmptySet DEF TotalOf
<1>2. ASSUME f[x] \in PayableVes
      PROVE  <<x, 1>> \in Centimos(f, S)
  BY <1>2, MaxVesAssumption DEF Centimos, PayableVes
<1> QED  BY <1>1, <1>2
=============================================================================
