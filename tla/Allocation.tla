----------------------------- MODULE Allocation -----------------------------
(***************************************************************************)
(* How an amount is divided exactly: by largest remainder (split.js), and  *)
(* into buckets that may not be overfilled (fiscalAllocation.js).  Weights *)
(* and parts are functions on the same finite set of indices, which are    *)
(* numbers: ties are broken in their order.                                *)
(***************************************************************************)
EXTENDS Integers, FiniteSets, Functions

SumOver(f) == FoldFunction(+, 0, f)

Only(S, f) == [i \in S |-> f[i]]

(* Every part rounded down, and the céntimos left handed one each to the   *)
(* largest remainders.  Every weight is positive.                          *)
Allocate(total, weight) ==
  LET whole == SumOver(weight)
      floor == [i \in DOMAIN weight |-> (total * weight[i]) \div whole]
      remainder == [i \in DOMAIN weight |-> (total * weight[i]) % whole]
      ahead(i) == {j \in DOMAIN weight :
                     \/ remainder[j] > remainder[i]
                     \/ remainder[j] = remainder[i] /\ j < i}
      left == total - SumOver(floor)
  IN [i \in DOMAIN weight |->
        floor[i] + (IF Cardinality(ahead(i)) < left THEN 1 ELSE 0)]

(* One round: what does not fit in a bucket is left for the next, and when *)
(* no wanted bucket has room the rest goes by the room there is.           *)
Round(cap, s) ==
  LET room == [i \in DOMAIN cap |-> cap[i] - s.part[i]]
      wanted == s.active # {}
      active == IF wanted THEN s.active ELSE {i \in DOMAIN cap : room[i] > 0}
      weight == IF wanted THEN s.weight ELSE room
      share == Allocate(s.rest, Only(active, weight))
      give == [i \in DOMAIN cap |->
                 IF i \notin active THEN 0 ELSE IF share[i] > room[i] THEN room[i] ELSE share[i]]
  IN [part   |-> [i \in DOMAIN cap |-> s.part[i] + give[i]],
      rest   |-> s.rest - SumOver(give),
      active |-> {i \in active : room[i] > give[i]},
      weight |-> weight]

(* The rounds end within two more than there are buckets, if the amount    *)
(* fits at all.                                                            *)
AllocateCapped(amount, weight, cap) ==
  LET last == Cardinality(DOMAIN cap) + 2
      state[k \in 0 .. last] ==
        IF k = 0
        THEN [part |-> [i \in DOMAIN cap |-> 0], rest |-> amount, weight |-> weight,
              active |-> {i \in DOMAIN cap : weight[i] > 0 /\ cap[i] > 0}]
        ELSE IF state[k - 1].rest = 0 THEN state[k - 1] ELSE Round(cap, state[k - 1])
  IN state[last].part
=============================================================================
