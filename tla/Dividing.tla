------------------------------ MODULE Dividing ------------------------------
(***************************************************************************)
(* The arithmetic of a bill from its lines to its invoices: the totals     *)
(* (billItems.js, money.js), how the people at the table divide what is    *)
(* left of it (splitEngine.js), and what each payment declares             *)
(* (stateForBill, fiscalAllocation.js, fiscalInvoiceBuilder.js).           *)
(*                                                                         *)
(* Amounts are céntimos, the menu's currency has as many to the unit, and  *)
(* a rate of exchange is an integer over RateScale (10^8 in the program).  *)
(* The lines are fixed here: Tables and Ledger have the orders and the     *)
(* concurrency, Fiscal the failures of an issue.  People, lines and claims *)
(* come in the order of their numbers, which is how ties are broken.       *)
(***************************************************************************)
EXTENDS Allocation, Sequences

CONSTANTS
  People,      \* numbers 1, 2, ...
  Carts,       \* sequences of [price, units, category, bps]: what may be ordered
  Vats,        \* the VAT rates in use, a sequence in ascending order: bps
  GeneralBps,  \* bills.vat_bps
  ServiceBps,  \* possible service charges
  FxRates, RateScale,
  Some,        \* amounts somebody may choose to pay
  Parts,       \* a céntimo among any of the people is a whole number of these
  Nothing

ASSUME DividingAssumption ==
  /\ IsFiniteSet(People) /\ People \subseteq Nat
  /\ RateScale \in Nat \ {0} /\ FxRates \subseteq Nat \ {0}
  /\ Some \subseteq Nat \ {0} /\ ServiceBps \subseteq Nat
  /\ Parts \in Nat \ {0} /\ \A n \in 1 .. Cardinality(People) : Parts % n = 0

VARIABLES
  bill,      \* its lines and its totals, see Bill
  split,     \* the plan: Nothing, or [mode, of, claims, amount]
  paid,      \* what each person paid, or Nothing
  linked,    \* does the payment settle its payer's share of the plan?
  declared   \* the invoice of each payment, or Nothing
dividingVars == <<bill, split, paid, linked, declared>>

DivideRound(n, d) == (n + d \div 2) \div d
ApplyBps(x, bps) == DivideRound(x * bps, 10000)
ApplyRate(x, fx) == DivideRound(x * fx, RateScale)

AllocateWithZeros(total, weight) ==
  LET some == {i \in DOMAIN weight : weight[i] > 0}
      part == Allocate(total, Only(some, weight))
  IN [i \in DOMAIN weight |-> IF i \in some THEN part[i] ELSE 0]

Even(S) == [i \in S |-> 1]

-----------------------------------------------------------------------------
(* The bill.  What it declares is held in slots: the base of a rate        *)
(* (2k - 1), its VAT (2k), and the service (the last).                     *)

Groups == DOMAIN Vats
ServiceGroup == Len(Vats) + 1
Slots == 1 .. 2 * Len(Vats) + 1
Base(k) == 2 * k - 1
Vat(k) == 2 * k

(* The VAT a line is frozen with.                                          *)
LineBps(l) ==
  IF l.category # "TAXABLE" THEN 0 ELSE IF l.bps = Nothing THEN GeneralBps ELSE l.bps

(* The CHECKs of bill_items, and that Vats are the rates of its lines.      *)
ASSUME CartsAssumption ==
  /\ Vats \in Seq(Nat) /\ \A k, j \in DOMAIN Vats : Vats[k] = Vats[j] => k = j
  /\ \A lines \in Carts :
       /\ lines \in Seq([price : Nat, units : Nat \ {0}, category : STRING, bps : Nat \cup {Nothing}])
       /\ \A i \in DOMAIN lines : \E k \in DOMAIN Vats : Vats[k] = LineBps(lines[i])

LinesAt(rate, k) == {i \in DOMAIN rate : rate[i] = Vats[k]}
Worth(subtotal, S) == SumOver(Only(S, subtotal))

(* Wrong: line by line, the rounding is another.                           *)
VatLineByLine(subtotal, S, bps) == SumOver([i \in S |-> ApplyBps(subtotal[i], bps)])

(* The VAT of a rate is taken once, on all of its lines.                   *)
VatOn(subtotal, S, bps) == ApplyBps(Worth(subtotal, S), bps)

(* stateFromLines; and toVes when the menu is in another currency.         *)
InMinor(subtotal, rate, service) ==
  [s \in Slots |-> IF s = Base(ServiceGroup) THEN service
                   ELSE LET k == (s + 1) \div 2
                        IN IF s = Base(k) THEN Worth(subtotal, LinesAt(rate, k))
                           ELSE VatOn(subtotal, LinesAt(rate, k), Vats[k])]
ToVes(minor, due, fx) ==
  IF fx = RateScale \/ SumOver(minor) = 0 THEN minor ELSE AllocateWithZeros(due, minor)

(* recalculateTotals.                                                      *)
TotalDue(subtotal, rate, service, fx) ==
  ApplyRate(SumOver(subtotal) + service
            + SumOver([k \in Groups |-> ApplyBps(Worth(subtotal, LinesAt(rate, k)), Vats[k])]), fx)

Bill(lines, fx, bps) ==
  LET subtotal == [i \in DOMAIN lines |-> lines[i].price * lines[i].units]
      rate == [i \in DOMAIN lines |-> LineBps(lines[i])]
      service == ApplyBps(SumOver(subtotal), bps)
      due == TotalDue(subtotal, rate, service, fx)
  IN [units |-> [i \in DOMAIN lines |-> lines[i].units], subtotal |-> subtotal, rate |-> rate,
      due |-> due, slots |-> ToVes(InMinor(subtotal, rate, service), due, fx)]

Lines == DOMAIN bill.units
Paid == SumOver([p \in {q \in People : paid[q] # Nothing} |-> paid[p]])
Outstanding == bill.due - Paid

-----------------------------------------------------------------------------
(* Dividing what is left among people.                                     *)

(* The claims on a line, each [people, units]; without units it would be   *)
(* one on all of them.                                                     *)
(* Wrong: keyed by its line, a second claim replaces the first.            *)
TheLast(claims) == <<claims[Len(claims)]>>
Grouped(claims) == claims
Complete(claims) ==
  \A i \in Lines :
    SumOver([k \in DOMAIN claims[i] |-> claims[i][k].units]) = bill.units[i]

(* The balance over the lines by their worth, a line's part over its       *)
(* claims by units, and a claim's part over its people evenly.             *)
ByItems(who, claims) ==
  LET ofLine == AllocateWithZeros(Outstanding, bill.subtotal)
      ofClaim(i) == LET c == Grouped(claims[i])
                    IN AllocateWithZeros(ofLine[i], [k \in DOMAIN c |-> c[k].units])
      owed(p, i) == LET c == Grouped(claims[i])
                        mine == {k \in DOMAIN c : p \in c[k].people}
                    IN SumOver([k \in mine |-> Allocate(ofClaim(i)[k], Even(c[k].people))[p]])
  IN [p \in who |-> SumOver([i \in Lines |-> owed(p, i)])]

NoClaims == [i \in Lines |-> <<>>]
Plan(mode, claims, amount) ==
  split' = [mode |-> mode, of |-> Outstanding, claims |-> claims, amount |-> amount]

(* A plan can be made while something is left to pay.                      *)
Divisible == split = Nothing /\ Outstanding > 0

SplitFull(p) == Divisible /\ Plan("FULL", NoClaims, [q \in {p} |-> Outstanding])
SplitEqually(who) == Divisible /\ Plan("EQUAL", NoClaims, Allocate(Outstanding, Even(who)))
SplitCustom(amount) ==
  Divisible /\ SumOver(amount) = Outstanding /\ Plan("CUSTOM", NoClaims, amount)
SplitByItems(who, claims) ==
  /\ Divisible /\ Complete(claims)
  /\ \A i \in Lines : \A k \in DOMAIN claims[i] : claims[i][k].people \subseteq who
  /\ Plan("ITEMS", claims, ByItems(who, claims))

Claims(who, i) ==
  LET one == [people : (SUBSET who) \ {{}}, units : 1 .. bill.units[i]]
  IN {<<>>} \cup {<<c>> : c \in one} \cup {<<c, d>> : c, d \in one}

PreviewSplit ==
  /\ \/ \E p \in People : SplitFull(p)
     \/ \E who \in (SUBSET People) \ {{}} :
          \/ SplitEqually(who)
          \/ \E first \in Claims(who, 1), last \in Claims(who, Cardinality(Lines)) :
               SplitByItems(who, [i \in Lines |-> IF i = 1 THEN first ELSE last])
     \/ \E p, q \in People : \E a \in Some \cup {0} :
          p # q /\ a <= Outstanding /\ SplitCustom([r \in {p, q} |-> IF r = p THEN a ELSE Outstanding - a])
  /\ UNCHANGED <<bill, paid, linked, declared>>

Pay(p, amount, share) ==
  /\ paid[p] = Nothing /\ amount > 0 /\ amount <= Outstanding
  /\ paid' = [paid EXCEPT ![p] = amount]
  /\ linked' = [linked EXCEPT ![p] = share]
  /\ UNCHANGED <<bill, split, declared>>

PayShare(p) ==
  split # Nothing /\ p \in DOMAIN split.amount /\ Pay(p, split.amount[p], TRUE)
PayFreely(p, amount) == split = Nothing /\ Pay(p, amount, FALSE)

-----------------------------------------------------------------------------
(* What the payments declare.                                              *)

Invoiced == {p \in People : declared[p] # Nothing}
Undeclared == [s \in Slots |-> bill.slots[s] - SumOver([p \in Invoiced |-> declared[p].slots[s]])]

GroupLeft(left) ==
  [k \in Groups \cup {ServiceGroup} |->
     IF k = ServiceGroup THEN left[Base(k)] ELSE left[Base(k)] + left[Vat(k)]]

(* A share of a plan by items that was paid as it stands is invoiced with  *)
(* the lines its payer claimed, and what was claimed by several is divided *)
(* between their claims.                                                   *)
Itemised(p) == linked[p] /\ split.mode = "ITEMS"
ClaimsOf(p, i) == {k \in DOMAIN split.claims[i] : p \in split.claims[i][k].people}
Claimants(i) == {p \in DOMAIN split.amount : ClaimsOf(p, i) # {}}
Share(p, i) ==
  IF Itemised(p) THEN Allocate(bill.subtotal[i], Even(1 .. Cardinality(Claimants(i))))[1]
  ELSE bill.subtotal[i]
SourceLines(p) == IF Itemised(p) THEN {i \in Lines : ClaimsOf(p, i) # {}} ELSE Lines
SourceAt(p, k) == SourceLines(p) \cap LinesAt(bill.rate, k)

Composition(p, group) ==
  IF ~Itemised(p) THEN group
  ELSE [k \in Groups \cup {ServiceGroup} |->
          IF k = ServiceGroup THEN 0 ELSE SumOver([i \in SourceAt(p, k) |-> Share(p, i)])]

(* A group's part between its base and its VAT, by what is left of each.   *)
AllocatePayment(p, left) ==
  LET group == GroupLeft(left)
      part == AllocateCapped(paid[p], Composition(p, group), group)
      divided(k) == AllocateWithZeros(part[k], Only({Base(k), Vat(k)}, left))
  IN [s \in Slots |-> IF s = Base(ServiceGroup) THEN part[ServiceGroup]
                      ELSE divided((s + 1) \div 2)[s]]

(* The lines printed on it: a group's amounts over the lines of its rate.  *)
SpreadAcrossLines(amount, weight) ==
  IF DOMAIN weight = {} \/ amount = 0 THEN [i \in DOMAIN weight |-> 0]
  ELSE IF \A i \in DOMAIN weight : weight[i] = 0 THEN Allocate(amount, Even(DOMAIN weight))
  ELSE AllocateWithZeros(amount, weight)

ItemLines(p, slots) ==
  [i \in SourceLines(p) |->
     LET k == CHOOSE k \in Groups : i \in SourceAt(p, k)
         weight == [j \in SourceAt(p, k) |-> Share(p, j)]
     IN [base |-> SpreadAcrossLines(slots[Base(k)], weight)[i],
         vat |-> SpreadAcrossLines(slots[Vat(k)], weight)[i]]]

Invoice(p) ==
  /\ paid[p] # Nothing /\ declared[p] = Nothing
  /\ paid[p] <= SumOver(Undeclared)
  /\ LET slots == AllocatePayment(p, Undeclared)
     IN declared' = [declared EXCEPT ![p] = [slots |-> slots, lines |-> ItemLines(p, slots)]]
  /\ UNCHANGED <<bill, split, paid, linked>>

-----------------------------------------------------------------------------
DividingInit ==
  /\ \E lines \in Carts, fx \in FxRates, bps \in ServiceBps : bill = Bill(lines, fx, bps)
  /\ split = Nothing
  /\ paid = [p \in People |-> Nothing] /\ linked = [p \in People |-> FALSE]
  /\ declared = [p \in People |-> Nothing]

DividingStep ==
  \/ PreviewSplit
  \/ \E p \in People : PayShare(p) \/ Invoice(p) \/ \E a \in Some : PayFreely(p, a)

DividingSpec == DividingInit /\ [][DividingStep]_dividingVars

DividingTypeOK ==
  /\ \E lines \in Carts, fx \in FxRates, bps \in ServiceBps : bill = Bill(lines, fx, bps)
  /\ split # Nothing => \A p \in DOMAIN split.amount : p \in People /\ split.amount[p] \in Nat
  /\ \A p \in People : paid[p] # Nothing => paid[p] \in Nat \ {0}
  /\ linked \in [People -> BOOLEAN]
  /\ \A p \in Invoiced : declared[p].slots \in [Slots -> Nat]

-----------------------------------------------------------------------------
(* What a person's claims come to, over Subtotals * Parts, exactly.        *)
Exactly(p) ==
  split.of * SumOver([i \in Lines |->
    SumOver([k \in ClaimsOf(p, i) |->
      (bill.subtotal[i] * split.claims[i][k].units * Parts)
        \div (bill.units[i] * Cardinality(split.claims[i][k].people))])])
ClaimsHeld(p) == SumOver([i \in Lines |-> Cardinality(ClaimsOf(p, i))])
Apart(x, y) == IF x > y THEN x - y ELSE y - x

(* A plan divides what was left of the bill to the céntimo, and, by items, *)
(* a person owes nothing for what they did not claim and every one of      *)
(* their claims to within the céntimos of two roundings (splitEngine.js:   *)
(* "Exactness is structural", "Grouped, not keyed").                       *)
SplitIsExact ==
  split # Nothing =>
    /\ SumOver(split.amount) = split.of
    /\ split.mode = "ITEMS" =>
         \A p \in DOMAIN split.amount :
           IF ClaimsHeld(p) = 0 THEN split.amount[p] = 0
           ELSE Apart(split.amount[p] * SumOver(bill.subtotal) * Parts, Exactly(p))
                < 2 * ClaimsHeld(p) * SumOver(bill.subtotal) * Parts

(* However a bill is paid and whichever payments are invoiced first, the   *)
(* invoices are of what was paid, never declare more of a rate's base, of  *)
(* its VAT or of the service than the bill has, and have declared all of   *)
(* it when the bill is paid (fiscalAllocation.js: "N facturas que suman    *)
(* exactamente la cuenta").                                                *)
DeclaredToTheCentimo ==
  /\ SumOver(bill.slots) = bill.due
  /\ \A p \in Invoiced : SumOver(declared[p].slots) = paid[p]
  /\ \A s \in Slots : Undeclared[s] >= 0
  /\ Outstanding = 0 /\ (\A p \in People : paid[p] # Nothing => p \in Invoiced)
       => \A s \in Slots : Undeclared[s] = 0

(* "quien sólo pidió algo exento no puede declarar IVA"                    *)
(* (fiscalInvoiceBuilder.js:65).                                           *)
ExemptDeclaresNoVat ==
  \A p \in Invoiced :
    Itemised(p) /\ SourceLines(p) \subseteq {i \in Lines : bill.rate[i] = 0}
      => \A k \in Groups : declared[p].slots[Vat(k)] = 0
=============================================================================
