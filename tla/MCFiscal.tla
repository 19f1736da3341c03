------------------------------ MODULE MCFiscal ------------------------------
(***************************************************************************)
(* The invoices of a bill, in two parts that share no state: the documents *)
(* with their numbers, and the arithmetic from the lines of a bill to what *)
(* each payment declares.  A behaviour runs one of them.                   *)
(*                                                                         *)
(* Documents: a bill with an exempt rate (1) and a taxed one (2).          *)
(* Arithmetic: two people, two bills of two lines, with an exempt line and *)
(* without one, in the currency of the menu and in another.                *)
(***************************************************************************)
EXTENDS Fiscal, Dividing, TLC

CONSTANTS p1, p2

VARIABLE part
fiscal == <<part, vars, dividingVars>>

(* One bill, the one of 45 céntimos, will do where the arithmetic is not   *)
(* what is looked at, and one way to number where it is.                   *)
FiscalInit ==
  /\ DividingInit /\ part \in {"DOCUMENTS", "ARITHMETIC"}
  /\ part = "DOCUMENTS" => bill.due = 45
  /\ Init
  /\ part = "ARITHMETIC" => /\ provider = "own" /\ series = None
                            /\ \A p \in Payments : intents[p] = "NONE"

FiscalNext ==
  \/ part = "DOCUMENTS" /\ Next /\ UNCHANGED <<part, dividingVars>>
  \/ part = "ARITHMETIC" /\ DividingStep /\ UNCHANGED <<part, vars>>

FiscalSpec == FiscalInit /\ [][FiscalNext]_fiscal

MCDue == [b \in {1, 2} |-> b]
MCAmount == (p1 :> 1) @@ (p2 :> 2)

(* The first diner claimed the exempt line; the other one's is prorated.   *)
MCClaim == (p1 :> [b \in {1, 2} |-> IF b = 1 THEN 1 ELSE 0]) @@ (p2 :> None)

(* The range on the form, a wider one, and a form entered by mistake.      *)
MCSeriesForms ==
  {[form |-> "A", first |-> 1, last |-> 1], [form |-> "A", first |-> 1, last |-> 3],
   [form |-> "B", first |-> 5, last |-> None]}

Line(price, units, category) ==
  [price |-> price, units |-> units, category |-> category, bps |-> Nothing]
MCCarts == {<<Line(10, 2, "EXEMPT"), Line(7, 1, "TAXABLE")>>,
            <<Line(13, 2, "TAXABLE"), Line(9, 1, "TAXABLE")>>}
MCVats == <<0, 1600>>

Symmetry == Permutations(Requests) \cup Permutations(Operators)
=============================================================================
