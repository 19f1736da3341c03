------------------------------ MODULE MCConsole ------------------------------
(***************************************************************************)
(* Three parts of the platform that share no state: what it charges a      *)
(* restaurant, the operators of its console, and the plan of a restaurant  *)
(* that they change. A behaviour runs one of them.                         *)
(*                                                                         *)
(* Billing, in two halves: two operators and a notice (MONEY), and two     *)
(* passes, or a pass and an operator, without notices (NIGHT). Two periods *)
(* of a day each; a period may be paid in two halves.                      *)
(* Operators: two people, two browsers. Plans: two changes, an invoice,    *)
(* three entries of the audit.                                             *)
(***************************************************************************)
EXTENDS Subscriptions, Operators, Plans, TLC

CONSTANTS c1, c2, x1, x2, y1, y2

VARIABLE part
console == <<part, billingVars, consoleVars, planVars>>

ConsoleInit ==
  /\ part \in {"MONEY", "NIGHT", "OPERATORS", "PLANS"}
  /\ BillingInit /\ OperatorsInit /\ PlansInit

Halved(half) ==
  IF half = "MONEY" THEN passes' = passes
  ELSE notices' = notices /\ Cardinality({o \in Operators : transactions'[o] # None}) <= 1

ConsoleNext ==
  \/ part \in {"MONEY", "NIGHT"} /\ BillingStep /\ Halved(part) /\ UNCHANGED <<part, consoleVars, planVars>>
  \/ part = "OPERATORS" /\ OperatorsStep /\ UNCHANGED <<part, billingVars, planVars>>
  \/ part = "PLANS" /\ PlansStep /\ UNCHANGED <<part, billingVars, consoleVars>>

ConsoleSpec == ConsoleInit /\ [][ConsoleNext]_console

MCLength == [MONTHLY |-> 1]

(* The operators of the billing and the changes of plan have the same      *)
(* names.                                                                  *)
Symmetry == Permutations(Charges) \cup Permutations(Operators) \cup Permutations(Passes)
=============================================================================
