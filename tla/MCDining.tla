------------------------------- MODULE MCDining ------------------------------
(***************************************************************************)
(* What happens at a meal: the table, its bills and the sessions of its    *)
(* diners; the menu; and the addresses that diners leave. They share no    *)
(* state, and a behaviour runs one of them.                                *)
(*                                                                         *)
(* Table: two bills in turn, one product and two currencies, one session   *)
(* of one diner and two requests of anybody at once. Menu: two dishes, two *)
(* sections, once with an import and once with pictures, of which neither  *)
(* reads the other. Addresses: two, that three requests leave.             *)
(***************************************************************************)
EXTENDS GuestSessions, Menu, Contacts, TLC

CONSTANTS b1, b2, r1, r2, ves, usd, d1, d2, e1, e2

VARIABLE part
meal == <<part, vars, menuVars, contactVars>>

(* No session was there before where the table is not what is looked at.   *)
MealInit ==
  /\ part \in {"TABLE", "MENU", "PICTURES", "ADDRESSES"}
  /\ Init /\ MenuInit /\ ContactsInit
  /\ part = "TABLE" \/ (menu.currency = usd /\ \A s \in Sessions : rows[s] = None)

MealNext ==
  \/ part = "TABLE" /\ Next /\ UNCHANGED <<part, menuVars, contactVars>>
  \/ part = "MENU" /\ MenuStep /\ UNCHANGED <<part, vars, contactVars, pictures>>
  \/ part = "PICTURES" /\ MenuStep /\ UNCHANGED <<part, vars, contactVars, imports>>
  \/ part = "ADDRESSES" /\ ContactsStep /\ UNCHANGED <<part, vars, menuVars>>

MealSpec == MealInit /\ [][MealNext]_meal

MCLists == { <<[name |-> d1, section |-> e2], [name |-> d1, section |-> e1],
               [name |-> d2, section |-> Loose]>> }
Symmetry == Permutations(Bills) \cup Permutations(Requests) \cup Permutations(Currencies)
=============================================================================
