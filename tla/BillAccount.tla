----------------------------- MODULE BillAccount -----------------------------
(***************************************************************************)
(* What the settlement core promises, without its splits, rails or claims: *)
(* a bill is an account that owes an amount, and a payment is money that   *)
(* reaches exactly one account, whole, and at most once.                   *)
(*                                                                         *)
(* The module Ledger is shown to implement this one, with the bills table  *)
(* for account and the SUCCEEDED payments for credits.                     *)
(***************************************************************************)
EXTENDS Money

CONSTANTS Bills, Payments, None

VARIABLES
  account,    \* per bill: its state, what it owes, what it has received
  credits     \* per payment: None, or the bill and amount it reached

vars == <<account, credits>>

Init ==
  /\ account = [b \in Bills |-> [state |-> "NONE", due |-> 0, paid |-> 0]]
  /\ credits = [p \in Payments |-> None]

IsOpen(b) == account[b].state = "OPEN"

Open(b, due) ==
  /\ account[b].state = "NONE"
  /\ account' = [account EXCEPT ![b] = [state |-> "OPEN", due |-> due, paid |-> 0]]
  /\ UNCHANGED credits

(* The amount owed may change, never below what was received.              *)
Reprice(b, due) ==
  /\ IsOpen(b) /\ account[b].paid <= due
  /\ account' = [account EXCEPT ![b] = [state |-> "OPEN", due |-> due, paid |-> account[b].paid]]
  /\ UNCHANGED credits

(* Money arrives.  It fits, it was never credited before, and the account  *)
(* closes exactly when nothing is owed any more.                           *)
Credit(p, b, a) ==
  LET paid == account[b].paid + a IN
  /\ credits[p] = None
  /\ IsOpen(b) /\ paid <= account[b].due
  /\ account' = [account EXCEPT ![b] =
       [state |-> IF paid = account[b].due THEN "CLOSED" ELSE "OPEN",
        due |-> account[b].due, paid |-> paid]]
  /\ credits' = [credits EXCEPT ![p] = [bill |-> b, amount |-> a]]

(* A manager closes an open account with something still owed.             *)
WriteOff(b) ==
  /\ IsOpen(b)
  /\ account' = [account EXCEPT ![b] =
       [state |-> "CLOSED", due |-> account[b].due, paid |-> account[b].paid]]
  /\ UNCHANGED credits

(* Only an account that received nothing is cancelled.                     *)
Cancel(b) ==
  /\ IsOpen(b) /\ account[b].paid = 0
  /\ account' = [account EXCEPT ![b] = [state |-> "VOID", due |-> account[b].due, paid |-> 0]]
  /\ UNCHANGED credits

Next ==
  \E b \in Bills :
    \/ \E due \in Ves : Open(b, due) \/ Reprice(b, due)
    \/ \E p \in Payments, a \in PayableVes : Credit(p, b, a)
    \/ WriteOff(b)
    \/ Cancel(b)

Spec == Init /\ [][Next]_vars
=============================================================================
