-------------------------------- MODULE Tables --------------------------------
(***************************************************************************)
(* The room of one restaurant (routes/tables, bills, menu and orders, and  *)
(* services/billItems and guestOrders): its tables, the currency and the   *)
(* products of its menu, the bills opened on the tables and the lines      *)
(* ordered onto them.                                                      *)
(*                                                                         *)
(* A request reads before it begins its transaction, because a rate may    *)
(* have to be fetched from outside: whatever it read there may have        *)
(* changed by the time it holds the locks.  The transaction itself is one  *)
(* step: it holds the row of the table or of the bill from its first read  *)
(* to its last write.                                                      *)
(***************************************************************************)
EXTENDS Naturals, FiniteSets

CONSTANTS
  Tables, Bills, Products, Currencies,
  Orders,      \* orders diners send from their phones
  Staff,       \* who may mark an order as seen
  Requests,    \* requests under way
  MaxLines,    \* bound: lines of a bill
  None

ASSUME TablesAssumption ==
  /\ MaxLines \in Nat
  /\ None \notin Bills \cup Orders \cup Products \cup Staff \cup Currencies

VARIABLES
  tables,      \* "ON" and "OFF" are tables.active
  menu,        \* the currency of the menu and its products
  bills,
  orders,
  requests

room == <<tables, menu>>
roomVars == <<tables, menu, bills, orders, requests>>

Product == [currency : Currencies, status : {"ON", "OFF", "GONE"}]
Bill == [table : Tables, status : {"OPEN", "ENDED"}, currency : Currencies,
         lines : [Currencies -> 0..MaxLines]]
Order == [bill : Bills, table : Tables, seenBy : Staff \cup {None}]
Request ==
  [kind : {"OPEN"}, table : Tables, currency : Currencies]
  \cup [kind : {"ORDER"}, table : Tables, seen : Bills \cup {None},
        product : Products, guest : BOOLEAN, currency : Currencies]
  \cup [kind : {"CURRENCY"}, currency : Currencies]
  \cup [kind : {"PRODUCT"}, product : Products, currency : Currencies]

ASSUME NoneAssumption ==
  /\ None \notin Product \cup Bill \cup Order
  /\ None \notin Request
  /\ None \notin {"ON", "OFF"}

RoomTypeOK ==
  /\ tables \in [Tables -> {"ON", "OFF", None}]
  /\ menu \in [currency : Currencies, products : [Products -> Product \cup {None}]]
  /\ bills \in [Bills -> Bill \cup {None}]
  /\ orders \in [Orders -> Order \cup {None}]
  /\ requests \in [Requests -> Request \cup {None}]

RoomInit ==
  /\ tables = [t \in Tables |-> None]
  /\ \E c \in Currencies : menu = [currency |-> c, products |-> [p \in Products |-> None]]
  /\ bills = [b \in Bills |-> None]
  /\ orders = [o \in Orders |-> None]
  /\ requests = [r \in Requests |-> None]

-----------------------------------------------------------------------------
(* The tables.                                                             *)

(* Creating a table that was switched off brings the same row back, and    *)
(* with it the code printed for it; a name in use is refused.              *)
CreateTable(t) ==
  /\ tables[t] # "ON"
  /\ tables' = [tables EXCEPT ![t] = "ON"]
  /\ UNCHANGED <<menu, bills, orders, requests>>

(* Many in one statement, which passes over those that are on.             *)
CreateTables(names) ==
  /\ tables' = [t \in Tables |-> IF t \in names THEN "ON" ELSE tables[t]]
  /\ UNCHANGED <<menu, bills, orders, requests>>

(* Nothing looks at the bills of a table that is switched off or on.       *)
UpdateTable(t, active) ==
  /\ tables[t] # None
  /\ tables' = [tables EXCEPT ![t] = active]
  /\ UNCHANGED <<menu, bills, orders, requests>>

-----------------------------------------------------------------------------
(* Requests.                                                               *)

Begin(r, request) ==
  /\ requests[r] = None
  /\ requests' = [requests EXCEPT ![r] = request]
  /\ UNCHANGED <<room, bills, orders>>

Done(r) == requests' = [requests EXCEPT ![r] = None]

(* Refused under the lock (no bill may be opened while the subscription is *)
(* suspended), without a rate, or dead: nothing stays of it.               *)
Abandon(r) ==
  /\ requests[r] # None
  /\ Done(r) /\ UNCHANGED <<room, bills, orders>>

-----------------------------------------------------------------------------
(* The menu.                                                               *)

Exists(p) == menu.products[p] # None /\ menu.products[p].status # "GONE"
OnMenu(p) == Exists(p) /\ menu.products[p].status = "ON"

(* The currency may change when no active product is in another one.  The  *)
(* products are counted in a statement before the one that writes.         *)
CountOthers(r, c) ==
  /\ \A p \in Products : OnMenu(p) => menu.products[p].currency = c
  /\ Begin(r, [kind |-> "CURRENCY", currency |-> c])

ChangeCurrency(r) ==
  /\ requests[r] # None /\ requests[r].kind = "CURRENCY"
  /\ menu' = [menu EXCEPT !.currency = requests[r].currency]
  /\ Done(r) /\ UNCHANGED <<tables, bills, orders>>

(* A product takes the currency the menu had when its request read it.     *)
ReadCurrency(r, p) ==
  /\ menu.products[p] = None
  /\ Begin(r, [kind |-> "PRODUCT", product |-> p, currency |-> menu.currency])

CreateProduct(r, status) ==
  /\ requests[r] # None /\ requests[r].kind = "PRODUCT"
  /\ menu.products[requests[r].product] = None
  /\ menu' = [menu EXCEPT !.products[requests[r].product] =
       [currency |-> requests[r].currency, status |-> status]]
  /\ Done(r) /\ UNCHANGED <<tables, bills, orders>>

(* Switched on or off.  Its currency never changes.                        *)
UpdateProduct(p, status) ==
  /\ Exists(p)
  /\ menu' = [menu EXCEPT !.products[p].status = status]
  /\ UNCHANGED <<tables, bills, orders, requests>>

(* Removed for good: the lines keep their own copy.                        *)
RemoveProduct(p) ==
  /\ Exists(p)
  /\ menu' = [menu EXCEPT !.products[p].status = "GONE"]
  /\ UNCHANGED <<tables, bills, orders, requests>>

-----------------------------------------------------------------------------
(* Bills.                                                                  *)

Open(b) == bills[b] # None /\ bills[b].status = "OPEN"
OpenOn(t) == {b \in Bills : Open(b) /\ bills[b].table = t}

(* The partial unique index on the open bill of a table.                   *)
IndexAllows(t) == OpenOn(t) = {}

NewBill(t, c) ==
  [table |-> t, status |-> "OPEN", currency |-> c, lines |-> [d \in Currencies |-> 0]]

(* What the transaction asks before it opens a bill, with the row of the   *)
(* table locked.                                                           *)
MayOpen(b, t) == bills[b] = None /\ IndexAllows(t)

(* A bill opened with a fixed total takes no lines, and is left out.       *)
AskOpen(r, t) ==
  Begin(r, [kind |-> "OPEN", table |-> t, currency |-> menu.currency])

OpenBill(r, b) ==
  /\ requests[r] # None /\ requests[r].kind = "OPEN"
  /\ tables[requests[r].table] = "ON"
  /\ OpenOn(requests[r].table) = {} /\ MayOpen(b, requests[r].table)
  /\ bills' = [bills EXCEPT ![b] = NewBill(requests[r].table, requests[r].currency)]
  /\ Done(r) /\ UNCHANGED <<room, orders>>

(* The bill is paid, written off or voided, under its own lock.            *)
EndBill(b) ==
  /\ Open(b)
  /\ bills' = [bills EXCEPT ![b].status = "ENDED"]
  /\ UNCHANGED <<room, orders, requests>>

-----------------------------------------------------------------------------
(* Lines.                                                                  *)

(* Wrong: a bill that was seen open is taken for open.                     *)
MayChangeAsSeen(row) == TRUE

(* lockOpenBill: the status is read under the lock of the bill.            *)
MayChange(row) == row.status = "OPEN"

(* The checks of a line: the product is on the menu and in the currency of *)
(* the bill.                                                               *)
Fits(row, p) == OnMenu(p) /\ menu.products[p].currency = row.currency

WithLine(row, p) == [row EXCEPT !.lines[menu.products[p].currency] = @ + 1]
Lines(row) == {c \in Currencies : row.lines[c] > 0}
Room(row, p) == row.lines[menu.products[p].currency] < MaxLines

AddItem(b, p) ==
  /\ bills[b] # None /\ MayChange(bills[b])
  /\ Fits(bills[b], p) /\ Room(bills[b], p)
  /\ bills' = [bills EXCEPT ![b] = WithLine(@, p)]
  /\ UNCHANGED <<room, orders, requests>>

(* An order for a table, by a waiter or by a diner: outside, its open bill *)
(* and, without one, the currency it would be opened in.                   *)
AskOrder(r, t, p, guest) ==
  \E seen \in IF OpenOn(t) = {} THEN {None} ELSE OpenOn(t) :
    Begin(r, [kind |-> "ORDER", table |-> t, seen |-> seen, product |-> p,
              guest |-> guest, currency |-> menu.currency])

(* Inside, the bill that was seen is locked; without one the order opens   *)
(* its own, and it is the index that refuses a second.                     *)
OrderedOnto(q, b) ==
  IF q.seen = None THEN MayOpen(b, q.table) ELSE b = q.seen

BillFor(q, b) ==
  IF q.seen = None THEN NewBill(q.table, q.currency) ELSE bills[b]

(* The order of a diner leaves a notice for the room.                      *)
Notice(o, q, b) ==
  IF q.guest
  THEN /\ orders[o] = None
       /\ orders' = [orders EXCEPT ![o] = [bill |-> b, table |-> q.table, seenBy |-> None]]
  ELSE UNCHANGED orders

PlaceOrder(r, b, o) ==
  LET q == requests[r]
      row == BillFor(q, b)
  IN /\ q # None /\ q.kind = "ORDER"
     /\ tables[q.table] = "ON"
     /\ OrderedOnto(q, b) /\ MayChange(row)
     /\ Fits(row, q.product) /\ Room(row, q.product)
     /\ bills' = [bills EXCEPT ![b] = WithLine(row, q.product)]
     /\ Notice(o, q, b)
     /\ Done(r) /\ UNCHANGED room

(* One statement that matches an order nobody has seen: a second touch     *)
(* changes nothing.                                                        *)
Acknowledge(o, u) ==
  /\ orders[o] # None /\ orders[o].seenBy = None
  /\ orders' = [orders EXCEPT ![o].seenBy = u]
  /\ UNCHANGED <<room, bills, requests>>

-----------------------------------------------------------------------------
RoomStep ==
  \/ \E t \in Tables : CreateTable(t)
  \/ \E names \in (SUBSET Tables) \ {{}} : CreateTables(names)
  \/ \E t \in Tables, active \in {"ON", "OFF"} : UpdateTable(t, active)
  \/ \E r \in Requests, c \in Currencies : CountOthers(r, c)
  \/ \E r \in Requests : ChangeCurrency(r) \/ Abandon(r)
  \/ \E r \in Requests, p \in Products : ReadCurrency(r, p)
  \/ \E r \in Requests, status \in {"ON", "OFF"} : CreateProduct(r, status)
  \/ \E p \in Products, status \in {"ON", "OFF"} : UpdateProduct(p, status)
  \/ \E p \in Products : RemoveProduct(p)
  \/ \E r \in Requests, t \in Tables : AskOpen(r, t)
  \/ \E r \in Requests, b \in Bills : OpenBill(r, b)
  \/ \E b \in Bills : EndBill(b)
  \/ \E b \in Bills, p \in Products : AddItem(b, p)
  \/ \E r \in Requests, t \in Tables, p \in Products : AskOrder(r, t, p, FALSE)
  \/ \E r \in Requests, b \in Bills, o \in Orders : PlaceOrder(r, b, o)
  \/ \E o \in Orders, u \in Staff : Acknowledge(o, u)

RoomSpec == RoomInit /\ [][RoomStep]_roomVars

-----------------------------------------------------------------------------
(* An order that saw a bill open outside its transaction adds nothing to   *)
(* it once it is paid, written off or voided, and tells the room nothing   *)
(* about it (lockOpenBill).                                                *)
EndedBillsStand ==
  [][\A b \in Bills : bills[b] # None /\ ~Open(b) =>
       /\ bills'[b] = bills[b]
       /\ \A o \in Orders : orders'[o] # None => (orders'[o].bill = b => orders[o] # None)
    ]_<<bills, orders>>

(* The lines of a bill are all in its own currency, which a change of the  *)
(* menu may have made a former one (addItem, addItemsInTransaction).       *)
LinesInBillCurrency ==
  \A b \in Bills : bills[b] # None => Lines(bills[b]) \subseteq {bills[b].currency}
=============================================================================
