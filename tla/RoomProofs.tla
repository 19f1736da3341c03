----------------------------- MODULE RoomProofs -----------------------------
(***************************************************************************)
(* What the room, its bills and its orders guarantee while diners come and *)
(* go, for any number of tables, bills, products, sessions and requests;   *)
(* and what the restaurant keeps of the addresses they leave.              *)
(***************************************************************************)
EXTENDS GuestSessions, Contacts, Menu, FiniteSetTheorems, WellFoundedInduction, TLAPS

(* A product on the menu has a currency, and a line adds to it.            *)
LEMMA LineTyped ==
  ASSUME RoomTypeOK, NEW row \in Bill, NEW p \in Products, Fits(row, p), Room(row, p)
  PROVE  /\ WithLine(row, p) \in Bill /\ WithLine(row, p) # None
         /\ WithLine(row, p).table = row.table /\ WithLine(row, p).status = row.status
         /\ WithLine(row, p).currency = row.currency
         /\ \A c \in Currencies : c # row.currency => WithLine(row, p).lines[c] = row.lines[c]
<1>1. menu.products[p].currency \in Currencies
  BY DEF RoomTypeOK, Product, Fits, OnMenu, Exists
<1>2. row.lines[menu.products[p].currency] + 1 \in 0 .. MaxLines
  BY <1>1, TablesAssumption DEF Bill, Room
<1>3. WithLine(row, p) \in Bill
  BY <1>1, <1>2 DEF WithLine, Bill
<1> QED BY <1>1, <1>3, NoneAssumption DEF WithLine, Bill, Fits

(* A new bill is open, empty and of its table.                             *)
LEMMA NewBillTyped ==
  ASSUME NEW t \in Tables, NEW c \in Currencies
  PROVE  /\ NewBill(t, c) \in Bill /\ NewBill(t, c) # None
         /\ NewBill(t, c).table = t /\ NewBill(t, c).status = "OPEN"
         /\ NewBill(t, c).currency = c
         /\ \A d \in Currencies : NewBill(t, c).lines[d] = 0
<1>1. NewBill(t, c) \in Bill
  BY TablesAssumption DEF NewBill, Bill
<1> QED BY <1>1, NoneAssumption DEF NewBill

(* What a request that is under way asked for.                             *)
LEMMA RequestTyped ==
  ASSUME RoomTypeOK, NEW r \in Requests, requests[r] # None
  PROVE  /\ requests[r].kind = "OPEN" =>
              requests[r].table \in Tables /\ requests[r].currency \in Currencies
         /\ requests[r].kind = "ORDER" =>
              /\ requests[r].table \in Tables /\ requests[r].currency \in Currencies
              /\ requests[r].seen \in Bills \cup {None} /\ requests[r].product \in Products
         /\ requests[r].kind = "CURRENCY" => requests[r].currency \in Currencies
         /\ requests[r].kind = "PRODUCT" =>
              requests[r].product \in Products /\ requests[r].currency \in Currencies
BY DEF RoomTypeOK, Request

(* The bill an order saw is there still: no bill is ever deleted.          *)
SeenStays ==
  \A r \in Requests :
    requests[r] # None /\ requests[r].kind = "ORDER" /\ requests[r].seen # None =>
      bills[requests[r].seen] # None

(* The row an order is written onto.                                       *)
LEMMA OrderTyped ==
  ASSUME RoomTypeOK, SeenStays, NEW r \in Requests, NEW b \in Bills, NEW o \in Orders, PlaceOrder(r, b, o)
  PROVE  LET q == requests[r]
             row == BillFor(q, b)
         IN  /\ row \in Bill /\ row.status = "OPEN" /\ q.table \in Tables
             /\ q.product \in Products
             /\ q.seen = None => /\ bills[b] = None /\ OpenOn(q.table) = {}
                                 /\ row.table = q.table /\ \A c \in Currencies : row.lines[c] = 0
             /\ q.seen # None => bills[b] # None /\ row = bills[b]
             /\ bills' = [bills EXCEPT ![b] = WithLine(row, q.product)]
             /\ WithLine(row, q.product) \in Bill /\ WithLine(row, q.product) # None
             /\ WithLine(row, q.product).table = row.table
             /\ WithLine(row, q.product).status = row.status
             /\ WithLine(row, q.product).currency = row.currency
             /\ \A c \in Currencies :
                  c # row.currency => WithLine(row, q.product).lines[c] = row.lines[c]
<1> DEFINE q == requests[r]
           row == BillFor(q, b)
<1>1. /\ q.table \in Tables /\ q.currency \in Currencies /\ q.product \in Products
  BY RequestTyped DEF PlaceOrder
<1>2. CASE q.seen = None
  <2>1. row = NewBill(q.table, q.currency) /\ bills[b] = None /\ OpenOn(q.table) = {}
    BY <1>2 DEF PlaceOrder, BillFor, OrderedOnto, MayOpen, IndexAllows
  <2>2. row \in Bill /\ Fits(row, q.product) /\ Room(row, q.product)
    BY <1>1, <2>1, NewBillTyped DEF PlaceOrder
  <2> QED BY <1>1, <1>2, <2>1, <2>2, NewBillTyped, LineTyped DEF PlaceOrder, MayChange
<1>3. CASE q.seen # None
  <2>1. row = bills[b] /\ b = q.seen
    BY <1>3 DEF PlaceOrder, BillFor, OrderedOnto
  <2>2. bills[b] # None
    BY <1>3, <2>1 DEF SeenStays, PlaceOrder
  <2>3. row \in Bill /\ Fits(row, q.product) /\ Room(row, q.product)
    BY <2>1, <2>2 DEF PlaceOrder, RoomTypeOK
  <2> QED BY <1>1, <1>3, <2>1, <2>2, <2>3, LineTyped DEF PlaceOrder, MayChange
<1> QED BY <1>2, <1>3
-----------------------------------------------------------------------------
(* Everything keeps its type.                                              *)

RoomOK == RoomTypeOK /\ SeenStays

(* A request of the house or of a diner that is let in begins.             *)
LEMMA BeginTyped ==
  ASSUME RoomOK, NEW r \in Requests, NEW request \in Request, Begin(r, request),
         request.kind = "ORDER" /\ request.seen # None => bills[request.seen] # None
  PROVE  RoomOK'
<1>1. requests' = [requests EXCEPT ![r] = request] /\ UNCHANGED <<room, bills, orders>>
  BY DEF Begin
<1>2. RoomTypeOK'
  BY <1>1 DEF RoomOK, RoomTypeOK, room
<1>3. SeenStays'
  BY <1>1 DEF RoomOK, RoomTypeOK, SeenStays
<1> QED BY <1>2, <1>3 DEF RoomOK

(* An order that is asked for keeps the types.                             *)
LEMMA AskOrderTyped ==
  ASSUME RoomOK, NEW r \in Requests, NEW t \in Tables, NEW p \in Products,
         NEW guest \in BOOLEAN, AskOrder(r, t, p, guest)
  PROVE  RoomOK'
<1>1. PICK seen \in IF OpenOn(t) = {} THEN {None} ELSE OpenOn(t) :
        Begin(r, [kind |-> "ORDER", table |-> t, seen |-> seen, product |-> p,
                  guest |-> guest, currency |-> menu.currency])
  BY DEF AskOrder
<1>2. seen \in Bills \cup {None} /\ (seen # None => bills[seen] # None)
  BY <1>1 DEF OpenOn, Open
<1>3. menu.currency \in Currencies
  BY DEF RoomOK, RoomTypeOK
<1> DEFINE new == [kind |-> "ORDER", table |-> t, seen |-> seen, product |-> p,
                   guest |-> guest, currency |-> menu.currency]
<1>4. new \in Request /\ new.seen = seen
  BY <1>2, <1>3 DEF Request
<1> QED BY <1>1, <1>2, <1>4, BeginTyped

(* The other ways a request begins and ends, and what is done without one. *)
LEMMA RoomStepTyped == ASSUME RoomOK, RoomStep PROVE RoomOK'
<1> USE DEF RoomOK, RoomTypeOK
<1>1. ASSUME NEW r \in Requests, Done(r)
      PROVE  /\ requests' \in [Requests -> Request \cup {None}]
             /\ \A q \in Requests : requests'[q] # None => requests'[q] = requests[q]
  BY <1>1 DEF Done
<1>2. ASSUME UNCHANGED requests, \A b \in Bills : bills[b] # None => bills'[b] # None
      PROVE  SeenStays'
  BY <1>2, RequestTyped DEF SeenStays
<1>3. ASSUME NEW r \in Requests, Done(r), \A b \in Bills : bills[b] # None => bills'[b] # None
      PROVE  SeenStays'
  BY <1>1, <1>3, RequestTyped DEF SeenStays
<1>4. ASSUME NEW t \in Tables, CreateTable(t) \/ \E active \in {"ON", "OFF"} : UpdateTable(t, active)
      PROVE  RoomOK'
  BY <1>2, <1>4 DEF CreateTable, UpdateTable
<1>5. ASSUME NEW names \in SUBSET Tables, CreateTables(names) PROVE RoomOK'
  BY <1>2, <1>5 DEF CreateTables
<1>6. ASSUME NEW r \in Requests, NEW c \in Currencies, CountOthers(r, c) PROVE RoomOK'
  <2>1. [kind |-> "CURRENCY", currency |-> c] \in Request
    BY DEF Request
  <2> QED BY <1>6, <2>1, BeginTyped DEF CountOthers
<1>7. ASSUME NEW r \in Requests, ChangeCurrency(r) PROVE RoomOK'
  <2>1. requests[r].currency \in Currencies
    BY <1>7, RequestTyped DEF ChangeCurrency
  <2> QED BY <1>1, <1>3, <1>7, <2>1 DEF ChangeCurrency
<1>8. ASSUME NEW r \in Requests, Abandon(r) PROVE RoomOK'
  BY <1>1, <1>3, <1>8 DEF Abandon, room
<1>9. ASSUME NEW r \in Requests, NEW p \in Products, ReadCurrency(r, p) PROVE RoomOK'
  <2>1. [kind |-> "PRODUCT", product |-> p, currency |-> menu.currency] \in Request
    BY DEF Request
  <2> QED BY <1>9, <2>1, BeginTyped DEF ReadCurrency
<1>10. ASSUME NEW r \in Requests, NEW status \in {"ON", "OFF"}, CreateProduct(r, status)
       PROVE  RoomOK'
  <2>1. requests[r].product \in Products /\ requests[r].currency \in Currencies
    BY <1>10, RequestTyped DEF CreateProduct
  <2>2. [currency |-> requests[r].currency, status |-> status] \in Product
    BY <2>1 DEF Product
  <2> QED BY <1>1, <1>3, <1>10, <2>1, <2>2 DEF CreateProduct
<1>11. ASSUME NEW p \in Products, NEW status \in {"ON", "OFF", "GONE"}, Exists(p),
              menu' = [menu EXCEPT !.products[p].status = status],
              UNCHANGED <<tables, bills, orders, requests>>
       PROVE  RoomOK'
  <2>1. [menu.products[p] EXCEPT !.status = status] \in Product
    BY <1>11 DEF Exists, Product
  <2> QED BY <1>2, <1>11, <2>1
<1>12. ASSUME NEW r \in Requests, NEW t \in Tables, AskOpen(r, t) PROVE RoomOK'
  <2>1. [kind |-> "OPEN", table |-> t, currency |-> menu.currency] \in Request
    BY DEF Request
  <2> QED BY <1>12, <2>1, BeginTyped DEF AskOpen
<1>13. ASSUME NEW r \in Requests, NEW b \in Bills, OpenBill(r, b) PROVE RoomOK'
  <2>1. requests[r].table \in Tables /\ requests[r].currency \in Currencies
    BY <1>13, RequestTyped DEF OpenBill
  <2>2. bills' \in [Bills -> Bill \cup {None}] /\ \A c \in Bills : bills[c] # None => bills'[c] # None
    BY <1>13, <2>1, NewBillTyped DEF OpenBill
  <2> QED BY <1>1, <1>3, <1>13, <2>2 DEF OpenBill, room
<1>14. ASSUME NEW b \in Bills, EndBill(b) PROVE RoomOK'
  <2>1. [bills[b] EXCEPT !.status = "ENDED"] \in Bill
    BY <1>14 DEF EndBill, Open, Bill
  <2>2. bills' \in [Bills -> Bill \cup {None}] /\ \A c \in Bills : bills[c] # None => bills'[c] # None
    BY <1>14, <2>1, NoneAssumption DEF EndBill
  <2> QED BY <1>2, <1>14, <2>2 DEF EndBill, room
<1>15. ASSUME NEW b \in Bills, NEW p \in Products, AddItem(b, p) PROVE RoomOK'
  <2>1. WithLine(bills[b], p) \in Bill /\ WithLine(bills[b], p) # None
    BY <1>15, LineTyped DEF AddItem
  <2>2. bills' \in [Bills -> Bill \cup {None}] /\ \A c \in Bills : bills[c] # None => bills'[c] # None
    BY <1>15, <2>1 DEF AddItem
  <2> QED BY <1>2, <1>15, <2>2 DEF AddItem, room
<1>16. ASSUME NEW r \in Requests, NEW b \in Bills, NEW o \in Orders, PlaceOrder(r, b, o)
       PROVE  RoomOK'
  <2>1. bills' \in [Bills -> Bill \cup {None}] /\ \A c \in Bills : bills[c] # None => bills'[c] # None
    BY <1>16, OrderTyped
  <2>2. requests[r].table \in Tables
    BY <1>16, OrderTyped
  <2>3. [bill |-> b, table |-> requests[r].table, seenBy |-> None] \in Order
    BY <2>2 DEF Order
  <2>4. orders' \in [Orders -> Order \cup {None}]
    BY <1>16, <2>3 DEF PlaceOrder, Notice
  <2> QED BY <1>1, <1>3, <1>16, <2>1, <2>4 DEF PlaceOrder, room
<1>17. ASSUME NEW o \in Orders, NEW u \in Staff, Acknowledge(o, u) PROVE RoomOK'
  <2>1. [orders[o] EXCEPT !.seenBy = u] \in Order
    BY <1>17 DEF Acknowledge, Order
  <2> QED BY <1>2, <1>17, <2>1 DEF Acknowledge, room
<1> QED
  BY <1>4, <1>5, <1>6, <1>7, <1>8, <1>9, <1>10, <1>11, <1>12, <1>13, <1>14, <1>15, <1>16, <1>17,
     AskOrderTyped
  DEF RoomStep, UpdateProduct, RemoveProduct

(* Whoever is at the door is there about a session that exists.            *)
AboutSessions == \A c \in Calls : calls[c] # None => rows[calls[c].session] # None

DoorOK == TypeOK /\ SeenStays /\ AboutSessions

(* What is left of a session is never more than its idle time.             *)
LEMMA TtlTyped ==
  ASSUME now \in Nat, NEW cap \in Nat PROVE CappedTtl(cap) \in 0 .. Idle
<1>1. CASE cap <= now
  BY <1>1, GuestSessionsAssumption DEF CappedTtl
<1>2. CASE cap > now
  <2>1. Idle \in Nat /\ cap - now \in Nat
    BY <1>2, GuestSessionsAssumption
  <2>2. \E x \in {Idle, cap - now} : \A y \in {Idle, cap - now} : x <= y
    BY <2>1
  <2>3. Min({Idle, cap - now}) \in {Idle, cap - now} /\ Min({Idle, cap - now}) <= Idle
    BY <2>2 DEF Min
  <2> QED BY <1>2, <2>1, <2>3 DEF CappedTtl
<1> QED BY <1>1, <1>2, GuestSessionsAssumption

(* A diner's request that is answered.                                     *)
LEMMA AnswerTyped ==
  ASSUME DoorOK, NEW c \in Calls, NEW s \in Sessions, rows[s] # None,
         NEW step \in {"ROW", "WARM", "IN", "OUT", "DROP"}, NEW ttl \in 0 .. Idle,
         Answer(c, s, step, ttl), UNCHANGED rows
  PROVE  calls' \in [Calls -> Call \cup {None}] /\ AboutSessions'
<1>1. [session |-> s, step |-> step, ttl |-> ttl] \in Call
  BY DEF Call
<1> QED BY <1>1 DEF DoorOK, TypeOK, Answer, AboutSessions

(* Filling and clearing the cache keep its type, whether it can be         *)
(* reached or not.                                                         *)
LEMMA CacheTyped ==
  ASSUME DoorOK, NEW s \in Sessions, NEW cap \in Nat, NEW ttl \in 0 .. Idle
  PROVE  /\ Try(Put(s, cap, ttl)) => cache' \in [Sessions -> Entry \cup {None}]
         /\ Try(Removed(s)) => cache' \in [Sessions -> Entry \cup {None}]
<1>1. now + ttl \in Nat
  BY GuestSessionsAssumption DEF DoorOK, TypeOK
<1>2. [cap |-> cap, until |-> now + ttl] \in Entry
  BY <1>1 DEF Entry
<1> QED BY <1>2 DEF DoorOK, TypeOK, Try, Put, Removed

(* Every step of a guest session keeps the types.                          *)
LEMMA DoorStepTyped == ASSUME DoorOK, DoorStep PROVE DoorOK'
<1> USE DEF DoorOK, TypeOK
<1>0. now \in Nat /\ LastTick \in Nat /\ Idle \in Nat /\ Cap \in Nat
  BY GuestSessionsAssumption
<1>1. ASSUME UNCHANGED roomVars PROVE RoomTypeOK' /\ SeenStays'
  BY <1>1 DEF roomVars, room, RoomTypeOK, SeenStays
<1>2. CASE Tick
  <2>1. cache' \in [Sessions -> Entry \cup {None}]
    BY <1>2 DEF Tick
  <2> QED BY <1>0, <1>1, <1>2, <2>1 DEF Tick, AboutSessions
<1>3. ASSUME NEW s \in Sessions, LoseEntry(s) PROVE DoorOK'
  BY <1>1, <1>3 DEF LoseEntry, Removed, AboutSessions
<1>4. ASSUME NEW s \in Sessions, NEW t \in Tables, CreateSession(s, t) PROVE DoorOK'
  <2>1. now + Cap \in Nat
    BY <1>0
  <2>2. [table |-> t, expires |-> now + Cap, closed |-> FALSE] \in Row
    BY <2>1 DEF Row
  <2>3. cache' \in [Sessions -> Entry \cup {None}]
    BY <1>0, <1>4, <2>1, TtlTyped, CacheTyped DEF CreateSession
  <2>4. AboutSessions'
    BY <1>4, <2>2, NoneNotHere DEF CreateSession, AboutSessions, Call
  <2> QED BY <1>1, <1>4, <2>2, <2>3, <2>4 DEF CreateSession
<1>5. ASSUME NEW c \in Calls, NEW s \in Sessions, FindCached(c, s) PROVE DoorOK'
  <2>1. cache[s] \in Entry /\ cache[s].cap \in Nat
    BY <1>5 DEF FindCached, HasCap, Entry
  <2>2. now + CappedTtl(cache[s].cap) \in Nat
    BY <1>0, <2>1, TtlTyped
  <2>3. [cache[s] EXCEPT !.until = now + CappedTtl(cache[s].cap)] \in Entry
    BY <2>1, <2>2 DEF Entry
  <2>4. cache' \in [Sessions -> Entry \cup {None}]
    BY <1>5, <2>3 DEF FindCached, Try
  <2>5. 0 \in 0 .. Idle
    BY <1>0
  <2> QED BY <1>1, <1>5, <2>4, <2>5, AnswerTyped DEF FindCached
<1>6. ASSUME NEW c \in Calls, NEW s \in Sessions, FindExpired(c, s) \/ Miss(c, s) PROVE DoorOK'
  <2>1. 0 \in 0 .. Idle
    BY <1>0
  <2>2. cache' \in [Sessions -> Entry \cup {None}]
    BY <1>6 DEF FindExpired, Miss, Try, Removed
  <2> QED BY <1>1, <1>6, <2>1, <2>2, AnswerTyped DEF FindExpired, Miss
<1>7. ASSUME NEW c \in Calls, ReadRow(c) PROVE DoorOK'
  <2>1. /\ calls[c].session \in Sessions /\ rows[calls[c].session] # None
        /\ rows[calls[c].session].expires \in Nat
    BY <1>7 DEF ReadRow, Call, Row, AboutSessions
  <2>2. CappedTtl(rows[calls[c].session].expires) \in 0 .. Idle /\ 0 \in 0 .. Idle
    BY <1>0, <2>1, TtlTyped
  <2> QED BY <1>1, <1>7, <2>1, <2>2, AnswerTyped DEF ReadRow
<1>8. ASSUME NEW c \in Calls, Warm(c) PROVE DoorOK'
  <2>1. /\ calls[c] \in Call /\ calls[c].session \in Sessions /\ calls[c].ttl \in 0 .. Idle
        /\ rows[calls[c].session].expires \in Nat
    BY <1>8 DEF Warm, Call, Row, AboutSessions
  <2>2. cache' \in [Sessions -> Entry \cup {None}]
    BY <1>8, <2>1, CacheTyped DEF Warm
  <2>3. [calls[c] EXCEPT !.step = "IN"] \in Call
        /\ [calls[c] EXCEPT !.step = "IN"].session = calls[c].session
    BY <2>1 DEF Call
  <2> QED BY <1>1, <1>8, <2>2, <2>3 DEF Warm, AboutSessions
<1>9. ASSUME NEW c \in Calls, CloseSession(c) PROVE DoorOK'
  <2>1. /\ calls[c] \in Call /\ calls[c].session \in Sessions
        /\ rows[calls[c].session] \in Row
    BY <1>9 DEF CloseSession, Inside, Call, AboutSessions
  <2>2. [rows[calls[c].session] EXCEPT !.closed = TRUE] \in Row
    BY <2>1 DEF Row
  <2>3. [calls[c] EXCEPT !.step = "DROP"] \in Call
        /\ [calls[c] EXCEPT !.step = "DROP"].session = calls[c].session
    BY <2>1 DEF Call
  <2>4. rows' \in [Sessions -> Row \cup {None}] /\ calls' \in [Calls -> Call \cup {None}]
    BY <1>9, <2>1, <2>2, <2>3 DEF CloseSession
  <2>5. AboutSessions'
    BY <1>9, <2>1, <2>2, <2>3, NoneNotHere DEF CloseSession, AboutSessions, Call
  <2> QED BY <1>1, <1>9, <2>4, <2>5 DEF CloseSession
<1>10. ASSUME NEW c \in Calls, DropEntry(c) \/ EndCall(c) PROVE DoorOK'
  <2>1. cache' \in [Sessions -> Entry \cup {None}]
    BY <1>10 DEF DropEntry, EndCall, Try, Removed
  <2> QED BY <1>1, <1>10, <2>1 DEF DropEntry, EndCall, Leave, AboutSessions
<1>11. ASSUME NEW c \in Calls, NEW r \in Requests, NEW p \in Products, OrderFromTable(c, r, p)
       PROVE  DoorOK'
  <2>1. rows[calls[c].session].table \in Tables
    BY <1>11 DEF OrderFromTable, Inside, Call, Row, AboutSessions
  <2>2. RoomTypeOK' /\ SeenStays'
    BY <1>11, <2>1, AskOrderTyped DEF OrderFromTable, RoomOK
  <2> QED BY <1>11, <2>2 DEF OrderFromTable, Leave, AboutSessions
<1> QED
  BY <1>2, <1>3, <1>4, <1>5, <1>6, <1>7, <1>8, <1>9, <1>10, <1>11 DEF DoorStep

(* The room and its door are typed in every reachable state.               *)
LEMMA AtTheDoor == Spec => []DoorOK
<1>1. Init => DoorOK
  <2> SUFFICES ASSUME Init PROVE DoorOK
    OBVIOUS
  <2>1. RoomTypeOK /\ SeenStays
    BY DEF Init, RoomInit, RoomTypeOK, SeenStays
  <2>2. PICK old \in SUBSET Sessions, t \in Tables :
          /\ rows = [s \in Sessions |->
               IF s \in old THEN [table |-> t, expires |-> Cap, closed |-> FALSE] ELSE None]
          /\ cache = [s \in Sessions |->
               IF s \in old THEN [cap |-> None, until |-> Idle] ELSE None]
    BY DEF Init
  <2>3. /\ [table |-> t, expires |-> Cap, closed |-> FALSE] \in Row
        /\ [cap |-> None, until |-> Idle] \in Entry
    BY GuestSessionsAssumption DEF Row, Entry
  <2>4. rows \in [Sessions -> Row \cup {None}] /\ cache \in [Sessions -> Entry \cup {None}]
    BY <2>2, <2>3
  <2>5. now \in 0 .. LastTick
    BY GuestSessionsAssumption DEF Init
  <2>6. calls = [c \in Calls |-> None]
    BY DEF Init
  <2> QED BY <2>1, <2>4, <2>5, <2>6 DEF DoorOK, TypeOK, AboutSessions
<1>2. DoorOK /\ [Next]_vars => DoorOK'
  <2> SUFFICES ASSUME DoorOK, [Next]_vars PROVE DoorOK'
    OBVIOUS
  <2>1. CASE DoorStep
    BY <2>1, DoorStepTyped
  <2>2. CASE RoomStep /\ UNCHANGED doorVars
    BY <2>2, RoomStepTyped DEF DoorOK, TypeOK, RoomOK, doorVars, AboutSessions
  <2>3. CASE UNCHANGED vars
    BY <2>3
    DEF vars, roomVars, room, doorVars, DoorOK, TypeOK, RoomTypeOK, SeenStays, AboutSessions
  <2> QED BY <2>1, <2>2, <2>3 DEF Next
<1> QED BY <1>1, <1>2, PTL DEF Spec

(* The room and its door keep their types.                                 *)
THEOREM RoomType == Spec => []TypeOK
<1>1. DoorOK => TypeOK
  BY DEF DoorOK
<1> QED BY <1>1, AtTheDoor, PTL
-----------------------------------------------------------------------------
(* Bills.  What any step does to a bill.                                   *)

Kept(b) == bills'[b] = bills[b]

(* A bill that is opened, alone on its table.                              *)
Born(b) ==
  /\ bills[b] = None /\ bills'[b] # None /\ bills'[b].table \in Tables
  /\ OpenOn(bills'[b].table) = {}
  /\ \A c \in Currencies : c # bills'[b].currency => bills'[b].lines[c] = 0

(* A bill that is changed or ended stays where it is and in its currency.  *)
Changed(b) ==
  /\ bills[b] # None /\ bills[b].status = "OPEN" /\ bills'[b] # None
  /\ bills'[b].table = bills[b].table /\ bills'[b].currency = bills[b].currency
  /\ \A c \in Currencies : c # bills[b].currency => bills'[b].lines[c] = bills[b].lines[c]

(* Every step opens or changes one bill, or leaves them all.               *)
LEMMA BillSteps ==
  ASSUME DoorOK, [Next]_vars
  PROVE  UNCHANGED bills \/ \E b \in Bills : /\ Born(b) \/ Changed(b)
                                           /\ \A c \in Bills \ {b} : Kept(c)
<1> USE DEF DoorOK, TypeOK, RoomTypeOK, Kept
<1>1. ASSUME NEW r \in Requests, NEW b \in Bills, OpenBill(r, b)
      PROVE  Born(b) /\ \A c \in Bills \ {b} : Kept(c)
  <2>1. /\ requests[r].table \in Tables /\ requests[r].currency \in Currencies
    BY <1>1, RequestTyped DEF OpenBill
  <2>2. bills'[b] = NewBill(requests[r].table, requests[r].currency)
    BY <1>1 DEF OpenBill
  <2> QED BY <1>1, <2>1, <2>2, NewBillTyped DEF OpenBill, MayOpen, Born
<1>2. ASSUME NEW b \in Bills, EndBill(b)
      PROVE  Changed(b) /\ \A c \in Bills \ {b} : Kept(c)
  <2>1. bills[b] \in Bill /\ bills'[b] = [bills[b] EXCEPT !.status = "ENDED"]
    BY <1>2 DEF EndBill, Open
  <2>2. [bills[b] EXCEPT !.status = "ENDED"] \in Bill
    BY <2>1 DEF Bill
  <2> QED BY <1>2, <2>1, <2>2, NoneAssumption DEF EndBill, Open, Changed, Bill
<1>3. ASSUME NEW b \in Bills, NEW p \in Products, AddItem(b, p)
      PROVE  Changed(b) /\ \A c \in Bills \ {b} : Kept(c)
  <2>1. bills[b] \in Bill /\ bills'[b] = WithLine(bills[b], p)
    BY <1>3 DEF AddItem
  <2> QED BY <1>3, <2>1, LineTyped DEF AddItem, MayChange, Changed
<1>4. ASSUME NEW r \in Requests, NEW b \in Bills, NEW o \in Orders, PlaceOrder(r, b, o)
      PROVE  (Born(b) \/ Changed(b)) /\ \A c \in Bills \ {b} : Kept(c)
  <2> DEFINE q == requests[r]
             row == BillFor(q, b)
             new == WithLine(row, q.product)
  <2>1. /\ row \in Bill /\ row.status = "OPEN" /\ q.table \in Tables
        /\ q.seen = None => /\ bills[b] = None /\ OpenOn(q.table) = {}
                            /\ row.table = q.table /\ \A c \in Currencies : row.lines[c] = 0
        /\ q.seen # None => bills[b] # None /\ row = bills[b]
        /\ bills' = [bills EXCEPT ![b] = new]
        /\ new # None /\ new.table = row.table /\ new.currency = row.currency
        /\ \A c \in Currencies : c # row.currency => new.lines[c] = row.lines[c]
    BY <1>4, OrderTyped
  <2> HIDE DEF q, row, new
  <2>2. bills'[b] = new
    BY <2>1
  <2>3. CASE q.seen = None
    BY <2>1, <2>2, <2>3 DEF Born
  <2>4. CASE q.seen # None
    BY <2>1, <2>2, <2>4 DEF Changed
  <2> QED BY <2>1, <2>3, <2>4
<1>5. CASE RoomStep
  BY <1>1, <1>2, <1>3, <1>4, <1>5
  DEF RoomStep, CreateTable, CreateTables, UpdateTable, CountOthers, ChangeCurrency, Abandon,
      ReadCurrency, CreateProduct, UpdateProduct, RemoveProduct, AskOpen, AskOrder, Begin,
      Acknowledge
<1>6. CASE DoorStep
  BY <1>6
  DEF DoorStep, Tick, LoseEntry, CreateSession, FindCached, FindExpired, Miss, ReadRow, Warm,
      CloseSession, DropEntry, EndCall, OrderFromTable, AskOrder, Begin, roomVars
<1>7. CASE UNCHANGED vars
  BY <1>7 DEF vars, roomVars
<1> QED BY <1>5, <1>6, <1>7 DEF Next

(* The lines of a bill stay in its currency, whatever becomes of that of   *)
(* the menu (addItem, addItemsInTransaction).                              *)
THEOREM LinesKeepTheirCurrency == Spec => []LinesInBillCurrency
<1>1. Init => LinesInBillCurrency
  BY DEF Init, RoomInit, LinesInBillCurrency
<1>2. DoorOK /\ LinesInBillCurrency /\ [Next]_vars => LinesInBillCurrency'
  <2> SUFFICES ASSUME DoorOK, LinesInBillCurrency, [Next]_vars PROVE LinesInBillCurrency'
    OBVIOUS
  <2> USE DEF LinesInBillCurrency, Lines
  <2>1. CASE UNCHANGED bills
    BY <2>1
  <2>2. ASSUME NEW b \in Bills, Born(b), \A c \in Bills \ {b} : Kept(c)
        PROVE  LinesInBillCurrency'
    BY <2>2 DEF Born, Kept
  <2>3. ASSUME NEW b \in Bills, Changed(b), \A c \in Bills \ {b} : Kept(c)
        PROVE  LinesInBillCurrency'
    BY <2>3 DEF Changed, Kept
  <2> QED BY <2>1, <2>2, <2>3, BillSteps
<1> QED BY <1>1, <1>2, AtTheDoor, PTL DEF Spec

(* A bill that was paid, written off or voided stays as it is, and no      *)
(* order that saw it open leaves a notice about it (lockOpenBill).         *)
THEOREM EndedBillsAreLeft == Spec => EndedBillsStand
<1> DEFINE Left(b) ==
      bills[b] # None /\ ~Open(b) =>
        /\ bills'[b] = bills[b]
        /\ \A o \in Orders : orders'[o] # None => (orders'[o].bill = b => orders[o] # None)
<1>1. DoorOK /\ [Next]_vars => [\A b \in Bills : Left(b)]_<<bills, orders>>
  <2> SUFFICES ASSUME DoorOK, [Next]_vars, NEW b \in Bills, bills[b] # None, ~Open(b)
               PROVE  /\ bills'[b] = bills[b]
                      /\ \A o \in Orders : orders'[o] # None =>
                           (orders'[o].bill = b => orders[o] # None)
    OBVIOUS
  <2>1. bills'[b] = bills[b]
    BY BillSteps DEF Born, Changed, Kept, Open
  <2>2. ASSUME NEW r \in Requests, NEW d \in Bills, NEW n \in Orders, PlaceOrder(r, d, n),
               NEW o \in Orders, orders'[o] # None, orders'[o].bill = b, orders[o] = None
        PROVE  FALSE
    <3>1. o = n /\ orders'[n].bill = d
      BY <2>2 DEF PlaceOrder, Notice, DoorOK, TypeOK, RoomTypeOK
    <3>2. bills[d] = None \/ bills[d].status = "OPEN"
      BY <2>2, OrderTyped DEF DoorOK, TypeOK
    <3> QED BY <2>2, <3>1, <3>2 DEF Open
  <2>3. CASE RoomStep
    BY <2>1, <2>2, <2>3
    DEF RoomStep, CreateTable, CreateTables, UpdateTable, CountOthers, ChangeCurrency, Abandon,
        ReadCurrency, CreateProduct, UpdateProduct, RemoveProduct, AskOpen, AskOrder, Begin,
        OpenBill, EndBill, AddItem, Acknowledge, DoorOK, TypeOK, RoomTypeOK
  <2>4. CASE DoorStep
    BY <2>1, <2>4
    DEF DoorStep, Tick, LoseEntry, CreateSession, FindCached, FindExpired, Miss, ReadRow, Warm,
        CloseSession, DropEntry, EndCall, OrderFromTable, AskOrder, Begin, roomVars
  <2>5. CASE UNCHANGED vars
    BY <2>1, <2>5 DEF vars, roomVars
  <2> QED BY <2>3, <2>4, <2>5 DEF Next
<1> QED BY <1>1, AtTheDoor, PTL DEF Spec, EndedBillsStand
-----------------------------------------------------------------------------
(* Sessions.  An entry of the cache that carries a cap carries that of its *)
(* row, which never changes.                                               *)
CapsAgree ==
  \A s \in Sessions :
    cache[s] # None /\ cache[s].cap # None => rows[s] # None /\ cache[s].cap = rows[s].expires

(* Every step keeps the caps of the cache and of the sessions in           *)
(* agreement.                                                              *)
LEMMA CapsKept == DoorOK /\ CapsAgree /\ [Next]_vars => CapsAgree'
<1> SUFFICES ASSUME DoorOK, CapsAgree, [Next]_vars PROVE CapsAgree'
  OBVIOUS
<1> USE DEF DoorOK, TypeOK, CapsAgree
<1>1. ASSUME \A s \in Sessions : rows[s] # None =>
                rows'[s] # None /\ rows'[s].expires = rows[s].expires,
             \A s \in Sessions : cache'[s] # None /\ cache'[s].cap # None =>
                \/ cache[s] # None /\ cache'[s].cap = cache[s].cap
                \/ rows'[s] # None /\ cache'[s].cap = rows'[s].expires
      PROVE  CapsAgree'
  BY <1>1
<1>2. CASE Tick \/ \E s \in Sessions : LoseEntry(s)
  BY <1>1, <1>2 DEF Tick, LoseEntry, Removed
<1>3. ASSUME NEW s \in Sessions, NEW t \in Tables, CreateSession(s, t) PROVE CapsAgree'
  <2>1. rows' = [rows EXCEPT ![s] = [table |-> t, expires |-> now + Cap, closed |-> FALSE]]
        /\ rows[s] = None
    BY <1>3 DEF CreateSession
  <2>2. now + Cap \in Nat
    BY GuestSessionsAssumption
  <2>3. [table |-> t, expires |-> now + Cap, closed |-> FALSE] \in Row
    BY <2>2 DEF Row
  <2>4. rows'[s] # None /\ rows'[s].expires = now + Cap
    BY <2>1, <2>3, NoneNotHere
  <2> QED BY <1>1, <1>3, <2>1, <2>4 DEF CreateSession, Try, Put
<1>4. ASSUME NEW c \in Calls, NEW s \in Sessions, FindCached(c, s) PROVE CapsAgree'
  <2>1. cache[s] \in Entry
    BY <1>4 DEF FindCached
  <2> QED BY <1>1, <1>4, <2>1 DEF FindCached, Try, Entry
<1>5. ASSUME NEW c \in Calls, NEW s \in Sessions, FindExpired(c, s) \/ Miss(c, s)
      PROVE  CapsAgree'
  BY <1>1, <1>5 DEF FindExpired, Miss, Try, Removed
<1>6. ASSUME NEW c \in Calls, Warm(c) PROVE CapsAgree'
  <2>1. calls[c].session \in Sessions /\ rows[calls[c].session] # None
    BY <1>6 DEF Warm, Call, AboutSessions
  <2> QED BY <1>1, <1>6, <2>1 DEF Warm, Try, Put
<1>7. ASSUME NEW c \in Calls, CloseSession(c) PROVE CapsAgree'
  <2>1. rows[calls[c].session] \in Row
    BY <1>7 DEF CloseSession, Inside, Call, AboutSessions
  <2>2. [rows[calls[c].session] EXCEPT !.closed = TRUE] \in Row
        /\ [rows[calls[c].session] EXCEPT !.closed = TRUE].expires = rows[calls[c].session].expires
    BY <2>1 DEF Row
  <2> QED BY <1>1, <1>7, <2>2, NoneNotHere DEF CloseSession
<1>8. ASSUME NEW c \in Calls, DropEntry(c) \/ EndCall(c) \/ ReadRow(c) PROVE CapsAgree'
  BY <1>1, <1>8 DEF DropEntry, EndCall, ReadRow, Try, Removed
<1>9. ASSUME NEW c \in Calls, NEW r \in Requests, NEW p \in Products, OrderFromTable(c, r, p)
      PROVE  CapsAgree'
  BY <1>9 DEF OrderFromTable
<1>10. CASE UNCHANGED doorVars
  BY <1>10 DEF doorVars
<1> QED
  BY <1>2, <1>3, <1>4, <1>5, <1>6, <1>7, <1>8, <1>9, <1>10 DEF Next, DoorStep, vars

(* The cap of a session decides, whatever the cache holds                  *)
(* (resolveGuestSession), for any number of sessions and requests.         *)
THEOREM TheCapDecides == Spec => CapDecides
<1> DEFINE Decided(c) ==
      /\ ~LetIn(c) /\ LetIn(c)' => now < rows[calls'[c].session].expires
      /\ ~TurnedAway(c) /\ TurnedAway(c)' =>
           LET row == rows[calls'[c].session] IN row.closed \/ row.expires <= now
<1>1. DoorOK /\ CapsAgree /\ [Next]_vars => [\A c \in Calls : Decided(c)]_vars
  <2> SUFFICES ASSUME DoorOK, CapsAgree, Next, NEW c \in Calls PROVE Decided(c)
    OBVIOUS
  <2> USE DEF DoorOK, TypeOK, LetIn, TurnedAway
  <2>1. CASE calls'[c] = calls[c] \/ calls'[c] = None
    BY <2>1
  <2>2. ASSUME NEW d \in Calls, NEW s \in Sessions, NEW step, NEW ttl, Answer(d, s, step, ttl)
        PROVE  /\ d # c => calls'[c] = calls[c]
               /\ d = c => calls'[c].session = s /\ calls'[c].step = step
    BY <2>2 DEF Answer
  <2>3. ASSUME NEW d \in Calls, NEW s \in Sessions, FindCached(d, s) PROVE Decided(c)
    <3>1. rows[s] \in Row /\ cache[s].cap = rows[s].expires /\ cache[s].cap > now
      BY <2>3 DEF FindCached, HasCap, Alive, CapsAgree
    <3>2. rows[s].expires > now /\ rows[s].expires \in Nat /\ now \in Nat
      BY <3>1 DEF Row
    <3> QED BY <2>1, <2>2, <2>3, <3>2 DEF FindCached
  <2>4. ASSUME NEW d \in Calls, NEW s \in Sessions, FindExpired(d, s) PROVE Decided(c)
    <3>1. rows[s] \in Row /\ cache[s].cap = rows[s].expires /\ ~(cache[s].cap > now)
      BY <2>4 DEF FindExpired, HasCap, Alive, CapsAgree
    <3>2. rows[s].expires <= now
      BY <3>1 DEF Row
    <3> QED BY <2>1, <2>2, <2>4, <3>2 DEF FindExpired
  <2>5. ASSUME NEW d \in Calls, NEW s \in Sessions, Miss(d, s) PROVE Decided(c)
    BY <2>1, <2>2, <2>5 DEF Miss
  <2>6. ASSUME NEW d \in Calls, ReadRow(d) PROVE Decided(c)
    <3> DEFINE s == calls[d].session
    <3>1. s \in Sessions /\ rows[s] \in Row
      BY <2>6 DEF ReadRow, Call, AboutSessions
    <3>2. CASE RowAlive(rows[s])
      <4>1. rows[s].expires \in Nat /\ now < rows[s].expires
        BY <3>1, <3>2 DEF RowAlive, Row
      <4> QED BY <2>1, <2>2, <2>6, <3>1, <3>2, <4>1 DEF ReadRow
    <3>3. CASE ~RowAlive(rows[s])
      <4>1. rows[s].closed \/ rows[s].expires <= now
        BY <3>1, <3>3 DEF RowAlive, Row
      <4> QED BY <2>1, <2>2, <2>6, <3>1, <3>3, <4>1 DEF ReadRow
    <3> QED BY <3>2, <3>3
  <2>7. ASSUME NEW d \in Calls, Warm(d) \/ CloseSession(d) PROVE Decided(c)
    BY <2>1, <2>7 DEF Warm, CloseSession, Inside, Call
  <2>8. ASSUME NEW d \in Calls,
               DropEntry(d) \/ EndCall(d) \/ \E r \in Requests, p \in Products : OrderFromTable(d, r, p)
        PROVE  Decided(c)
    BY <2>1, <2>8 DEF DropEntry, EndCall, OrderFromTable, Leave
  <2>9. CASE UNCHANGED calls
    BY <2>1, <2>9
  <2> QED
    BY <2>3, <2>4, <2>5, <2>6, <2>7, <2>8, <2>9
    DEF Next, DoorStep, Tick, LoseEntry, CreateSession, doorVars
<1>2. Init => CapsAgree
  <2> SUFFICES ASSUME Init, NEW s \in Sessions, cache[s] # None PROVE cache[s].cap = None
    BY DEF CapsAgree
  <2> QED BY DEF Init
<1> QED BY <1>1, <1>2, CapsKept, AtTheDoor, PTL DEF Spec, CapDecides
-----------------------------------------------------------------------------
(* Types.                                                                  *)
THEOREM ContactsType == ContactsSpec => []ContactsTypeOK
<1>1. ContactsInit => ContactsTypeOK
  BY DEF ContactsInit, ContactsTypeOK, Contact
<1>2. ContactsTypeOK /\ [ContactsStep]_contactVars => ContactsTypeOK'
  <2> SUFFICES ASSUME ContactsTypeOK, [ContactsStep]_contactVars PROVE ContactsTypeOK'
    OBVIOUS
  <2>1. ASSUME NEW g \in Guests, NEW v \in Visits, NEW yes \in BOOLEAN, Upsert(g, v, yes)
        PROVE  ContactsTypeOK'
    BY <2>1 DEF Upsert, Consents, Proof, ContactsTypeOK, Contact
  <2>2. ASSUME NEW g \in Guests, Withdraw(g) PROVE ContactsTypeOK'
    BY <2>2 DEF Withdraw, ContactsTypeOK, Contact
  <2>3. CASE UNCHANGED contactVars
    BY <2>3 DEF contactVars, ContactsTypeOK
  <2> QED BY <2>1, <2>2, <2>3 DEF ContactsStep
<1> QED BY <1>1, <1>2, PTL DEF ContactsSpec

(* ConsentIsProven, and a withdrawn address consents to nothing.           *)
Inductive ==
  /\ ContactsTypeOK /\ ConsentIsProven
  /\ \A g \in Guests : contacts[g].withdrawn => ~contacts[g].consents

(* For every set of addresses and any order of the requests.               *)
THEOREM ConsentStaysProven == ContactsSpec => []ConsentIsProven
<1>1. ContactsInit => Inductive
  BY ContactsAssumption
  DEF ContactsInit, Inductive, ConsentIsProven, ListConsented, ContactsTypeOK, Contact
<1>2. Inductive /\ [ContactsStep]_contactVars => Inductive'
  <2> SUFFICES ASSUME Inductive, [ContactsStep]_contactVars PROVE Inductive'
    OBVIOUS
  <2> USE DEF Inductive, ConsentIsProven, ListConsented, ContactsTypeOK, Contact
  <2>1. ASSUME NEW g \in Guests, NEW v \in Visits, NEW yes \in BOOLEAN, Upsert(g, v, yes)
        PROVE  Inductive'
    BY <2>1, ContactsAssumption DEF Upsert, Consents, Proof
  <2>2. ASSUME NEW g \in Guests, Withdraw(g) PROVE Inductive'
    BY <2>2 DEF Withdraw
  <2>3. CASE UNCHANGED contactVars
    BY <2>3 DEF contactVars
  <2> QED BY <2>1, <2>2, <2>3 DEF ContactsStep
<1>3. Inductive => ConsentIsProven
  BY DEF Inductive
<1> QED BY <1>1, <1>2, <1>3, PTL DEF ContactsSpec

(* What a diner took back stays taken back.                                *)
THEOREM WithdrawalsStand == ContactsSpec => WithdrawnStays
<1>1. ContactsTypeOK /\ [ContactsStep]_contactVars =>
        [\A g \in Guests : contacts[g].withdrawn =>
           /\ g \notin ListConsented'
           /\ contacts'[g].withdrawn /\ contacts'[g].proof = contacts[g].proof]_contactVars
  <2> SUFFICES ASSUME ContactsTypeOK, ContactsStep,
                      NEW g \in Guests, contacts[g].withdrawn
               PROVE  /\ g \notin ListConsented'
                      /\ contacts'[g].withdrawn /\ contacts'[g].proof = contacts[g].proof
    OBVIOUS
  <2> USE DEF ListConsented, ContactsTypeOK, Contact
  <2>1. ASSUME NEW h \in Guests, NEW v \in Visits, NEW yes \in BOOLEAN, Upsert(h, v, yes)
        PROVE  /\ g \notin ListConsented'
               /\ contacts'[g].withdrawn /\ contacts'[g].proof = contacts[g].proof
    BY <2>1 DEF Upsert, Consents, Proof
  <2>2. ASSUME NEW h \in Guests, Withdraw(h)
        PROVE  /\ g \notin ListConsented'
               /\ contacts'[g].withdrawn /\ contacts'[g].proof = contacts[g].proof
    BY <2>2 DEF Withdraw
  <2> QED BY <2>1, <2>2 DEF ContactsStep
<1> QED BY <1>1, ContactsType, PTL DEF ContactsSpec, WithdrawnStays
-----------------------------------------------------------------------------
(* The menu.                                                               *)

(* The first of several lines is the one that counts.                      *)
LEMMA LeastNatural ==
  ASSUME NEW T \in SUBSET Nat, T # {}
  PROVE  \E n \in T : \A m \in T : n <= m
<1> DEFINE R == OpToRel(<, Nat)
<1>1. IsWellFoundedOn(R, Nat)
  BY NatLessThanWellFounded
<1>2. \A x, y \in Nat : <<x, y>> \in R <=> x < y
  BY DEF OpToRel
<1> HIDE DEF R
<1>3. PICK n \in T : \A m \in T : ~ (<<m, n>> \in R)
  BY <1>1, WFMin
<1>4. ASSUME NEW m \in T
      PROVE  n <= m
  <2>1. m \in Nat /\ n \in Nat /\ ~ (<<m, n>> \in R)
    BY <1>3
  <2>2. ~ (m < n)
    BY <1>2, <2>1
  <2> QED  BY <2>1, <2>2
<1> QED  BY <1>4

(* A place in an order is a natural number, counted from none.             *)
LEMMA PlaceInOrder ==
  ASSUME NEW S, IsFiniteSet(S), NEW order \in Orderings(S), NEW s \in {order[n] : n \in DOMAIN order}
  PROVE  (CHOOSE n \in DOMAIN order : order[n] = s) - 1 \in Nat
<1> DEFINE place == CHOOSE n \in DOMAIN order : order[n] = s
<1>1. place \in DOMAIN order
  OBVIOUS
<1>2. DOMAIN order = 1 .. Cardinality(S) /\ Cardinality(S) \in Nat
  BY FS_CardinalityType DEF Orderings
<1> HIDE DEF place
<1>3. place - 1 \in Nat
  BY <1>1, <1>2
<1> QED  BY <1>3 DEF place

(* The line a dish is written from, and what it is filed under: a section  *)
(* that was found and still is, one that is made now, or none.             *)
LineOf(i, d, n) ==
  LET s == imports[i].list[n].section IN
  /\ n \in LinesWritten(imports[i].list) /\ n \in Nat /\ imports[i].list[n].name = d
  /\ Written(i, d) \in Dish
  /\ \/ Written(i, d).section = s /\ (s = Loose \/ s \in Missing(i))
     \/ /\ s \in Sections /\ imports[i].found[s] \in Sections
        /\ Written(i, d).section = imports[i].found[s]

(* Every dish that is written has one.                                     *)
LEMMA LineWritten ==
  ASSUME MenuTypeOK, NEW i \in Imports, imports[i] # NoRow, SectionsStand(i),
         NEW d \in {imports[i].list[n].name : n \in LinesWritten(imports[i].list)}
  PROVE  \E n : LineOf(i, d, n)
<1> DEFINE list == imports[i].list
           line == CHOOSE n \in LinesWritten(list) : list[n].name = d
           s == list[line].section
           T == [name : Dishes, section : Sections \cup {Loose}]
<1>1. line \in LinesWritten(list) /\ list[line].name = d
  OBVIOUS
<1>2. imports[i] \in Import /\ list \in Seq(T)
  BY MenuAssumption DEF MenuTypeOK, Import
<1>3. line \in DOMAIN list
  BY <1>1 DEF LinesWritten
<1>4. line \in Nat /\ line - 1 \in Nat /\ list[line] \in T
  <2> HIDE DEF line, list, T
  <2>1. DOMAIN list = 1 .. Len(list) /\ Len(list) \in Nat
    BY <1>2
  <2> QED  BY <1>2, <1>3, <2>1
<1>5. s \in Sections \cup {Loose} /\ (s # Loose => s \in Named(list))
  BY <1>3, <1>4 DEF Named
<1>6. Written(i, d) = [section |-> Filed(i, s), place |-> line - 1, on |-> TRUE]
  BY DEF Written
<1>7. s # Loose /\ s \notin Missing(i) =>
        s \in Sections /\ Filed(i, s) = imports[i].found[s] /\ Filed(i, s) \in Sections
  <2>1. imports[i].found \in [Sections -> Sections \cup {Loose, NoRow}]
    BY <1>2 DEF Import, Found
  <2>2. s # Loose /\ s \notin Missing(i) => imports[i].found[s] \notin {NoRow, Loose}
    BY <1>5 DEF SectionsStand, Missing
  <2> QED  BY <1>5, <2>1, <2>2 DEF Filed
<1>8. s = Loose \/ s \in Missing(i) => Filed(i, s) = s
  BY DEF Filed
<1> HIDE DEF line
<1>9. Written(i, d) \in Dish /\ Written(i, d).section = Filed(i, s)
  <2>1. Filed(i, s) \in Sections \cup {Loose}
    BY <1>5, <1>7, <1>8
  <2> QED  BY <1>4, <1>6, <2>1 DEF Dish
<1>10. LineOf(i, d, line)
  BY <1>1, <1>4, <1>7, <1>8, <1>9 DEF LineOf
<1> QED  BY <1>10

(* What an import found is there until it writes, whatever happened to the *)
(* section since: it is followed to its new name, and forgotten when it is *)
(* deleted.                                                                *)
FoundStand ==
  \A i \in Imports, s \in Sections :
    imports[i] # NoRow /\ imports[i].found[s] \in Sections => HasSection(imports[i].found[s])

MenuOK == MenuTypeOK /\ FoundStand

SectionsStay == \A s \in Sections : sections[s] # NoRow => sections'[s] # NoRow

(* Nobody forgets a section an import found without deleting it.           *)
LEMMA FoundStay ==
  ASSUME FoundStand, SectionsStay, imports' = imports
  PROVE  FoundStand'
BY DEF FoundStand, SectionsStay, HasSection

(* What was found of a section that has another name or is gone.           *)
LEMMA RefoundTyped ==
  ASSUME MenuTypeOK, NEW s \in Sections, NEW t \in Sections \cup {NoRow}, imports' = Refound(s, t)
  PROVE  /\ imports' \in [Imports -> Import \cup {NoRow}]
         /\ \A i \in Imports : imports'[i] # NoRow =>
              /\ imports[i] # NoRow
              /\ \A u \in Sections :
                   imports'[i].found[u] = IF imports[i].found[u] = s THEN t ELSE imports[i].found[u]
         /\ \A i \in Imports : imports[i] # NoRow => imports'[i] # NoRow
<1>1. ASSUME NEW i \in Imports, imports[i] # NoRow
      PROVE  /\ imports'[i] \in Import
             /\ \A u \in Sections :
                  imports'[i].found[u] = IF imports[i].found[u] = s THEN t ELSE imports[i].found[u]
  <2>1. imports[i] \in Import
    BY <1>1 DEF MenuTypeOK
  <2>2. imports'[i] = [imports[i] EXCEPT !.found =
            [u \in Sections |-> IF imports[i].found[u] = s THEN t ELSE imports[i].found[u]]]
    BY <1>1 DEF Refound
  <2> QED  BY <2>1, <2>2 DEF Import, Found
<1>2. ASSUME NEW i \in Imports, imports[i] = NoRow
      PROVE  imports'[i] = NoRow
  BY <1>2 DEF Refound
<1>3. imports' = [i \in Imports |-> imports'[i]]
  BY DEF Refound
<1>4. \A i \in Imports : imports'[i] \in Import \cup {NoRow}
  BY <1>1, <1>2
<1>5. imports' \in [Imports -> Import \cup {NoRow}]
  BY <1>3, <1>4
<1> QED  BY <1>1, <1>2, <1>5, NoRowIsNoRow

(* Each request about a section, and each about a dish, leaves the menu as *)
(* it should be.                                                           *)
LEMMA SectionSteps ==
  ASSUME MenuOK, NEW s \in Sections, NEW t \in Sections, NEW place \in 0 .. LastPlace, NEW on \in BOOLEAN,
         CreateSection(s, place, on) \/ UpdateSection(s, t, place, on) \/ DeleteSection(s)
  PROVE  MenuOK'
<1> USE DEF MenuOK
<1>0. [place |-> place, on |-> on] \in Section /\ [place |-> place, on |-> on] # NoRow
  BY MenuAssumption, NoRowIsNoRow DEF Section
<1>1. CASE CreateSection(s, place, on)
  <2>1. MenuTypeOK'
    BY <1>0, <1>1 DEF CreateSection, MenuTypeOK
  <2>2. SectionsStay
    BY <1>0, <1>1 DEF CreateSection, MenuTypeOK, SectionsStay
  <2> QED  BY <1>1, <2>1, <2>2, FoundStay DEF CreateSection
<1>2. CASE UpdateSection(s, t, place, on)
  <2>1. imports' = Refound(s, t) /\ dishes' = Refiled(s, t) /\ pictures' = pictures
        /\ sections' = [sections EXCEPT ![s] = NoRow, ![t] = [place |-> place, on |-> on]]
    BY <1>2 DEF UpdateSection
  <2>2. sections' \in [Sections -> Section \cup {NoRow}]
    BY <1>0, <2>1 DEF MenuTypeOK
  <2>3. ASSUME NEW d \in Dishes
        PROVE  dishes'[d] \in Dish \cup {NoRow}
    <3>1. dishes[d] # NoRow => [dishes[d] EXCEPT !.section = t] \in Dish
      BY DEF MenuTypeOK, Dish
    <3> QED  BY <2>1, <3>1 DEF Refiled, DishesOf, HasDish, MenuTypeOK
  <2>4. dishes' \in [Dishes -> Dish \cup {NoRow}]
    BY <2>1, <2>3 DEF Refiled
  <2>5. FoundStand'
    <3>1. ASSUME NEW x \in Sections \ {s}, sections[x] # NoRow
          PROVE  sections'[x] # NoRow
      BY <1>0, <2>1, <3>1 DEF MenuTypeOK
    <3>2. sections'[t] # NoRow
      BY <1>0, <2>1 DEF MenuTypeOK
    <3>3. ASSUME NEW i \in Imports, NEW u \in Sections,
                 imports'[i] # NoRow, imports'[i].found[u] \in Sections
          PROVE  sections'[imports'[i].found[u]] # NoRow
      <4>1. imports[i] # NoRow
            /\ imports'[i].found[u] = IF imports[i].found[u] = s THEN t ELSE imports[i].found[u]
        BY <2>1, <3>3, RefoundTyped
      <4>2. CASE imports[i].found[u] = s
        BY <3>2, <4>1, <4>2
      <4>3. CASE imports[i].found[u] # s
        BY <3>1, <3>3, <4>1, <4>3 DEF FoundStand, HasSection
      <4> QED  BY <4>2, <4>3
    <3> QED  BY <3>3 DEF FoundStand, HasSection
  <2> QED  BY <2>1, <2>2, <2>4, <2>5, RefoundTyped DEF MenuTypeOK
<1>3. CASE DeleteSection(s)
  <2>1. imports' = Refound(s, NoRow) /\ pictures' = pictures
        /\ sections' = [sections EXCEPT ![s] = NoRow]
        /\ dishes' = [d \in Dishes |-> IF d \in DishesOf(s) THEN Orphaned(dishes[d]) ELSE dishes[d]]
    BY <1>3 DEF DeleteSection
  <2>2. sections' \in [Sections -> Section \cup {NoRow}]
    BY <2>1 DEF MenuTypeOK
  <2>3. ASSUME NEW d \in Dishes
        PROVE  dishes'[d] \in Dish \cup {NoRow}
    <3>1. dishes[d] # NoRow => [dishes[d] EXCEPT !.section = Loose] \in Dish
      BY DEF MenuTypeOK, Dish
    <3> QED  BY <2>1, <3>1 DEF Orphaned, DishesOf, HasDish, MenuTypeOK
  <2>4. dishes' \in [Dishes -> Dish \cup {NoRow}]
    BY <2>1, <2>3
  <2>5. FoundStand'
    <3>1. \A x \in Sections \ {s} : sections'[x] = sections[x]
      BY <2>1 DEF MenuTypeOK
    <3> QED  BY <2>1, <3>1, RefoundTyped, NoRowIsNoRow DEF FoundStand, HasSection
  <2> QED  BY <2>1, <2>2, <2>4, <2>5, RefoundTyped DEF MenuTypeOK
<1> QED  BY <1>1, <1>2, <1>3

(* A new order moves sections, or the dishes of one, and nothing else.     *)
LEMMA OrderSteps ==
  ASSUME MenuOK,
         \/ \E S \in SUBSET Sections : \E order \in Orderings(S) : ReorderSections(order)
         \/ \E s \in Sections \cup {Loose} : \E order \in Orderings(DishesOf(s)) : ReorderDishes(s, order)
  PROVE  MenuOK'
<1> USE DEF MenuOK
<1>1. ASSUME NEW S \in SUBSET Sections, NEW order \in Orderings(S), ReorderSections(order)
      PROVE  MenuOK'
  <2>1. \A n \in DOMAIN order : HasSection(order[n])
    BY <1>1 DEF ReorderSections
  <2>2. sections' = [s \in Sections |->
          IF \E n \in DOMAIN order : order[n] = s
          THEN [sections[s] EXCEPT !.place = (CHOOSE n \in DOMAIN order : order[n] = s) - 1]
          ELSE sections[s]]
    BY <1>1 DEF ReorderSections
  <2>3. ASSUME NEW s \in Sections
        PROVE  /\ sections'[s] \in Section \cup {NoRow}
               /\ sections[s] # NoRow => sections'[s] \in Section
    <3>1. CASE \E n \in DOMAIN order : order[n] = s
      <4> DEFINE place == (CHOOSE n \in DOMAIN order : order[n] = s) - 1
      <4>1. IsFiniteSet(S)
        BY MenuAssumption, FS_Subset
      <4>2. place \in Nat
        BY <3>1, <4>1, PlaceInOrder
      <4>3. sections[s] \in Section
        BY <2>1, <3>1 DEF MenuTypeOK, HasSection
      <4>4. sections'[s] = [sections[s] EXCEPT !.place = place]
        BY <2>2, <3>1
      <4> HIDE DEF place
      <4> QED  BY <4>2, <4>3, <4>4 DEF Section
    <3>2. CASE ~ \E n \in DOMAIN order : order[n] = s
      BY <2>2, <3>2 DEF MenuTypeOK
    <3> QED  BY <3>1, <3>2
  <2>4. sections' \in [Sections -> Section \cup {NoRow}]
    BY <2>2, <2>3
  <2>5. SectionsStay
    BY <2>3, NoRowIsNoRow DEF SectionsStay
  <2> QED  BY <1>1, <2>4, <2>5, FoundStay DEF ReorderSections, MenuTypeOK
<1>2. ASSUME NEW s \in Sections \cup {Loose}, NEW order \in Orderings(DishesOf(s)), ReorderDishes(s, order)
      PROVE  MenuOK'
  <2>1. {order[n] : n \in DOMAIN order} = DishesOf(s)
    BY <1>2 DEF ReorderDishes
  <2>2. dishes' = [d \in Dishes |->
          IF d \in DishesOf(s)
          THEN [dishes[d] EXCEPT !.place = (CHOOSE n \in DOMAIN order : order[n] = d) - 1]
          ELSE dishes[d]]
    BY <1>2 DEF ReorderDishes
  <2>3. ASSUME NEW d \in Dishes
        PROVE  dishes'[d] \in Dish \cup {NoRow}
    <3>1. CASE d \in DishesOf(s)
      <4> DEFINE place == (CHOOSE n \in DOMAIN order : order[n] = d) - 1
      <4>1. IsFiniteSet(DishesOf(s))
        BY MenuAssumption, FS_Subset DEF DishesOf
      <4>2. place \in Nat
        BY <2>1, <3>1, <4>1, PlaceInOrder
      <4>3. dishes[d] \in Dish
        BY <3>1 DEF MenuTypeOK, DishesOf, HasDish
      <4>4. dishes'[d] = [dishes[d] EXCEPT !.place = place]
        BY <2>2, <3>1
      <4> HIDE DEF place
      <4> QED  BY <4>2, <4>3, <4>4 DEF Dish
    <3>2. CASE d \notin DishesOf(s)
      BY <2>2, <3>2 DEF MenuTypeOK
    <3> QED  BY <3>1, <3>2
  <2>4. dishes' \in [Dishes -> Dish \cup {NoRow}]
    BY <2>2, <2>3
  <2>5. FoundStand'
    BY <1>2, FoundStay DEF ReorderDishes, SectionsStay
  <2> QED  BY <1>2, <2>4, <2>5 DEF ReorderDishes, MenuTypeOK
<1> QED  BY <1>1, <1>2

(* A dish that is created, changed or deleted leaves the menu as it        *)
(* should be.                                                              *)
LEMMA DishSteps ==
  ASSUME MenuOK, NEW d \in Dishes, NEW e \in Dishes, NEW s \in Sections \cup {Loose},
         NEW on \in BOOLEAN, NEW permanent \in BOOLEAN,
         CreateDish(d, s, on) \/ UpdateDish(d, e, s, on) \/ DeleteDish(d, permanent)
  PROVE  MenuOK'
<1> USE DEF MenuOK
<1>1. ASSUME NEW place \in Nat
      PROVE  [section |-> s, place |-> place, on |-> on] \in Dish
  BY DEF Dish
<1>2. CASE CreateDish(d, s, on)
  <2>1. EndOf(s) \in Nat
    BY <1>2, MenuAssumption DEF CreateDish
  <2>2. FoundStand'
    BY <1>2, FoundStay DEF CreateDish, SectionsStay
  <2> QED  BY <1>1, <1>2, <2>1, <2>2 DEF CreateDish, MenuTypeOK
<1>3. CASE UpdateDish(d, e, s, on)
  <2> DEFINE place == IF s = dishes[d].section THEN dishes[d].place ELSE EndOf(s)
  <2>1. /\ dishes' = [dishes EXCEPT ![d] = NoRow,
                        ![e] = [section |-> s, place |-> place, on |-> on]]
        /\ place \in 0 .. LastPlace
    BY <1>3 DEF UpdateDish
  <2> HIDE DEF place
  <2>2. FoundStand'
    BY <1>3, FoundStay DEF UpdateDish, SectionsStay
  <2>3. dishes' \in [Dishes -> Dish \cup {NoRow}]
    BY <1>1, <2>1, MenuAssumption DEF MenuTypeOK
  <2> QED  BY <1>3, <2>2, <2>3 DEF UpdateDish, MenuTypeOK
<1>4. CASE DeleteDish(d, permanent)
  <2>1. [dishes[d] EXCEPT !.on = FALSE] \in Dish
    BY <1>4 DEF DeleteDish, HasDish, MenuTypeOK, Dish
  <2>2. FoundStand'
    BY <1>4, FoundStay DEF DeleteDish, SectionsStay
  <2>3. dishes' \in [Dishes -> Dish \cup {NoRow}]
    BY <1>4, <2>1 DEF DeleteDish, MenuTypeOK
  <2> QED  BY <1>4, <2>2, <2>3 DEF DeleteDish, MenuTypeOK
<1> QED  BY <1>2, <1>3, <1>4

(* So does an import that is looked up, written or rolled back.            *)
LEMMA ImportSteps ==
  ASSUME MenuOK, NEW i \in Imports, NEW list \in Lists,
         \/ ImportItems(i) \/ RollBack(i) \/ BeginImport(i, list)
         \/ \E s \in Sections : FindSection(i, s)
  PROVE  MenuOK'
<1> USE DEF MenuOK
<1>1. CASE BeginImport(i, list)
  <2> DEFINE row == [list |-> list, next |-> LastSection, seen |-> {},
                     found |-> [s \in Sections |-> NoRow]]
  <2>1. row \in Import
    <3>1. LastSection \in Nat
      BY <1>1, MenuAssumption DEF BeginImport
    <3> QED  BY <3>1 DEF Import, Found
  <2>2. \A s \in Sections : row.found[s] \in Sections => HasSection(row.found[s])
    BY NoRowIsNoRow, MenuAssumption
  <2>3. imports' = [imports EXCEPT ![i] = row] /\ UNCHANGED <<sections, dishes, pictures>>
    BY <1>1 DEF BeginImport
  <2> HIDE DEF row
  <2>4. MenuTypeOK'
    BY <2>1, <2>3 DEF MenuTypeOK
  <2>5. FoundStand'
    BY <2>2, <2>3 DEF MenuTypeOK, FoundStand, HasSection
  <2> QED  BY <2>4, <2>5
<1>2. CASE RollBack(i)
  BY <1>2 DEF RollBack, MenuTypeOK, FoundStand, HasSection
<1>3. CASE ImportItems(i)
  <2>1. /\ imports[i] # NoRow /\ SectionsStand(i)
        /\ imports' = [imports EXCEPT ![i] = NoRow] /\ UNCHANGED pictures
        /\ \A s \in Missing(i) : NewPlace(i, s) \in Nat
    BY <1>3, MenuAssumption DEF ImportItems
  <2>2. sections' = [s \in Sections |->
          IF s \in Missing(i) THEN [place |-> NewPlace(i, s), on |-> TRUE] ELSE sections[s]]
    BY <1>3 DEF ImportItems
  <2>3. ASSUME NEW s \in Missing(i)
        PROVE  [place |-> NewPlace(i, s), on |-> TRUE] \in Section
    BY <2>1 DEF Section
  <2>4. sections' \in [Sections -> Section \cup {NoRow}]
    BY <2>2, <2>3 DEF MenuTypeOK
  <2>5. SectionsStay
    BY <2>2, <2>3, NoRowIsNoRow DEF SectionsStay
  <2>6. FoundStand'
    BY <2>1, <2>5 DEF FoundStand, HasSection, SectionsStay, MenuTypeOK
  <2>7. dishes' = [d \in Dishes |->
          IF d \in {imports[i].list[n].name : n \in LinesWritten(imports[i].list)}
          THEN Written(i, d) ELSE dishes[d]]
    BY <1>3 DEF ImportItems
  <2>8. dishes' \in [Dishes -> Dish \cup {NoRow}]
    BY <2>1, <2>7, LineWritten DEF MenuTypeOK, LineOf
  <2> QED  BY <2>1, <2>4, <2>6, <2>8 DEF MenuTypeOK
<1>4. ASSUME NEW s \in Sections, FindSection(i, s)
      PROVE  MenuOK'
  <2> DEFINE what == IF HasSection(s) THEN s ELSE Loose
             row == [imports[i] EXCEPT !.seen = @ \cup {s}, !.found[s] = what]
  <2>1. imports[i] \in Import
    BY <1>4 DEF FindSection, MenuTypeOK
  <2>2. /\ row \in Import
        /\ \A u \in Sections : row.found[u] = IF u = s THEN what ELSE imports[i].found[u]
    BY <2>1 DEF Import, Found
  <2>3. imports' = [imports EXCEPT ![i] = row] /\ UNCHANGED <<sections, dishes, pictures>>
    BY <1>4 DEF FindSection
  <2>4. what \in Sections => HasSection(what)
    BY MenuAssumption
  <2> HIDE DEF row, what
  <2>5. MenuTypeOK'
    BY <2>2, <2>3 DEF MenuTypeOK
  <2>6. \A u \in Sections : row.found[u] \in Sections => HasSection(row.found[u])
    BY <1>4, <2>2, <2>4 DEF FoundStand, FindSection
  <2>7. FoundStand'
    BY <2>3, <2>6 DEF MenuTypeOK, FoundStand, HasSection
  <2> QED  BY <2>5, <2>7
<1> QED  BY <1>1, <1>2, <1>3, <1>4

(* So do photographs, pictures and the document.                           *)
LEMMA PictureSteps ==
  ASSUME MenuOK,
         \/ \E d \in Dishes : UploadPhoto(d) \/ DeletePhoto(d)
         \/ UploadPdf \/ DeletePdf
         \/ \E kind \in Pictures : UploadBranding(kind) \/ DeleteBranding(kind)
  PROVE  MenuOK'
<1>1. UNCHANGED <<sections, dishes, imports>> /\ pictures' \subseteq Pictures \cup Dishes
  BY DEF UploadPhoto, DeletePhoto, UploadPdf, DeletePdf, UploadBranding, DeleteBranding, Upload, Remove,
     MenuOK, MenuTypeOK
<1> QED  BY <1>1, FoundStay DEF MenuOK, MenuTypeOK, SectionsStay

(* The inductive invariant of the menu.                                    *)
LEMMA MenuSafe == MenuSpec => []MenuOK
<1>1. MenuInit => MenuOK
  BY DEF MenuInit, MenuOK, MenuTypeOK, FoundStand
<1>2. MenuOK /\ [MenuStep]_menuVars => MenuOK'
  <2> SUFFICES ASSUME MenuOK, [MenuStep]_menuVars
               PROVE  MenuOK'
    OBVIOUS
  <2>1. CASE MenuStep
    <3>1. 0 \in 0 .. LastPlace /\ TRUE \in BOOLEAN
      BY MenuAssumption
    <3>2. ASSUME NEW s \in Sections, DeleteSection(s)
          PROVE  MenuOK'
      BY <3>1, <3>2, SectionSteps
    <3>3. ASSUME NEW s \in Sections, NEW t \in Sections, NEW place \in 0 .. LastPlace, NEW on \in BOOLEAN,
                 CreateSection(s, place, on) \/ UpdateSection(s, t, place, on)
          PROVE  MenuOK'
      BY <3>3, SectionSteps
    <3>4. ASSUME NEW d \in Dishes, NEW e \in Dishes, NEW s \in Sections \cup {Loose}, NEW on \in BOOLEAN,
                 CreateDish(d, s, on) \/ UpdateDish(d, e, s, on)
          PROVE  MenuOK'
      BY <3>4, DishSteps
    <3>5. ASSUME NEW d \in Dishes, NEW permanent \in BOOLEAN, DeleteDish(d, permanent)
          PROVE  MenuOK'
      BY <3>1, <3>5, DishSteps
    <3>6. ASSUME NEW i \in Imports,
                 ImportItems(i) \/ RollBack(i) \/ \E s \in Sections : FindSection(i, s)
          PROVE  MenuOK'
      <4>1. imports[i] # NoRow
        BY <3>6 DEF ImportItems, RollBack, FindSection
      <4>2. imports[i].list \in Lists
        BY <4>1 DEF MenuOK, MenuTypeOK, Import
      <4> QED  BY <3>6, <4>2, ImportSteps
    <3>7. ASSUME NEW i \in Imports, NEW list \in Lists, BeginImport(i, list)
          PROVE  MenuOK'
      BY <3>7, ImportSteps
    <3> QED  BY <2>1, <3>2, <3>3, <3>4, <3>5, <3>6, <3>7, OrderSteps, PictureSteps DEF MenuStep
  <2>2. CASE UNCHANGED menuVars
    BY <2>2, FoundStay DEF menuVars, MenuOK, MenuTypeOK, SectionsStay
  <2> QED  BY <2>1, <2>2
<1> QED  BY <1>1, <1>2, PTL DEF MenuSpec

(* Sections, dishes, pictures and imports keep their types.                *)
THEOREM MenuType == MenuSpec => []MenuTypeOK
BY MenuSafe, PTL DEF MenuOK

(* An import ends because it wrote or because it was rolled back.          *)
LEMMA ImportEnds ==
  ASSUME MenuOK, MenuStep, NEW i \in Imports, imports[i] # NoRow, imports'[i] = NoRow
  PROVE  ImportItems(i) \/ UNCHANGED <<sections, dishes>>
<1>1. ASSUME NEW s \in Sections, NEW t \in Sections \cup {NoRow}, imports' = Refound(s, t)
      PROVE  FALSE
  BY <1>1, RefoundTyped DEF MenuOK
<1>2. CASE imports' = imports
  BY <1>2
<1>3. ASSUME NEW j \in Imports, NEW list \in Lists, BeginImport(j, list)
      PROVE  FALSE
  BY <1>3 DEF BeginImport, MenuOK, MenuTypeOK
<1>10. ASSUME NEW j \in Imports, NEW s \in Sections, FindSection(j, s)
      PROVE  FALSE
  <2> DEFINE row == [imports[j] EXCEPT !.seen = @ \cup {s},
                                       !.found[s] = IF HasSection(s) THEN s ELSE Loose]
  <2>1. imports[j] \in Import
    BY <1>10 DEF FindSection, MenuOK, MenuTypeOK
  <2>2. row \in Import
    BY <2>1 DEF Import, Found
  <2>3. imports' = [imports EXCEPT ![j] = row]
    BY <1>10 DEF FindSection
  <2> HIDE DEF row
  <2> QED  BY <2>2, <2>3, NoRowIsNoRow DEF MenuOK, MenuTypeOK
<1>4. ASSUME NEW j \in Imports, ImportItems(j)
      PROVE  j = i
  BY <1>4 DEF ImportItems, MenuOK, MenuTypeOK
<1>5. ASSUME NEW j \in Imports, RollBack(j)
      PROVE  UNCHANGED <<sections, dishes>>
  BY <1>5 DEF RollBack
<1>6. ASSUME NEW s \in Sections, NEW t \in Sections, NEW place, NEW on,
             DeleteSection(s) \/ CreateSection(s, place, on) \/ UpdateSection(s, t, place, on)
      PROVE  FALSE
  BY <1>1, <1>2, <1>6 DEF DeleteSection, CreateSection, UpdateSection
<1>7. ASSUME NEW order, NEW s, ReorderSections(order) \/ ReorderDishes(s, order)
      PROVE  FALSE
  BY <1>2, <1>7 DEF ReorderSections, ReorderDishes
<1>8. ASSUME NEW d \in Dishes, NEW e \in Dishes, NEW s, NEW on, NEW permanent,
             CreateDish(d, s, on) \/ UpdateDish(d, e, s, on) \/ DeleteDish(d, permanent)
      PROVE  FALSE
  BY <1>2, <1>8 DEF CreateDish, UpdateDish, DeleteDish
<1>9. ASSUME NEW d, UploadPhoto(d) \/ DeletePhoto(d) \/ UploadBranding(d) \/ DeleteBranding(d)
                    \/ UploadPdf \/ DeletePdf
      PROVE  FALSE
  BY <1>2, <1>9 DEF UploadPhoto, DeletePhoto, UploadPdf, DeletePdf, UploadBranding, DeleteBranding,
     Upload, Remove
<1> QED  BY <1>3, <1>4, <1>5, <1>6, <1>7, <1>8, <1>9, <1>10 DEF MenuStep

(* What a line that could be written comes to when its import is written.  *)
LEMMA LineLands ==
  ASSUME MenuOK, NEW i \in Imports, ImportItems(i), NEW n \in DOMAIN imports[i].list,
         ~HasDish(imports[i].list[n].name)
  PROVE  \E m \in 1 .. n :
           /\ LineOf(i, imports[i].list[n].name, m)
           /\ dishes'[imports[i].list[n].name] = Written(i, imports[i].list[n].name)
<1> DEFINE list == imports[i].list
           d == list[n].name
           T == {k \in DOMAIN list : list[k].name = d}
           R == [name : Dishes, section : Sections \cup {Loose}]
<1>1. imports[i] # NoRow /\ SectionsStand(i)
  BY DEF ImportItems
<1>2. list \in Seq(R)
  BY <1>1, MenuAssumption DEF MenuOK, MenuTypeOK, Import
<1>3. DOMAIN list = 1 .. Len(list) /\ Len(list) \in Nat /\ d \in Dishes
  <2> HIDE DEF list, R
  <2>1. DOMAIN list = 1 .. Len(list) /\ Len(list) \in Nat
    BY <1>2
  <2>2. list[n] \in R
    BY <1>2, <2>1 DEF list
  <2> QED  BY <2>1, <2>2 DEF R
<1>4. T \in SUBSET Nat /\ n \in T
  BY <1>3
<1>5. PICK first \in T : \A k \in T : first <= k
  <2> HIDE DEF T
  <2> QED  BY <1>4, LeastNatural
<1>6. first \in LinesWritten(list)
  <2>1. ASSUME NEW k \in 1 .. first - 1
        PROVE  list[k].name # list[first].name
    <3>1. first \in Nat /\ first \in DOMAIN list /\ k \in DOMAIN list /\ ~ (first <= k)
      BY <1>3, <1>4
    <3> QED  BY <1>5, <3>1
  <2> QED  BY <2>1 DEF LinesWritten
<1>7. d \in {list[k].name : k \in LinesWritten(list)}
  BY <1>6
<1>8. PICK m : LineOf(i, d, m)
  BY <1>1, <1>7, LineWritten DEF MenuOK
<1>9. m \in 1 .. n
  <2>1. m \in DOMAIN list /\ list[m].name = d /\ \A k \in 1 .. m - 1 : list[k].name # d
    BY <1>8 DEF LineOf, LinesWritten
  <2>2. m \in Nat /\ m >= 1 /\ n \in Nat /\ n >= 1
    BY <1>3, <2>1
  <2>3. n \notin 1 .. m - 1
    BY <2>1
  <2> QED  BY <2>2, <2>3
<1>10. dishes'[d] = Written(i, d)
  BY <1>3, <1>7 DEF ImportItems
<1> QED  BY <1>8, <1>9, <1>10

(* An import that ends wrote every line whose name was free, whole, where  *)
(* it was to go, and touched nothing that was there; or it wrote nothing.  *)
(* It holds whatever is renamed, deleted, created or moved between its     *)
(* looking the sections up and its writing, and for any list.              *)
THEOREM ImportsAreWhole == MenuSpec => ImportIsWhole
<1>1. MenuOK /\ [MenuStep]_menuVars =>
        \A i \in Imports : imports[i] # NoRow /\ imports'[i] = NoRow =>
          \/ UNCHANGED <<sections, dishes>>
          \/ /\ \A d \in Dishes : HasDish(d) => dishes'[d] = dishes[d]
             /\ \A n \in DOMAIN imports[i].list :
                  LET line == imports[i].list[n] IN
                  ~HasDish(line.name) =>
                    /\ dishes'[line.name] # NoRow
                    /\ dishes'[line.name].section \in {Loose} \cup {s \in Sections : sections'[s] # NoRow}
                    /\ \E m \in 1 .. n :
                         LET first == imports[i].list[m] IN
                         /\ first.name = line.name
                         /\ \/ dishes'[line.name].section = first.section
                            \/ /\ first.section # Loose
                               /\ dishes'[line.name].section = imports[i].found[first.section]
  <2> SUFFICES ASSUME MenuOK, NEW i \in Imports, imports[i] # NoRow, imports'[i] = NoRow, ImportItems(i)
               PROVE  /\ \A d \in Dishes : HasDish(d) => dishes'[d] = dishes[d]
                      /\ \A n \in DOMAIN imports[i].list :
                           LET line == imports[i].list[n] IN
                           ~HasDish(line.name) =>
                             /\ dishes'[line.name] # NoRow
                             /\ dishes'[line.name].section
                                  \in {Loose} \cup {s \in Sections : sections'[s] # NoRow}
                             /\ \E m \in 1 .. n :
                                  LET first == imports[i].list[m] IN
                                  /\ first.name = line.name
                                  /\ \/ dishes'[line.name].section = first.section
                                     \/ /\ first.section # Loose
                                        /\ dishes'[line.name].section = imports[i].found[first.section]
    BY ImportEnds DEF menuVars
  <2>1. ASSUME NEW d \in Dishes, HasDish(d)
        PROVE  dishes'[d] = dishes[d]
    BY <2>1 DEF ImportItems, LinesWritten
  <2>2. ASSUME NEW s \in Sections, s \in Missing(i) \/ sections[s] # NoRow
        PROVE  sections'[s] # NoRow
    <3>1. s \in Missing(i) => NewPlace(i, s) \in Nat
      BY MenuAssumption DEF ImportItems
    <3>2. s \in Missing(i) => [place |-> NewPlace(i, s), on |-> TRUE] \in Section
      BY <3>1 DEF Section
    <3> QED  BY <2>2, <3>2, NoRowIsNoRow DEF ImportItems
  <2>3. ASSUME NEW n \in DOMAIN imports[i].list, ~HasDish(imports[i].list[n].name)
        PROVE  LET d == imports[i].list[n].name IN
               /\ dishes'[d] # NoRow
               /\ dishes'[d].section \in {Loose} \cup {s \in Sections : sections'[s] # NoRow}
               /\ \E m \in 1 .. n :
                    /\ imports[i].list[m].name = d
                    /\ \/ dishes'[d].section = imports[i].list[m].section
                       \/ /\ imports[i].list[m].section # Loose
                          /\ dishes'[d].section = imports[i].found[imports[i].list[m].section]
    <3> DEFINE d == imports[i].list[n].name
    <3>1. PICK m \in 1 .. n : LineOf(i, d, m) /\ dishes'[d] = Written(i, d)
      BY <2>3, LineLands
    <3> DEFINE s == imports[i].list[m].section
    <3> HIDE DEF d, s
    <3>2. /\ imports[i].list[m].name = d /\ dishes'[d] \in Dish
          /\ \/ dishes'[d].section = s /\ (s = Loose \/ s \in Missing(i))
             \/ /\ s \in Sections /\ imports[i].found[s] \in Sections
                /\ dishes'[d].section = imports[i].found[s]
      BY <3>1 DEF LineOf, s
    <3>3. dishes'[d] # NoRow /\ dishes'[d].section \in Sections \cup {Loose}
      BY <3>2, NoRowIsNoRow DEF Dish
    <3>4. s \in Sections /\ imports[i].found[s] \in Sections => sections[imports[i].found[s]] # NoRow
      BY DEF MenuOK, FoundStand, HasSection
    <3>5. dishes'[d].section \in {Loose} \cup {x \in Sections : sections'[x] # NoRow}
      BY <2>2, <3>2, <3>3, <3>4
    <3>6. s \in Sections => s # Loose
      BY MenuAssumption
    <3> QED  BY <3>1, <3>2, <3>3, <3>5, <3>6 DEF d, s
  <2> QED  BY <2>1, <2>3
<1> QED  BY <1>1, MenuSafe, PTL DEF MenuSpec, ImportIsWhole
=============================================================================
