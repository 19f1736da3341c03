---------------------------- MODULE GuestSessions ----------------------------
(***************************************************************************)
(* The sessions of diners (services/guest) and the room they order in.     *)
(* A session is a row, with the time it must die at and whether it was closed, *)
(* and an entry of the cache, whose life slides with every request.  The   *)
(* entry carries the cap of the row: a request that finds it never reads   *)
(* the row.                                                                *)
(*                                                                         *)
(* The cache may refuse a write and lose an entry at any time.             *)
(***************************************************************************)
EXTENDS Tables, FiniteSetsExt

CONSTANTS
  Sessions,
  Calls,       \* requests of diners under way
  Idle,        \* the life of an entry of the cache
  Cap,         \* the life of a session
  LastTick,    \* bound: how long the room is looked at
  MaxAtOnce    \* bound: requests under way, of diners and of the house

ASSUME GuestSessionsAssumption ==
  /\ Idle \in Nat \ {0} /\ Cap \in Nat \ {0} /\ LastTick \in Nat
  /\ MaxAtOnce \in Nat

VARIABLES
  now,
  rows,        \* guest_sessions
  cache,
  calls

doorVars == <<now, rows, cache, calls>>
vars == <<roomVars, doorVars>>

Row == [table : Tables, expires : Nat, closed : BOOLEAN]
Entry == [cap : Nat \cup {None}, until : Nat]
Call ==
  [session : Sessions, step : {"ROW", "WARM", "IN", "OUT", "DROP"},
   ttl : 0..Idle]

ASSUME NoneNotHere == None \notin Row \cup Entry \cup Call

TypeOK ==
  /\ RoomTypeOK
  /\ now \in 0..LastTick
  /\ rows \in [Sessions -> Row \cup {None}]
  /\ cache \in [Sessions -> Entry \cup {None}]
  /\ calls \in [Calls -> Call \cup {None}]

(* A session may have been cached by the version before this one, which    *)
(* wrote no cap.                                                           *)
Init ==
  /\ RoomInit /\ now = 0
  /\ calls = [c \in Calls |-> None]
  /\ \E old \in SUBSET Sessions, t \in Tables :
       /\ rows = [s \in Sessions |->
            IF s \in old THEN [table |-> t, expires |-> Cap, closed |-> FALSE] ELSE None]
       /\ cache = [s \in Sessions |->
            IF s \in old THEN [cap |-> None, until |-> Idle] ELSE None]

-----------------------------------------------------------------------------
(* The life an entry is given: what is left until the cap, at most Idle.   *)
CappedTtl(cap) == IF cap <= now THEN 0 ELSE Min({Idle, cap - now})

Put(s, cap, ttl) == [cache EXCEPT ![s] = [cap |-> cap, until |-> now + ttl]]
Removed(s) == [cache EXCEPT ![s] = None]

(* Every write to the cache may fail, and then leaves it as it was.        *)
Try(written) == cache' = written \/ UNCHANGED cache

(* An entry is gone when its time is over.                                 *)
Tick ==
  /\ now < LastTick /\ now' = now + 1
  /\ cache' = [s \in Sessions |->
       IF cache[s] = None \/ cache[s].until <= now + 1 THEN None ELSE cache[s]]
  /\ UNCHANGED <<roomVars, rows, calls>>

(* Flushed, evicted or restarted.                                          *)
LoseEntry(s) ==
  /\ cache[s] # None
  /\ cache' = Removed(s) /\ UNCHANGED <<roomVars, now, rows, calls>>

(* The checks of a scanned code (the one the table has now).               *)
Admits(t) == tables[t] = "ON"

(* A code is exchanged for a session.  The row is written first.          *)
(* Bound: sessions that can be followed to their end.                      *)
CreateSession(s, t) ==
  /\ rows[s] = None /\ Admits(t)
  /\ now + Cap <= LastTick
  /\ rows' = [rows EXCEPT ![s] = [table |-> t, expires |-> now + Cap, closed |-> FALSE]]
  /\ Try(Put(s, now + Cap, CappedTtl(now + Cap)))
  /\ UNCHANGED <<roomVars, now, calls>>

-----------------------------------------------------------------------------
(* resolveGuestSession.                                                    *)

Answer(c, s, step, ttl) ==
  calls' = [calls EXCEPT ![c] = [session |-> s, step |-> step, ttl |-> ttl]]


(* What a cached entry is worth.                                           *)
HasCap(entry) == entry.cap # None

(* Wrong: an entry lets in as long as it is found.                         *)
AliveWhileFound(entry) == TRUE
Alive(entry) == entry.cap > now

FindCached(c, s) ==
  /\ calls[c] = None /\ rows[s] # None /\ cache[s] # None
  /\ HasCap(cache[s]) /\ Alive(cache[s])
  /\ Answer(c, s, "IN", 0)
  /\ Try([cache EXCEPT ![s].until = now + CappedTtl(cache[s].cap)])
  /\ UNCHANGED <<roomVars, now, rows>>

FindExpired(c, s) ==
  /\ calls[c] = None /\ rows[s] # None /\ cache[s] # None
  /\ HasCap(cache[s]) /\ ~Alive(cache[s])
  /\ Answer(c, s, "OUT", 0)
  /\ Try(Removed(s))
  /\ UNCHANGED <<roomVars, now, rows>>

(* No entry, no cache, or an entry without a cap, which is dropped.        *)
Miss(c, s) ==
  /\ calls[c] = None /\ rows[s] # None
  /\ Answer(c, s, "ROW", 0)
  /\ IF cache[s] # None THEN Try(Removed(s)) ELSE UNCHANGED cache
  /\ UNCHANGED <<roomVars, now, rows>>

RowAlive(row) == ~row.closed /\ row.expires > now

ReadRow(c) ==
  /\ calls[c] # None /\ calls[c].step = "ROW"
  /\ LET s == calls[c].session
     IN IF RowAlive(rows[s]) THEN Answer(c, s, "WARM", CappedTtl(rows[s].expires))
        ELSE Answer(c, s, "OUT", 0)
  /\ UNCHANGED <<roomVars, now, rows, cache>>

(* The life was computed when the row was read, and begins now.            *)
Warm(c) ==
  /\ calls[c] # None /\ calls[c].step = "WARM"
  /\ Try(Put(calls[c].session, rows[calls[c].session].expires, calls[c].ttl))
  /\ calls' = [calls EXCEPT ![c].step = "IN"]
  /\ UNCHANGED <<roomVars, now, rows>>

-----------------------------------------------------------------------------
(* What a diner who was let in does.                                       *)

Inside(c) == calls[c] # None /\ calls[c].step = "IN"
Leave(c) == calls' = [calls EXCEPT ![c] = None]

OrderFromTable(c, r, p) ==
  /\ Inside(c) /\ Leave(c)
  /\ AskOrder(r, rows[calls[c].session].table, p, TRUE)
  /\ UNCHANGED <<now, rows, cache>>

(* The row is stamped first, then the entry is deleted.                    *)
CloseSession(c) ==
  /\ Inside(c)
  /\ rows' = [rows EXCEPT ![calls[c].session].closed = TRUE]
  /\ calls' = [calls EXCEPT ![c].step = "DROP"]
  /\ UNCHANGED <<roomVars, now, cache>>

DropEntry(c) ==
  /\ calls[c] # None /\ calls[c].step = "DROP"
  /\ Try(Removed(calls[c].session)) /\ Leave(c)
  /\ UNCHANGED <<roomVars, now, rows>>

(* Any other request, a refusal, or a process that dies.                   *)
EndCall(c) ==
  /\ calls[c] # None /\ Leave(c)
  /\ UNCHANGED <<roomVars, now, rows, cache>>

-----------------------------------------------------------------------------
DoorStep ==
  \/ Tick
  \/ \E s \in Sessions : LoseEntry(s) \/ \E t \in Tables : CreateSession(s, t)
  \/ \E c \in Calls, s \in Sessions : FindCached(c, s) \/ FindExpired(c, s) \/ Miss(c, s)
  \/ \E c \in Calls : ReadRow(c) \/ Warm(c) \/ CloseSession(c) \/ DropEntry(c) \/ EndCall(c)
  \/ \E c \in Calls, r \in Requests, p \in Products : OrderFromTable(c, r, p)

UnderWay == {r \in Requests : requests[r] # None} \cup {c \in Calls : calls[c] # None}

Next ==
  /\ DoorStep \/ (RoomStep /\ UNCHANGED doorVars)
  /\ Cardinality(UnderWay') <= MaxAtOnce
Spec == Init /\ [][Next]_vars

-----------------------------------------------------------------------------
(* Whatever the cache loses, keeps or is late with, a diner is let in only *)
(* before the cap of the session, and turned away only after it or when    *)
(* the session was closed (resolveGuestSession).                           *)
LetIn(c) == calls[c] # None /\ calls[c].step \in {"IN", "WARM", "DROP"}
TurnedAway(c) == calls[c] # None /\ calls[c].step = "OUT"

CapDecides ==
  [][\A c \in Calls :
       /\ ~LetIn(c) /\ LetIn(c)' => now < rows[calls'[c].session].expires
       /\ ~TurnedAway(c) /\ TurnedAway(c)' =>
            LET row == rows[calls'[c].session] IN row.closed \/ row.expires <= now
    ]_vars
=============================================================================
