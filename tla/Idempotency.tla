---------------------------- MODULE Idempotency ----------------------------
(***************************************************************************)
(* One idempotency key of one restaurant, and the requests that carry it:  *)
(* a client's first attempt and its retries, some of them concurrent, on   *)
(* the two routes that move money (a payment at the till, a C2P charge).   *)
(*                                                                         *)
(* begin, complete and abort are single statements outside any             *)
(* transaction, so another request can fall between any two of them; the   *)
(* process can die anywhere.  What the route does in the middle is one     *)
(* committed row of payments, which carries the key under a unique index,  *)
(* and the money that moves because of it.                                 *)
(***************************************************************************)
EXTENDS Naturals

CONSTANTS
  Requests,   \* deliveries of a request with this key
  Hashes,     \* what the key was used for: hashes of method, path and body
  None

MaxClaimAttempts == 2

Row == [hash : Hashes, response : Requests \cup {None}]

ASSUME IdempotencyAssumption == None \notin Requests \cup Row

VARIABLES
  row,       \* the row of idempotency_keys for this key
  expired,   \* its expires_at is past
  paid,      \* the requests whose payment row was committed
  requests   \* where each request is, its hash, and what it replied

vars == <<row, expired, paid, requests>>
-----------------------------------------------------------------------------
Place == {"NEW", "CLEARING", "INSERTING", "READING", "OWNER", "PAID", "RETURNED",
          "THROWING", "ANSWERED", "REPLAYED", "BUSY", "REUSED", "ERROR", "DEAD"}
Finished == {"ANSWERED", "REPLAYED", "BUSY", "REUSED", "ERROR", "DEAD"}
Owning == {"OWNER", "PAID", "RETURNED", "THROWING"}

TypeOK ==
  /\ row \in Row \cup {None}
  /\ expired \in BOOLEAN
  /\ paid \subseteq Requests
  /\ requests \in [Requests -> [at : Place, hash : Hashes \cup {None},
                                attempt : 1 .. MaxClaimAttempts, answer : Requests \cup {None}]]

Init ==
  /\ row = None /\ expired = FALSE /\ paid = {}
  /\ requests = [r \in Requests |-> [at |-> "NEW", hash |-> None, attempt |-> 1, answer |-> None]]

At(r, place) == requests[r].at = place
Goes(r, place) == requests' = [requests EXCEPT ![r].at = place]
Answers(r, place, q) == requests' = [requests EXCEPT ![r].at = place, ![r].answer = q]
-----------------------------------------------------------------------------
(* begin.                                                                  *)

Arrive(r, hash) ==
  /\ At(r, "NEW")
  /\ requests' = [requests EXCEPT ![r].at = "CLEARING", ![r].hash = hash]
  /\ UNCHANGED <<row, expired, paid>>

(* DELETE of this key's expired row.                                       *)
ClearExpired(r) ==
  /\ At(r, "CLEARING") /\ Goes(r, "INSERTING")
  /\ row' = IF expired THEN None ELSE row
  /\ expired' = FALSE
  /\ UNCHANGED paid

(* INSERT ... ON CONFLICT DO NOTHING.                                      *)
Claim(r) ==
  /\ At(r, "INSERTING") /\ row = None
  /\ row' = [hash |-> requests[r].hash, response |-> None]
  /\ Goes(r, "OWNER")
  /\ UNCHANGED <<expired, paid>>

FindTaken(r) ==
  /\ At(r, "INSERTING") /\ row # None
  /\ Goes(r, "READING")
  /\ UNCHANGED <<row, expired, paid>>

(* Wrong: no row is there any more, so the key is free and this request's. *)
FindVanishedAsOwner(r) ==
  /\ At(r, "READING") /\ row = None
  /\ Goes(r, "OWNER")
  /\ UNCHANGED <<row, expired, paid>>

(* The row in the way has gone: claim again, once.                         *)
FindVanished(r) ==
  /\ At(r, "READING") /\ row = None
  /\ IF requests[r].attempt = MaxClaimAttempts
     THEN Goes(r, "BUSY")
     ELSE requests' = [requests EXCEPT ![r].at = "CLEARING", ![r].attempt = @ + 1]
  /\ UNCHANGED <<row, expired, paid>>

(* Wrong: whatever was stored is replayed.                                 *)
SameUseAlways(r) == TRUE

SameUse(r) == row.hash = requests[r].hash

RefuseOtherUse(r) ==
  /\ At(r, "READING") /\ row # None /\ ~ SameUse(r)
  /\ Goes(r, "REUSED")
  /\ UNCHANGED <<row, expired, paid>>

Replay(r) ==
  /\ At(r, "READING") /\ row # None /\ SameUse(r) /\ row.response # None
  /\ Answers(r, "REPLAYED", row.response)
  /\ UNCHANGED <<row, expired, paid>>

FindBusy(r) ==
  /\ At(r, "READING") /\ row # None /\ SameUse(r) /\ row.response = None
  /\ Goes(r, "BUSY")
  /\ UNCHANGED <<row, expired, paid>>
-----------------------------------------------------------------------------
(* The operation, and what the route does about its end.                   *)

(* payments_idempotency_idx: one row of payments per key, for ever.        *)
KeyUnpaid == paid = {}

(* The payment row commits; from here on money has moved or may move.      *)
Pay(r) ==
  /\ At(r, "OWNER") /\ KeyUnpaid
  /\ paid' = paid \cup {r}
  /\ Goes(r, "PAID")
  /\ UNCHANGED <<row, expired>>

(* Refused before any row was written, or by that index.                   *)
Refuse(r) ==
  /\ At(r, "OWNER")
  /\ Goes(r, "THROWING")
  /\ UNCHANGED <<row, expired, paid>>

(* The service returns what became of the money.                           *)
Return(r) ==
  /\ At(r, "PAID")
  /\ Answers(r, "RETURNED", r)
  /\ UNCHANGED <<row, expired, paid>>

(* Or throws after the row committed: the till's COMMIT is not acknowledg- *)
(* ed, or the bank's refusal of a charge cannot be recorded.               *)
PayThrows(r) ==
  /\ At(r, "PAID")
  /\ Goes(r, "THROWING")
  /\ UNCHANGED <<row, expired, paid>>

(* The response is stored under the key, whoever's row it is; a row that   *)
(* has vanished is only logged.                                            *)
Stored(r) == IF row = None THEN None ELSE [row EXCEPT !.response = r]

(* complete, and the client has its answer.                                *)
Complete(r) ==
  /\ At(r, "RETURNED")
  /\ row' = Stored(r)
  /\ Answers(r, "ANSWERED", r)
  /\ UNCHANGED <<expired, paid>>

(* complete fails, its answer is lost, or the record kept after it fails:  *)
(* the route takes each for a failure, whether the response is stored or   *)
(* not.                                                                    *)
CompleteThrows(r) ==
  /\ At(r, "RETURNED")
  /\ Goes(r, "THROWING")
  /\ row' \in {row, Stored(r)}
  /\ UNCHANGED <<expired, paid>>

(* Wrong: whatever is there of the key goes.                               *)
ReleasedAlways == None

(* What abort leaves of the row: a stored response stays.                  *)
Released == IF row # None /\ row.response = None THEN None ELSE row

(* abort, or its failure: the client hears the error in both cases.        *)
Abort(r) ==
  /\ At(r, "THROWING")
  /\ Goes(r, "ERROR")
  /\ row' = Released
  /\ expired' = (expired /\ row' # None)
  /\ UNCHANGED paid

AbortFails(r) ==
  /\ At(r, "THROWING")
  /\ Goes(r, "ERROR")
  /\ UNCHANGED <<row, expired, paid>>

Crash(r) ==
  /\ requests[r].at \notin Finished \cup {"NEW"}
  /\ Goes(r, "DEAD")
  /\ UNCHANGED <<row, expired, paid>>
-----------------------------------------------------------------------------
(* A day passes: no request that holds the key runs that long.             *)
Expire ==
  /\ row # None /\ ~ expired
  /\ \A r \in Requests : requests[r].at \notin Owning
  /\ expired' = TRUE
  /\ UNCHANGED <<row, paid, requests>>

Purge ==
  /\ expired
  /\ row' = None /\ expired' = FALSE
  /\ UNCHANGED <<paid, requests>>

Step(r) ==
  \/ ClearExpired(r) \/ Claim(r) \/ FindTaken(r) \/ FindVanished(r)
  \/ RefuseOtherUse(r) \/ Replay(r) \/ FindBusy(r)
  \/ Pay(r) \/ Refuse(r) \/ Return(r) \/ PayThrows(r)
  \/ Complete(r) \/ CompleteThrows(r)
  \/ Abort(r) \/ AbortFails(r)

Next ==
  \/ \E r \in Requests : (\E hash \in Hashes : Arrive(r, hash)) \/ Step(r) \/ Crash(r)
  \/ Expire \/ Purge

Spec == Init /\ [][Next]_vars
-----------------------------------------------------------------------------
(* At most one request works under the key at a time, retries that find    *)
(* the row vanished included.                                              *)
OneOwner == \A r, q \in Requests : requests[r].at \in Owning /\ requests[q].at \in Owning => r = q

(* A stored response outlives every failure of the requests around it: it  *)
(* leaves the table only when the key expires.                             *)
ResponseKept ==
  [][row # None /\ row.response # None /\ ~ expired => row' = row]_vars

(* A replay answers the same use of the key by the request that paid.      *)
ReplayIsTheOutcome ==
  \A r \in Requests : At(r, "REPLAYED") =>
    LET q == requests[r].answer IN q \in paid /\ requests[q].hash = requests[r].hash
=============================================================================
