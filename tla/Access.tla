------------------------------- MODULE Access -------------------------------
(***************************************************************************)
(* How one account gets in and stays in (services/auth.js, mfa.js,         *)
(* loginThrottle.js): a password, a second factor when there is one, a     *)
(* chain of refresh tokens of which each is used once, and a counter of    *)
(* failures that turns attempts away for a while.                          *)
(*                                                                         *)
(* A transaction that holds a row is one step, or two where the code reads *)
(* something between its statements.                                       *)
(***************************************************************************)
EXTENDS Naturals, Sequences, FiniteSets

CONSTANTS
  Requests,      \* requests handled at once
  MaxFailures,   \* config.auth.maxAccountFailures
  Window,        \* config.auth.accountFailureWindowSeconds, in ticks
  MaxStep,       \* bound: steps of the authenticator's clock
  MaxSecrets,    \* bound: enrolments
  MaxSheets,     \* bound: sheets of recovery codes
  MaxTokens,     \* bound: refresh tokens that are issued
  Nothing      \* no request

ASSUME AccessAssumption ==
  /\ MaxFailures \in Nat \ {0} /\ Window \in Nat \ {0}
  /\ IsFiniteSet(Requests)
  /\ MaxStep \in Nat \ {0} /\ MaxSecrets \in Nat /\ MaxSheets \in Nat /\ MaxTokens \in Nat

VARIABLES
  active,      \* the account may be used
  factor,      \* the second factor: what it is at, and the number of its secret
  last,        \* mfa_last_step; 0 when null
  sheet,       \* the recovery code of the current sheet, until it is used
  now,         \* the step the clock is in
  challenged,  \* a password has been right, and its challenge lives
  failures,    \* the counter of the address and the counter of the account
  sessions,    \* refresh_sessions, in the order they are issued: what became of
               \* each, and the session it was exchanged for (0: a login)
  requests,
  spent        \* how often each code was accepted

vars == <<active, factor, last, sheet, now, challenged, failures,
          sessions, requests, spent>>
account == <<active, factor, last, sheet, now, challenged, spent>>

Codes == {"TOTP"} \X (1 .. MaxSecrets) \X (1 .. MaxStep + 1)
         \cup {"SHEET"} \X (1 .. MaxSheets)
Keys == {"ADDRESS", "ACCOUNT"}
Fresh == [count |-> 0, ttl |-> 0]
Session == [status : {"LIVE", "CLAIMED", "REVOKED", "EXPIRED"}, from : 0 .. MaxTokens]
(* What a login saw of the account before it verified the password.        *)
Sights == {"GONE", "PLAIN", "FACTOR"}
Request ==
  [step : {"PASSWORD"}, seen : Sights] \cup [step : {"FACTOR"}] \cup [step : {"CLAIMED"}, token : 1 .. MaxTokens]
  \cup [step : {"REVOKING", "REUSED"}, upto : 0 .. MaxTokens]

TypeOK ==
  /\ active \in BOOLEAN /\ challenged \in BOOLEAN
  /\ factor \in [state : {"OFF", "PENDING", "ON"}, secret : 0 .. MaxSecrets]
  /\ last \in 0 .. MaxStep + 1 /\ now \in 1 .. MaxStep
  /\ sheet \in [number : 0 .. MaxSheets, left : BOOLEAN]
  /\ failures \in [Keys -> [count : Nat, ttl : 0 .. Window]]
  /\ sessions \in Seq(Session) /\ Len(sessions) <= MaxTokens
  /\ requests \in [Requests -> Request \cup {Nothing}]
  /\ spent \in [Codes -> Nat]

Init ==
  /\ active = TRUE /\ challenged = FALSE
  /\ factor = [state |-> "OFF", secret |-> 0]
  /\ last = 0 /\ now = 1
  /\ sheet = [number |-> 0, left |-> FALSE]
  /\ failures = [k \in Keys |-> Fresh]
  /\ sessions = << >>
  /\ requests = [r \in Requests |-> Nothing]
  /\ spent = [c \in Codes |-> 0]

-----------------------------------------------------------------------------
(* Time: the authenticator's clock, the life of a challenge, of a counter  *)
(* in Redis and of a session.                                              *)

Tick ==
  /\ now < MaxStep /\ now' = now + 1
  /\ UNCHANGED <<active, factor, last, sheet, challenged, spent, failures, sessions, requests>>

ChallengeExpires ==
  /\ challenged /\ challenged' = FALSE
  /\ UNCHANGED <<active, factor, last, sheet, now, spent, failures, sessions, requests>>

WindowPasses(k) ==
  /\ failures[k].ttl > 0
  /\ failures' = [failures EXCEPT ![k] =
       IF failures[k].ttl = 1 THEN Fresh ELSE [failures[k] EXCEPT !.ttl = @ - 1]]
  /\ UNCHANGED <<account, sessions, requests>>

-----------------------------------------------------------------------------
(* The throttle: asked before the work, told of every failure.  An attempt *)
(* that is turned away is no failure.                                      *)

(* Wrong: it is not asked.                                                 *)
MayTryAlways(k) == TRUE
MayTry(k) == failures[k].count < MaxFailures

(* Raised, and its expiry set again, in one MULTI.                         *)
(* Wrong: the counter is raised and left without an expiry.                *)
CountedForGood(k) == [failures EXCEPT ![k].count = @ + 1]
Counted(k) == [failures EXCEPT ![k] = [count |-> @.count + 1, ttl |-> Window]]
Cleared(k) == [failures EXCEPT ![k] = Fresh]

Ask(r, request) == requests[r] = Nothing /\ requests' = [requests EXCEPT ![r] = request]
Is(r, step) == requests[r] # Nothing /\ requests[r].step = step
Answer(r) == requests' = [requests EXCEPT ![r] = Nothing]

Tokens == DOMAIN sessions
Status(t) == sessions[t].status
Turns(t, status) == [sessions EXCEPT ![t].status = status]

(* A new refresh token.                                                    *)
Issue(old, from) ==
  /\ Len(sessions) < MaxTokens
  /\ sessions' = Append(old, [status |-> "LIVE", from |-> from])

SessionExpires(t) ==
  /\ Status(t) = "LIVE" /\ sessions' = Turns(t, "EXPIRED")
  /\ UNCHANGED <<account, failures, requests>>

-----------------------------------------------------------------------------
(* login.                                                                  *)

(* The account is read before the password is verified, which takes long,  *)
(* and is not read again.                                                  *)
Sight == IF ~active THEN "GONE" ELSE IF factor.state = "ON" THEN "FACTOR" ELSE "PLAIN"

BeginLogin(r) ==
  /\ MayTry("ADDRESS") /\ Ask(r, [step |-> "PASSWORD", seen |-> Sight])
  /\ UNCHANGED <<account, failures, sessions>>

(* Unknown, inactive or wrong: the same failure.                           *)
FailLogin(r) ==
  /\ Is(r, "PASSWORD") /\ Answer(r)
  /\ failures' = Counted("ADDRESS")
  /\ UNCHANGED <<account, sessions>>

LoginWithPassword(r) ==
  /\ Is(r, "PASSWORD") /\ requests[r].seen = "PLAIN" /\ Answer(r)
  /\ failures' = Cleared("ADDRESS")
  /\ Issue(sessions, 0)
  /\ UNCHANGED account

Challenge(r) ==
  /\ Is(r, "PASSWORD") /\ requests[r].seen = "FACTOR" /\ Answer(r)
  /\ failures' = Cleared("ADDRESS")
  /\ challenged' = TRUE
  /\ UNCHANGED <<active, factor, last, sheet, now, spent, sessions>>

-----------------------------------------------------------------------------
(* consume, with the row of the user locked: a code of the current secret, *)
(* a step around the clock's and after the last one accepted, or the       *)
(* recovery code that is left.                                             *)

InWindow(step) == step + 1 >= now /\ step <= now + 1

(* Wrong: a step is good for as long as it is near.                        *)
NewStepAlways(step) == InWindow(step)
NewStep(step) == InWindow(step) /\ step > last

OfSecret(c) == c[1] = "TOTP" /\ c[2] = factor.secret
OfSheet(c) == c[1] = "SHEET" /\ c[2] = sheet.number /\ sheet.left
Accepts(c) == (OfSecret(c) /\ NewStep(c[3])) \/ OfSheet(c)
Spend(c) == spent' = [spent EXCEPT ![c] = @ + 1]
LastAfter(c) == IF c[1] = "TOTP" THEN c[3] ELSE last
SheetAfter(c) == IF c[1] = "SHEET" THEN [sheet EXCEPT !.left = FALSE] ELSE sheet
NextSheet == [number |-> sheet.number + 1, left |-> TRUE]

(* completeMfaLogin.                                                       *)
BeginFactor(r) ==
  /\ challenged /\ MayTry("ACCOUNT") /\ Ask(r, [step |-> "FACTOR"])
  /\ UNCHANGED <<account, failures, sessions>>

LoginWithCode(r, c) ==
  /\ Is(r, "FACTOR") /\ active /\ factor.state = "ON" /\ Accepts(c) /\ Answer(r)
  /\ last' = LastAfter(c) /\ sheet' = SheetAfter(c) /\ Spend(c)
  /\ Issue(sessions, 0)
  /\ failures' = Cleared("ACCOUNT")
  /\ UNCHANGED <<active, factor, now, challenged>>

FailFactor(r) ==
  /\ Is(r, "FACTOR") /\ Answer(r)
  /\ failures' = Counted("ACCOUNT")
  /\ UNCHANGED <<account, sessions>>

-----------------------------------------------------------------------------
(* Enrolment, for whoever holds an access token of the account.            *)

BeginEnrolment ==
  /\ factor.state # "ON" /\ factor.secret < MaxSecrets
  /\ factor' = [state |-> "PENDING", secret |-> factor.secret + 1] /\ last' = 0
  /\ UNCHANGED <<active, sheet, now, challenged, spent, failures, sessions, requests>>

ConfirmEnrolment(c) ==
  /\ factor.state = "PENDING" /\ OfSecret(c) /\ InWindow(c[3]) /\ sheet.number < MaxSheets
  /\ factor' = [factor EXCEPT !.state = "ON"] /\ last' = c[3]
  /\ sheet' = NextSheet /\ Spend(c)
  /\ UNCHANGED <<active, now, challenged, failures, sessions, requests>>

Disable(c) ==
  /\ factor.state = "ON" /\ Accepts(c)
  /\ factor' = [factor EXCEPT !.state = "OFF"] /\ last' = 0
  /\ sheet' = [sheet EXCEPT !.left = FALSE] /\ Spend(c)
  /\ UNCHANGED <<active, now, challenged, failures, sessions, requests>>

RegenerateCodes(c) ==
  /\ factor.state = "ON" /\ Accepts(c) /\ sheet.number < MaxSheets
  /\ last' = LastAfter(c) /\ sheet' = NextSheet /\ Spend(c)
  /\ UNCHANGED <<active, factor, now, challenged, failures, sessions, requests>>

-----------------------------------------------------------------------------
(* refresh: the UPDATE claims the token and keeps its row until the        *)
(* account has been read and the next token written.                       *)

(* Wrong: whatever has not expired may be claimed.                         *)
ClaimableUsed(t) == Status(t) \in {"LIVE", "REVOKED"}
Claimable(t) == Status(t) = "LIVE"

Claim(r, t) ==
  /\ requests[r] = Nothing /\ Claimable(t)
  /\ requests' = [requests EXCEPT ![r] = [step |-> "CLAIMED", token |-> t]]
  /\ sessions' = Turns(t, "CLAIMED")
  /\ UNCHANGED <<account, failures>>

Rotate(r) ==
  LET t == requests[r].token IN
  /\ Is(r, "CLAIMED") /\ active /\ Answer(r)
  /\ Issue(Turns(t, "REVOKED"), t)
  /\ UNCHANGED <<account, failures>>

(* The account is inactive, or the process dies: the claim is undone.      *)
Unclaim(r) ==
  /\ Is(r, "CLAIMED") /\ Answer(r)
  /\ sessions' = Turns(requests[r].token, "LIVE")
  /\ UNCHANGED <<account, failures>>

(* A token presented after it was used.  Every session of the account is   *)
(* revoked, in the transaction that the refusal then undoes.               *)
PresentUsed(r, t) ==
  /\ requests[r] = Nothing /\ Status(t) = "REVOKED"
  /\ requests' = [requests EXCEPT ![r] = [step |-> "REUSED", upto |-> Len(sessions)]]
  /\ UNCHANGED <<account, failures, sessions>>

RefuseUsed(r) ==
  /\ Is(r, "REUSED") /\ Answer(r)
  /\ UNCHANGED <<account, failures, sessions>>

-----------------------------------------------------------------------------
(* revokeSession, and revokeAllSessionsForUser as the last step of a       *)
(* change of password, a reset or a removal: an UPDATE of the sessions it  *)
(* saw when it began, which waits for those another transaction holds.     *)

Logout(t) ==
  /\ Status(t) = "LIVE" /\ sessions' = Turns(t, "REVOKED")
  /\ UNCHANGED <<account, failures, requests>>

RevokeAll(r) ==
  /\ requests[r] = Nothing
  /\ requests' = [requests EXCEPT ![r] = [step |-> "REVOKING", upto |-> Len(sessions)]]
  /\ UNCHANGED <<account, failures, sessions>>

Seen(r) == 1 .. requests[r].upto
Revoked(r) ==
  [t \in Tokens |-> IF t \in Seen(r) /\ Status(t) = "LIVE"
                    THEN [sessions[t] EXCEPT !.status = "REVOKED"] ELSE sessions[t]]

Revoke(r) ==
  /\ Is(r, "REVOKING") /\ \A t \in Seen(r) : Status(t) # "CLAIMED"
  /\ sessions' = Revoked(r) /\ Answer(r)
  /\ UNCHANGED <<account, failures>>

(* changeOwnPassword signs its own device in again.                        *)
RevokeOthers(r) ==
  /\ Is(r, "REVOKING") /\ \A t \in Seen(r) : Status(t) # "CLAIMED"
  /\ Issue(Revoked(r), 0) /\ Answer(r)
  /\ UNCHANGED <<account, failures>>

(* Removed and reinstated (staff.js).                                      *)
SetActive ==
  /\ active' = ~active
  /\ UNCHANGED <<factor, last, sheet, now, challenged, spent, failures, sessions, requests>>

-----------------------------------------------------------------------------
Passing == Tick \/ ChallengeExpires \/ \E k \in Keys : WindowPasses(k)

Factor ==
  BeginEnrolment \/ \E c \in Codes : ConfirmEnrolment(c) \/ Disable(c) \/ RegenerateCodes(c)

Login(r) ==
  \/ BeginLogin(r) \/ FailLogin(r) \/ Challenge(r) \/ BeginFactor(r) \/ FailFactor(r)
  \/ LoginWithPassword(r) \/ \E c \in Codes : LoginWithCode(r, c)

Chain(r) ==
  \/ Unclaim(r) \/ RefuseUsed(r) \/ RevokeAll(r) \/ Revoke(r) \/ RevokeOthers(r)
  \/ Rotate(r) \/ \E t \in Tokens : Claim(r, t) \/ PresentUsed(r, t)

Next ==
  \/ Passing \/ Factor \/ SetActive
  \/ \E r \in Requests : Login(r) \/ Chain(r)
  \/ \E t \in Tokens : Logout(t) \/ SessionExpires(t)

Spec == Init /\ [][Next]_vars

-----------------------------------------------------------------------------
(* Properties.                                                             *)

(* A code completes one thing: two requests that carry the same code, one  *)
(* that enrolled with it and logs in with it, a step that is still in the  *)
(* window, never have it accepted twice.                                   *)
CodeAcceptedOnce == \A c \in Codes : spent[c] <= 1

(* "two concurrent requests carrying the same token cannot both succeed":  *)
(* a refresh token is exchanged for one other at most.                     *)
OneSuccessor ==
  \A s, t \in Tokens : sessions[s].from # 0 /\ sessions[s].from = sessions[t].from => s = t

(* Only attempts that were let in count: what passes the limit, and starts *)
(* the window of a lock again, were under way before it (assertNotThrottled*)
(* and recordFailure).                                                     *)
RefusedDoNotCount == \A k \in Keys : failures[k].count < MaxFailures + Cardinality(Requests)

(* "no persistent lock, a short self-healing window": whoever is turned    *)
(* away is let in again, however many go on trying, if time passes.        *)
LockEnds(k) == failures[k].count >= MaxFailures ~> failures[k].count < MaxFailures

(* "a token presented after it has already been claimed is treated as      *)
(* theft, which revokes every session for that user" (README.md:948).      *)
ReuseEndsSessions ==
  [][\A r \in Requests : Is(r, "REUSED") /\ requests'[r] = Nothing
       => \A t \in Seen(r) : sessions'[t].status # "LIVE"]_vars
=============================================================================
