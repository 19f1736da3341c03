---------------------------- MODULE AccountProofs ----------------------------
(***************************************************************************)
(* What the way into an account guarantees, for any number of requests,    *)
(* codes, enrolments and refresh tokens; and what the exchange rates of a  *)
(* process do.                                                             *)
(***************************************************************************)
EXTENDS Access, Rates, FiniteSetTheorems, SequenceTheorems, WellFoundedInduction, TLAPS

(* A code has a step or the number of its sheet.                           *)
LEMMA CodeTyped ==
  ASSUME NEW c \in Codes
  PROVE  \/ c[1] = "TOTP" /\ c[2] \in 1 .. MaxSecrets /\ c[3] \in 1 .. MaxStep + 1
         \/ c[1] = "SHEET" /\ c[2] \in 1 .. MaxSheets
BY DEF Codes

(* What a request that is under way holds.                                 *)
LEMMA RequestTyped ==
  ASSUME TypeOK, NEW r \in Requests
  PROVE  /\ Is(r, "CLAIMED") => requests[r].token \in 1 .. MaxTokens
         /\ Is(r, "REVOKING") \/ Is(r, "REUSED") => requests[r].upto \in 0 .. MaxTokens
BY DEF TypeOK, Request, Is

(* Tokens are numbered as they are issued.                                 *)
LEMMA TokensTyped ==
  ASSUME TypeOK
  PROVE  /\ Tokens = 1 .. Len(sessions) /\ Len(sessions) \in 0 .. MaxTokens
         /\ Tokens \subseteq 1 .. MaxTokens
<1>1. Len(sessions) \in Nat /\ Len(sessions) <= MaxTokens /\ Tokens = 1 .. Len(sessions)
  BY DEF TypeOK, Tokens
<1> QED BY <1>1, AccessAssumption

(* The tokens change one by one, or one is added.                          *)
LEMMA TurnTyped ==
  ASSUME TypeOK, NEW t \in Tokens, NEW status \in {"LIVE", "CLAIMED", "REVOKED", "EXPIRED"}
  PROVE  /\ Turns(t, status) \in Seq(Session) /\ Len(Turns(t, status)) = Len(sessions)
         /\ DOMAIN Turns(t, status) = Tokens
         /\ Turns(t, status)[t].status = status /\ Turns(t, status)[t].from = sessions[t].from
         /\ \A s \in Tokens : s # t => Turns(t, status)[s] = sessions[s]
<1> DEFINE new == [sessions[t] EXCEPT !.status = status]
<1>1. /\ sessions \in Seq(Session) /\ Len(sessions) \in Nat
      /\ Tokens = 1 .. Len(sessions) /\ sessions[t] \in Session
  BY DEF TypeOK, Tokens
<1>2. new \in Session /\ new.status = status /\ new.from = sessions[t].from
  BY <1>1 DEF Session
<1>3. Turns(t, status) = [sessions EXCEPT ![t] = new]
  BY DEF Turns
<1> HIDE DEF new
<1>4. Turns(t, status) \in [1 .. Len(sessions) -> Session]
  BY <1>1, <1>2, <1>3
<1>5. Turns(t, status)[t] = new /\ DOMAIN Turns(t, status) = Tokens
      /\ \A s \in Tokens : s # t => Turns(t, status)[s] = sessions[s]
  BY <1>1, <1>3
<1>6. Turns(t, status) \in Seq(Session) /\ Len(Turns(t, status)) = Len(sessions)
  BY <1>1, <1>4
<1> QED BY <1>2, <1>5, <1>6

(* A session that is issued is one more live row behind the others.        *)
LEMMA IssueTyped ==
  ASSUME TypeOK, NEW old \in Seq(Session), Len(old) = Len(sessions),
         NEW from \in 0 .. MaxTokens, Issue(old, from)
  PROVE  /\ sessions' \in Seq(Session) /\ Len(sessions') = Len(sessions) + 1
         /\ Len(sessions') <= MaxTokens
         /\ \A s \in Tokens : sessions'[s] = old[s]
         /\ sessions'[Len(sessions) + 1].status = "LIVE"
         /\ sessions'[Len(sessions) + 1].from = from
<1> DEFINE new == [status |-> "LIVE", from |-> from]
<1>1. new \in Session /\ new.status = "LIVE" /\ new.from = from
  BY DEF Session
<1>2. sessions' = Append(old, new) /\ Len(sessions) < MaxTokens
  BY DEF Issue
<1> HIDE DEF new
<1>3. /\ Append(old, new) \in Seq(Session) /\ Len(Append(old, new)) = Len(old) + 1
      /\ Append(old, new)[Len(old) + 1] = new
      /\ \A s \in 1 .. Len(old) : Append(old, new)[s] = old[s]
  BY <1>1, AppendProperties
<1>4. Len(sessions) + 1 <= MaxTokens
  BY <1>2, TokensTyped, AccessAssumption
<1> QED BY <1>1, <1>2, <1>3, <1>4, TokensTyped

(* Revoking what a request saw ends live sessions and changes nothing      *)
(* else of any.                                                            *)
LEMMA RevokedTyped ==
  ASSUME TypeOK, NEW r \in Requests
  PROVE  /\ Revoked(r) \in Seq(Session) /\ Len(Revoked(r)) = Len(sessions)
         /\ \A t \in Tokens : /\ Revoked(r)[t].from = sessions[t].from
                              /\ Revoked(r)[t].status = sessions[t].status
                                 \/ (sessions[t].status = "LIVE" /\ Revoked(r)[t].status = "REVOKED")
<1>1. \A t \in Tokens : sessions[t] \in Session
                        /\ [sessions[t] EXCEPT !.status = "REVOKED"] \in Session
  <2>1. \A t \in Tokens : sessions[t] \in Session
    BY DEF TypeOK, Tokens
  <2> QED BY <2>1 DEF Session
<1>2. Revoked(r) \in [1 .. Len(sessions) -> Session]
  BY <1>1 DEF Revoked, Tokens, TypeOK
<1>3. Len(sessions) \in Nat /\ Tokens = 1 .. Len(sessions)
  BY DEF TypeOK, Tokens
<1>4. Revoked(r) \in Seq(Session) /\ Len(Revoked(r)) = Len(sessions)
  BY <1>2, <1>3
<1> QED BY <1>1, <1>3, <1>4 DEF Revoked, Session, Status
-----------------------------------------------------------------------------
(* Everything keeps its type.                                              *)

(* Passing the throttle and switching an account keep the types.           *)
LEMMA PassingTyped ==
  ASSUME TypeOK, Passing \/ SetActive, UNCHANGED <<sessions, requests>> PROVE TypeOK'
<1>1. CASE Tick \/ ChallengeExpires \/ SetActive
  <2>1. now' \in 1 .. MaxStep
    BY <1>1, AccessAssumption DEF Tick, ChallengeExpires, SetActive, TypeOK
  <2>2. active' \in BOOLEAN /\ challenged' \in BOOLEAN
    BY <1>1, Zenon DEF Tick, ChallengeExpires, SetActive, TypeOK
  <2>3. UNCHANGED <<factor, last, sheet, failures, spent>>
    BY <1>1 DEF Tick, ChallengeExpires, SetActive
  <2> QED BY <2>1, <2>2, <2>3 DEF TypeOK
<1>2. CASE \E k \in Keys : WindowPasses(k)
  <2>1. PICK k \in Keys : WindowPasses(k)
    BY <1>2
  <2>2. failures[k] \in [count : Nat, ttl : 0 .. Window]
    BY DEF TypeOK
  <2>3. Fresh \in [count : Nat, ttl : 0 .. Window]
    BY AccessAssumption DEF Fresh
  <2>4. failures[k].ttl > 0
        => [failures[k] EXCEPT !.ttl = @ - 1] \in [count : Nat, ttl : 0 .. Window]
    BY <2>2, AccessAssumption
  <2>5. failures' \in [Keys -> [count : Nat, ttl : 0 .. Window]]
    BY <2>1, <2>2, <2>3, <2>4 DEF WindowPasses, TypeOK
  <2> QED BY <2>1, <2>5 DEF WindowPasses, account, TypeOK
<1> QED BY <1>1, <1>2 DEF Passing

(* Every request about the second factor keeps the types.                  *)
LEMMA FactorTyped ==
  ASSUME TypeOK, Factor PROVE TypeOK'
<1>1. CASE BeginEnrolment
  BY <1>1, AccessAssumption DEF BeginEnrolment, TypeOK
<1>2. ASSUME NEW c \in Codes, ConfirmEnrolment(c) PROVE TypeOK'
  <2>1. last' \in 0 .. MaxStep + 1
    <3>1. c[3] \in 1 .. MaxStep + 1 /\ last' = c[3]
      BY <1>2, CodeTyped DEF ConfirmEnrolment, OfSecret
    <3> QED BY <3>1, AccessAssumption
  <2>2. spent' \in [Codes -> Nat]
    BY <1>2 DEF ConfirmEnrolment, Spend, TypeOK
  <2>3. factor' \in [state : {"OFF", "PENDING", "ON"}, secret : 0 .. MaxSecrets]
    BY <1>2 DEF ConfirmEnrolment, TypeOK
  <2>4. sheet' \in [number : 0 .. MaxSheets, left : BOOLEAN]
    BY <1>2, AccessAssumption DEF ConfirmEnrolment, NextSheet, TypeOK
  <2> QED BY <1>2, <2>1, <2>2, <2>3, <2>4 DEF ConfirmEnrolment, TypeOK
<1>3. ASSUME NEW c \in Codes, Disable(c) PROVE TypeOK'
  <2>1. spent' \in [Codes -> Nat]
    BY <1>3 DEF Disable, Spend, TypeOK
  <2>2. /\ factor' \in [state : {"OFF", "PENDING", "ON"}, secret : 0 .. MaxSecrets]
        /\ sheet' \in [number : 0 .. MaxSheets, left : BOOLEAN]
    BY <1>3 DEF Disable, TypeOK
  <2> QED BY <1>3, <2>1, <2>2, AccessAssumption DEF Disable, TypeOK
<1>4. ASSUME NEW c \in Codes, RegenerateCodes(c) PROVE TypeOK'
  <2>1. spent' \in [Codes -> Nat] /\ last' \in 0 .. MaxStep + 1
    BY <1>4, CodeTyped DEF RegenerateCodes, Spend, LastAfter, TypeOK
  <2>2. sheet' \in [number : 0 .. MaxSheets, left : BOOLEAN]
    BY <1>4, AccessAssumption DEF RegenerateCodes, NextSheet, TypeOK
  <2> QED BY <1>4, <2>1, <2>2 DEF RegenerateCodes, TypeOK
<1> QED BY <1>1, <1>2, <1>3, <1>4 DEF Factor

(* A counter that is raised or cleared.                                    *)
LEMMA CountedTyped ==
  ASSUME TypeOK, NEW k \in Keys
  PROVE  /\ Counted(k) \in [Keys -> [count : Nat, ttl : 0 .. Window]]
         /\ Cleared(k) \in [Keys -> [count : Nat, ttl : 0 .. Window]]
<1>1. failures[k].count + 1 \in Nat
  BY DEF TypeOK
<1>2. [count |-> failures[k].count + 1, ttl |-> Window] \in [count : Nat, ttl : 0 .. Window]
  BY <1>1, AccessAssumption
<1>3. Fresh \in [count : Nat, ttl : 0 .. Window]
  BY AccessAssumption DEF Fresh
<1> QED BY <1>2, <1>3 DEF TypeOK, Counted, Cleared

(* Every step of a login keeps the types.                                  *)
LEMMA LoginTyped ==
  ASSUME TypeOK, NEW r \in Requests, Login(r) PROVE TypeOK'
<1> USE DEF Keys
<1>1. ASSUME NEW request \in Request, Ask(r, request)
      PROVE  requests' \in [Requests -> Request \cup {Nothing}]
  BY <1>1 DEF Ask, TypeOK
<1>2. Answer(r) => requests' \in [Requests -> Request \cup {Nothing}]
  BY DEF Answer, TypeOK
<1>3. CASE BeginLogin(r) \/ BeginFactor(r)
  <2>1. [step |-> "PASSWORD", seen |-> Sight] \in Request /\ [step |-> "FACTOR"] \in Request
    BY DEF Request, Sight, Sights
  <2> QED BY <1>1, <1>3, <2>1 DEF BeginLogin, BeginFactor, account, TypeOK
<1>4. CASE FailLogin(r) \/ FailFactor(r)
  BY <1>2, <1>4, CountedTyped DEF FailLogin, FailFactor, account, TypeOK
<1>5. CASE Challenge(r)
  BY <1>2, <1>5, CountedTyped DEF Challenge, TypeOK
<1>6. CASE LoginWithPassword(r)
  <2>1. sessions' \in Seq(Session) /\ Len(sessions') <= MaxTokens
    BY <1>6, IssueTyped, AccessAssumption DEF LoginWithPassword, TypeOK
  <2> QED BY <1>2, <1>6, <2>1, CountedTyped DEF LoginWithPassword, account, TypeOK
<1>7. ASSUME NEW c \in Codes, LoginWithCode(r, c) PROVE TypeOK'
  <2>1. sessions' \in Seq(Session) /\ Len(sessions') <= MaxTokens
    <3>1. Issue(sessions, 0) /\ sessions \in Seq(Session) /\ 0 \in 0 .. MaxTokens
      BY <1>7, AccessAssumption DEF LoginWithCode, TypeOK
    <3> QED BY <3>1, IssueTyped
  <2>2. spent' \in [Codes -> Nat] /\ last' \in 0 .. MaxStep + 1
    BY <1>7, CodeTyped DEF LoginWithCode, Spend, LastAfter, TypeOK
  <2>3. sheet' \in [number : 0 .. MaxSheets, left : BOOLEAN]
    BY <1>7 DEF LoginWithCode, SheetAfter, TypeOK
  <2> QED BY <1>2, <1>7, <2>1, <2>2, <2>3, CountedTyped DEF LoginWithCode, TypeOK
<1> QED BY <1>3, <1>4, <1>5, <1>6, <1>7 DEF Login

(* A request that claims, is told of a theft or revokes.                   *)
LEMMA ChainTyped ==
  ASSUME TypeOK, NEW r \in Requests, Chain(r),
         Is(r, "CLAIMED") => requests[r].token \in Tokens
  PROVE  TypeOK'
<1>1. Answer(r) => requests' \in [Requests -> Request \cup {Nothing}]
  BY DEF Answer, TypeOK
<1>2. Len(sessions) \in 0 .. MaxTokens
  BY TokensTyped
<1>3. ASSUME NEW step \in {"REVOKING", "REUSED"},
             requests' = [requests EXCEPT ![r] = [step |-> step, upto |-> Len(sessions)]]
      PROVE  requests' \in [Requests -> Request \cup {Nothing}]
  <2>1. [step |-> step, upto |-> Len(sessions)] \in Request
    BY <1>2 DEF Request
  <2> QED BY <1>3, <2>1 DEF TypeOK
<1>4. CASE RevokeAll(r)
  BY <1>3, <1>4 DEF RevokeAll, account, TypeOK
<1>5. CASE RefuseUsed(r)
  BY <1>1, <1>5 DEF RefuseUsed, account, TypeOK
<1>6. CASE Unclaim(r)
  BY <1>1, <1>6, TurnTyped DEF Unclaim, account, TypeOK
<1>7. CASE Rotate(r)
  <2> DEFINE t == requests[r].token
  <2>1. t \in Tokens /\ t \in 0 .. MaxTokens
    BY <1>7, RequestTyped DEF Rotate
  <2>2. sessions' \in Seq(Session) /\ Len(sessions') <= MaxTokens
    BY <1>7, <2>1, TurnTyped, IssueTyped DEF Rotate
  <2> QED BY <1>1, <1>7, <2>2 DEF Rotate, account, TypeOK
<1>8. CASE Revoke(r)
  BY <1>1, <1>8, RevokedTyped DEF Revoke, account, TypeOK
<1>9. CASE RevokeOthers(r)
  <2>1. sessions' \in Seq(Session) /\ Len(sessions') <= MaxTokens
    BY <1>9, RevokedTyped, IssueTyped, AccessAssumption DEF RevokeOthers
  <2> QED BY <1>1, <1>9, <2>1 DEF RevokeOthers, account, TypeOK
<1>10. ASSUME NEW t \in Tokens, Claim(r, t) \/ PresentUsed(r, t) PROVE TypeOK'
  <2>1. CASE Claim(r, t)
    <3>1. [step |-> "CLAIMED", token |-> t] \in Request
      <4>1. t \in 1 .. MaxTokens
        BY TokensTyped
      <4> QED BY <4>1 DEF Request
    <3>2. requests' \in [Requests -> Request \cup {Nothing}]
      BY <2>1, <3>1 DEF Claim, TypeOK
    <3> QED BY <2>1, <3>2, TurnTyped DEF Claim, account, TypeOK
  <2>2. CASE PresentUsed(r, t)
    BY <1>3, <2>2 DEF PresentUsed, account, TypeOK
  <2> QED BY <1>10, <2>1, <2>2
<1> QED BY <1>4, <1>5, <1>6, <1>7, <1>8, <1>9, <1>10 DEF Chain

(* So do a logout and the end of a session.                                *)
LEMMA EndTyped ==
  ASSUME TypeOK, NEW t \in Tokens, Logout(t) \/ SessionExpires(t) PROVE TypeOK'
BY TurnTyped DEF Logout, SessionExpires, account, TypeOK
-----------------------------------------------------------------------------
(* The chain of the refresh tokens.  A token that was exchanged is revoked *)
(* for good, and a token is claimed by one request at a time.              *)
Chained ==
  /\ \A s \in Tokens : sessions[s].from # 0 =>
       sessions[s].from \in Tokens /\ Status(sessions[s].from) = "REVOKED"
  /\ \A r \in Requests : Is(r, "CLAIMED") =>
       requests[r].token \in Tokens /\ Status(requests[r].token) = "CLAIMED"
  /\ \A q, r \in Requests :
       Is(q, "CLAIMED") /\ Is(r, "CLAIMED") /\ requests[q].token = requests[r].token => q = r
  /\ OneSuccessor

ChainOK == TypeOK /\ Chained

(* A step that exchanges no token and claims none.                         *)
LEMMA ChainKept ==
  ASSUME Chained, Tokens \subseteq Tokens',
         \A s \in Tokens : /\ sessions'[s].from = sessions[s].from
                           /\ Status(s) = "REVOKED" => sessions'[s].status = "REVOKED",
         \A s \in Tokens' : s \notin Tokens => sessions'[s].from = 0,
         \A r \in Requests : Is(r, "CLAIMED")' =>
           /\ Is(r, "CLAIMED") /\ requests'[r].token = requests[r].token
           /\ sessions'[requests[r].token].status = "CLAIMED"
  PROVE  Chained'
<1>1. \A s \in Tokens' : sessions'[s].from # 0 =>
         /\ s \in Tokens /\ sessions'[s].from = sessions[s].from
         /\ sessions'[s].from \in Tokens' /\ Status(sessions[s].from)' = "REVOKED"
  BY DEF Chained, Status
<1>2. OneSuccessor'
  BY <1>1 DEF Chained, OneSuccessor
<1>3. \A r \in Requests : Is(r, "CLAIMED")' =>
         requests'[r].token \in Tokens' /\ Status(requests[r].token)' = "CLAIMED"
  BY DEF Chained, Status
<1> QED BY <1>1, <1>2, <1>3 DEF Chained

(* A request that is answered, or begins and claims nothing, leaves the    *)
(* claims of the others.                                                   *)
LEMMA ClaimsLeft ==
  ASSUME TypeOK, NEW r \in Requests, NEW next,
         requests' = [requests EXCEPT ![r] = next],
         next = Nothing \/ next.step # "CLAIMED"
  PROVE  \A q \in Requests : Is(q, "CLAIMED")' =>
           q # r /\ Is(q, "CLAIMED") /\ requests'[q] = requests[q]
BY DEF TypeOK, Is

(* A login starts a chain of its own.                                      *)
LEMMA LoginChained ==
  ASSUME ChainOK, NEW r \in Requests, Login(r) PROVE Chained'
<1> USE DEF ChainOK
<1>1. \A q \in Requests : Is(q, "CLAIMED")' =>
         q # r /\ Is(q, "CLAIMED") /\ requests'[q] = requests[q]
  <2>1. CASE Answer(r)
    BY <2>1, ClaimsLeft DEF Answer
  <2>2. CASE Ask(r, [step |-> "PASSWORD", seen |-> Sight]) \/ Ask(r, [step |-> "FACTOR"])
    <3>1. ASSUME NEW next, next.step # "CLAIMED", Ask(r, next)
          PROVE  \A q \in Requests : Is(q, "CLAIMED")' =>
                   q # r /\ Is(q, "CLAIMED") /\ requests'[q] = requests[q]
      BY <3>1, ClaimsLeft DEF Ask
    <3> QED BY <2>2, <3>1
  <2> QED
    BY <2>1, <2>2 DEF Login, BeginLogin, FailLogin, Challenge, BeginFactor, FailFactor,
                      LoginWithPassword, LoginWithCode
<1>2. CASE UNCHANGED sessions
  BY <1>1, <1>2, ChainKept DEF Chained, Tokens, Status
<1>3. CASE Issue(sessions, 0)
  <2>1. /\ Len(sessions') = Len(sessions) + 1 /\ \A s \in Tokens : sessions'[s] = sessions[s]
        /\ sessions' \in Seq(Session) /\ sessions'[Len(sessions) + 1].from = 0
    BY <1>3, IssueTyped, AccessAssumption DEF TypeOK
  <2>2. Tokens' = 1 .. Len(sessions) + 1
    BY <2>1 DEF Tokens
  <2>3. Tokens = 1 .. Len(sessions) /\ Len(sessions) \in Nat
    BY DEF Tokens, TypeOK
  <2> QED BY <1>1, <2>1, <2>2, <2>3, ChainKept DEF Chained, Status
<1> QED
  BY <1>2, <1>3 DEF Login, BeginLogin, FailLogin, Challenge, BeginFactor, FailFactor,
                    LoginWithPassword, LoginWithCode

(* What exchanges a token: the claim, and the rotation that ends it.       *)
LEMMA ClaimChained ==
  ASSUME ChainOK, NEW r \in Requests, NEW t \in Tokens, Claim(r, t) PROVE Chained'
<1> USE DEF ChainOK
<1>1. /\ requests'[r] = [step |-> "CLAIMED", token |-> t]
      /\ \A q \in Requests : q # r => requests'[q] = requests[q]
      /\ Status(t) = "LIVE" /\ sessions' = Turns(t, "CLAIMED")
  BY DEF Claim, Claimable, TypeOK
<1>2. /\ Tokens' = Tokens /\ sessions'[t].status = "CLAIMED"
      /\ \A s \in Tokens : sessions'[s].from = sessions[s].from
      /\ \A s \in Tokens : s # t => sessions'[s] = sessions[s]
  BY <1>1, TurnTyped DEF Tokens
<1>3. \A q \in Requests : q # r => /\ Is(q, "CLAIMED")' <=> Is(q, "CLAIMED")
                                   /\ requests'[q].token = requests[q].token
                                   /\ Is(q, "CLAIMED") => requests[q].token # t
  BY <1>1 DEF Is, Chained
<1>4. \A s \in Tokens' : sessions'[s].from # 0 =>
         sessions'[s].from \in Tokens' /\ Status(sessions[s].from)' = "REVOKED"
  BY <1>1, <1>2 DEF Chained, Status
<1>5. OneSuccessor'
  BY <1>2 DEF Chained, OneSuccessor
<1>6. \A q \in Requests : Is(q, "CLAIMED")' =>
         requests'[q].token \in Tokens' /\ Status(requests[q].token)' = "CLAIMED"
  BY <1>1, <1>2, <1>3 DEF Chained, Status
<1>7. requests'[r].token = t
  BY <1>1
<1> QED BY <1>3, <1>4, <1>5, <1>6, <1>7 DEF Chained

(* The request that claimed a token issues its one successor.              *)
LEMMA RotateChained ==
  ASSUME ChainOK, NEW r \in Requests, Rotate(r) PROVE Chained'
<1> USE DEF ChainOK
<1> DEFINE t == requests[r].token
           n == Len(sessions) + 1
<1>1. t \in Tokens /\ Status(t) = "CLAIMED" /\ t \in 0 .. MaxTokens /\ t # 0
  BY RequestTyped DEF Rotate, Chained
<1>2. /\ sessions' \in Seq(Session) /\ Len(sessions') = n /\ sessions'[n].from = t
      /\ sessions'[t].status = "REVOKED" /\ sessions'[t].from = sessions[t].from
      /\ \A s \in Tokens : s # t => sessions'[s] = sessions[s]
  BY <1>1, TurnTyped, IssueTyped DEF Rotate
<1>3. Tokens' = Tokens \cup {n} /\ n \notin Tokens
  BY <1>2, TokensTyped DEF Tokens
<1>4. \A q \in Requests : Is(q, "CLAIMED")' =>
         q # r /\ Is(q, "CLAIMED") /\ requests'[q] = requests[q]
  BY ClaimsLeft DEF Rotate, Answer
<1>5. \A s \in Tokens : sessions[s].from # t
  BY <1>1 DEF Chained
<1> HIDE DEF t, n
<1>6. ASSUME NEW s \in Tokens', sessions'[s].from # 0
      PROVE  sessions'[s].from \in Tokens' /\ Status(sessions[s].from)' = "REVOKED"
  <2>1. CASE s = n
    BY <1>1, <1>2, <1>3, <2>1 DEF Status
  <2>2. CASE s \in Tokens
    <3>1. sessions'[s].from = sessions[s].from
      BY <1>1, <1>2, <2>2
    <3>2. sessions[s].from \in Tokens /\ Status(sessions[s].from) = "REVOKED"
      BY <1>6, <2>2, <3>1 DEF Chained
    <3>3. sessions'[sessions[s].from] = sessions[sessions[s].from]
      BY <1>1, <1>2, <3>2
    <3> QED BY <1>3, <3>1, <3>2, <3>3 DEF Status
  <2> QED BY <1>3, <2>1, <2>2
<1>7. OneSuccessor'
  BY <1>1, <1>2, <1>3, <1>5 DEF Chained, OneSuccessor
<1>8. \A q \in Requests : Is(q, "CLAIMED")' =>
         /\ requests'[q].token \in Tokens' /\ Status(requests[q].token)' = "CLAIMED"
  <2>1. \A q \in Requests : Is(q, "CLAIMED") /\ q # r => requests[q].token # t
    BY DEF Rotate, Chained, t
  <2> QED BY <1>2, <1>3, <1>4, <2>1 DEF Chained, Status
<1> QED BY <1>4, <1>6, <1>7, <1>8 DEF Chained

(* A step of a refresh keeps the chains whole, whatever it had read        *)
(* before.                                                                 *)
LEMMA ChainChained ==
  ASSUME ChainOK, NEW r \in Requests, Chain(r) PROVE Chained'
<1> USE DEF ChainOK
<1>1. CASE RefuseUsed(r) \/ RevokeAll(r) \/ \E t \in Tokens : PresentUsed(r, t)
  <2>1. \A q \in Requests : Is(q, "CLAIMED")' =>
           q # r /\ Is(q, "CLAIMED") /\ requests'[q] = requests[q]
    <3>1. PICK next : /\ requests' = [requests EXCEPT ![r] = next]
                      /\ next = Nothing \/ next.step # "CLAIMED"
      BY <1>1 DEF RefuseUsed, RevokeAll, PresentUsed, Answer
    <3> QED BY <3>1, ClaimsLeft
  <2> QED BY <1>1, <2>1, ChainKept DEF RefuseUsed, RevokeAll, PresentUsed, Chained, Tokens, Status
<1>2. CASE Unclaim(r)
  <2> DEFINE t == requests[r].token
  <2>1. t \in Tokens /\ Status(t) = "CLAIMED"
    BY <1>2 DEF Unclaim, Chained
  <2>2. \A q \in Requests : Is(q, "CLAIMED")' =>
           q # r /\ Is(q, "CLAIMED") /\ requests'[q] = requests[q]
    BY <1>2, ClaimsLeft DEF Unclaim, Answer
  <2>3. /\ Tokens' = Tokens /\ sessions'[t].from = sessions[t].from
        /\ \A s \in Tokens : s # t => sessions'[s] = sessions[s]
    BY <1>2, <2>1, TurnTyped DEF Unclaim, Tokens
  <2>4. \A q \in Requests : Is(q, "CLAIMED") /\ q # r => requests[q].token # t
    BY <1>2 DEF Unclaim, Chained
  <2> HIDE DEF t
  <2> QED BY <2>1, <2>2, <2>3, <2>4, ChainKept DEF Chained, Status
<1>3. CASE Revoke(r) \/ RevokeOthers(r)
  <2>1. \A q \in Requests : Is(q, "CLAIMED")' =>
           q # r /\ Is(q, "CLAIMED") /\ requests'[q] = requests[q]
    BY <1>3, ClaimsLeft DEF Revoke, RevokeOthers, Answer
  <2>2. /\ \A s \in Tokens : sessions'[s] = Revoked(r)[s]
        /\ Tokens \subseteq Tokens'
        /\ \A s \in Tokens' : s \notin Tokens => sessions'[s].from = 0
    <3>1. CASE Revoke(r)
      BY <3>1, RevokedTyped, TokensTyped DEF Revoke, Tokens
    <3>2. CASE RevokeOthers(r)
      <4>1. /\ sessions' \in Seq(Session) /\ Len(sessions') = Len(sessions) + 1
            /\ \A s \in Tokens : sessions'[s] = Revoked(r)[s]
            /\ sessions'[Len(sessions) + 1].from = 0
        BY <3>2, RevokedTyped, IssueTyped, AccessAssumption DEF RevokeOthers
      <4>2. Tokens' = 1 .. Len(sessions) + 1
        BY <4>1 DEF Tokens
      <4> QED BY <4>1, <4>2, TokensTyped
    <3> QED BY <1>3, <3>1, <3>2
  <2> QED BY <2>1, <2>2, RevokedTyped, ChainKept DEF Chained, Status
<1>4. ASSUME NEW t \in Tokens, Claim(r, t) PROVE Chained'
  BY <1>4, ClaimChained
<1>5. CASE Rotate(r)
  BY <1>5, RotateChained
<1> QED BY <1>1, <1>2, <1>3, <1>4, <1>5 DEF Chain

(* Nothing else issues a session.                                          *)
LEMMA RestChained ==
  ASSUME ChainOK, Passing \/ Factor \/ SetActive \/ \E t \in Tokens : Logout(t) \/ SessionExpires(t)
  PROVE  Chained'
<1> USE DEF ChainOK
<1>1. UNCHANGED requests
  BY DEF Passing, Tick, ChallengeExpires, WindowPasses, Factor, BeginEnrolment, ConfirmEnrolment,
         Disable, RegenerateCodes, SetActive, Logout, SessionExpires
<1>2. \A q \in Requests : Is(q, "CLAIMED")' => Is(q, "CLAIMED")
  BY <1>1 DEF Is
<1>3. CASE UNCHANGED sessions
  BY <1>1, <1>2, <1>3, ChainKept DEF Chained, Tokens, Status
<1>4. ASSUME NEW t \in Tokens, Logout(t) \/ SessionExpires(t) PROVE Chained'
  <2>1. PICK status \in {"REVOKED", "EXPIRED"} : Status(t) = "LIVE" /\ sessions' = Turns(t, status)
    BY <1>4 DEF Logout, SessionExpires
  <2>2. /\ Tokens' = Tokens /\ sessions'[t].from = sessions[t].from
        /\ \A s \in Tokens : s # t => sessions'[s] = sessions[s]
    BY <2>1, TurnTyped DEF Tokens
  <2> QED BY <1>1, <1>2, <2>1, <2>2, ChainKept DEF Chained, Status
<1> QED
  BY <1>3, <1>4 DEF Passing, Tick, ChallengeExpires, WindowPasses, Factor, BeginEnrolment,
                    ConfirmEnrolment, Disable, RegenerateCodes, SetActive

(* Every step keeps the chains whole.                                      *)
LEMMA StepChained ==
  ASSUME ChainOK, Next PROVE ChainOK'
<1>1. CASE Passing \/ SetActive
  <2>1. UNCHANGED <<sessions, requests>>
    BY <1>1 DEF Passing, Tick, ChallengeExpires, WindowPasses, SetActive
  <2> QED BY <1>1, <2>1, PassingTyped, RestChained DEF ChainOK
<1>2. CASE Factor
  BY <1>2, FactorTyped, RestChained DEF ChainOK
<1>3. ASSUME NEW r \in Requests, Login(r) PROVE ChainOK'
  BY <1>3, LoginTyped, LoginChained DEF ChainOK
<1>4. ASSUME NEW r \in Requests, Chain(r) PROVE ChainOK'
  BY <1>4, ChainTyped, ChainChained DEF ChainOK, Chained
<1>5. ASSUME NEW t \in Tokens, Logout(t) \/ SessionExpires(t) PROVE ChainOK'
  BY <1>5, EndTyped, RestChained DEF ChainOK
<1> QED BY <1>1, <1>2, <1>3, <1>4, <1>5 DEF Next

(* So does a stutter.                                                      *)
LEMMA StutterChained ==
  ASSUME ChainOK, UNCHANGED vars PROVE ChainOK'
<1>1. TypeOK'
  BY DEF ChainOK, TypeOK, vars
<1>2. Chained'
  BY DEF ChainOK, Chained, OneSuccessor, Tokens, Status, Is, vars
<1> QED BY <1>1, <1>2 DEF ChainOK

(* There is no session at first.                                           *)
LEMMA InitChained == Init => ChainOK
<1> SUFFICES ASSUME Init PROVE ChainOK
  OBVIOUS
<1>1. TypeOK
  <2>1. Fresh \in [count : Nat, ttl : 0 .. Window]
    BY AccessAssumption DEF Fresh
  <2>2. 1 \in 1 .. MaxStep /\ 0 \in 0 .. MaxStep + 1 /\ 0 \in 0 .. MaxSecrets
        /\ 0 \in 0 .. MaxSheets
    BY AccessAssumption
  <2>3. sessions \in Seq(Session) /\ Len(sessions) <= MaxTokens
    BY AccessAssumption DEF Init
  <2> QED BY <2>1, <2>2, <2>3 DEF Init, TypeOK
<1>2. Chained
  BY DEF Init, Chained, OneSuccessor, Tokens, Is
<1> QED BY <1>1, <1>2 DEF ChainOK

(* The account, its counters, its sessions and its requests keep their     *)
(* types, so no counter passes its limit.                                  *)
THEOREM AccessType == Spec => []TypeOK
<1>1. ChainOK /\ [Next]_vars => ChainOK'
  BY StepChained, StutterChained
<1>2. ChainOK => TypeOK
  BY DEF ChainOK
<1> QED BY InitChained, <1>1, <1>2, PTL DEF Spec

(* auth.js, refresh: a refresh token is exchanged for one other at most,   *)
(* however many requests present it at once and whatever is revoked or     *)
(* undone around them.                                                     *)
THEOREM TokenExchangedOnce == Spec => []OneSuccessor
<1>1. ChainOK /\ [Next]_vars => ChainOK'
  BY StepChained, StutterChained
<1>2. ChainOK => OneSuccessor
  BY DEF ChainOK, Chained
<1> QED BY InitChained, <1>1, <1>2, PTL DEF Spec
-----------------------------------------------------------------------------
(* A code that was accepted is of a secret that was replaced, or of a step *)
(* not after the last one; the secret that is to be confirmed has accepted *)
(* none, and the recovery code that is left was not used.                  *)
CodeIsPast(c) ==
  /\ c[1] = "TOTP" =>
       /\ c[2] <= factor.secret
       /\ c[2] = factor.secret /\ factor.state # "OFF" => factor.state = "ON" /\ c[3] <= last
  /\ c[1] = "SHEET" => c[2] <= sheet.number /\ (c[2] = sheet.number => ~sheet.left)

PastCodes == \A c \in Codes : spent[c] <= 1 /\ (spent[c] > 0 => CodeIsPast(c))

CodesOK == TypeOK /\ PastCodes

(* A step that accepts a code which was not accepted before, and after     *)
(* which every code of the past is still past.                             *)
LEMMA CodeSpent ==
  ASSUME CodesOK, NEW c \in Codes, Spend(c), ~CodeIsPast(c), CodeIsPast(c)',
         \A d \in Codes : CodeIsPast(d) => CodeIsPast(d)'
  PROVE  PastCodes'
<1>1. spent[c] = 0
  BY DEF CodesOK, PastCodes, TypeOK
<1>2. \A d \in Codes : spent'[d] = IF d = c THEN 1 ELSE spent[d]
  BY <1>1 DEF CodesOK, TypeOK, Spend
<1> QED BY <1>2 DEF CodesOK, PastCodes

(* A step that accepts no code only has to leave the past codes past.      *)
LEMMA NoCodeSpent ==
  ASSUME CodesOK, UNCHANGED spent, \A d \in Codes : CodeIsPast(d) => CodeIsPast(d)'
  PROVE  PastCodes'
BY DEF CodesOK, PastCodes

(* A step that leaves the second factors alone accepts nothing.            *)
LEMMA CodesKept ==
  ASSUME CodesOK, UNCHANGED <<factor, last, sheet, spent>> PROVE PastCodes'
BY NoCodeSpent DEF CodeIsPast

(* What Accepts lets through is not past.                                  *)
LEMMA AcceptedIsNew ==
  ASSUME CodesOK, NEW c \in Codes, Accepts(c), factor.state = "ON" PROVE ~CodeIsPast(c)
<1>1. last \in Nat
  BY AccessAssumption DEF CodesOK, TypeOK
<1>2. CASE OfSecret(c) /\ NewStep(c[3])
  BY <1>1, <1>2, CodeTyped DEF OfSecret, NewStep, CodeIsPast
<1>3. CASE OfSheet(c)
  BY <1>3 DEF OfSheet, CodeIsPast
<1> QED BY <1>2, <1>3 DEF Accepts

(* A login accepts a code once and puts it in the past in the same         *)
(* statement.                                                              *)
LEMMA LoginCodes ==
  ASSUME CodesOK, NEW r \in Requests, NEW c \in Codes, LoginWithCode(r, c) PROVE PastCodes'
<1>1. /\ Accepts(c) /\ factor.state = "ON" /\ Spend(c) /\ UNCHANGED factor
      /\ last' = LastAfter(c) /\ sheet' = SheetAfter(c)
  BY DEF LoginWithCode
<1>2. last \in Nat /\ sheet \in [number : 0 .. MaxSheets, left : BOOLEAN]
  BY AccessAssumption DEF CodesOK, TypeOK
<1>3. CASE c[1] = "TOTP"
  <2>1. c[2] = factor.secret /\ c[3] > last /\ last' = c[3] /\ sheet' = sheet /\ c[3] \in Nat
    BY <1>1, <1>3, CodeTyped, AccessAssumption
    DEF Accepts, OfSecret, OfSheet, NewStep, LastAfter, SheetAfter
  <2>2. CodeIsPast(c)'
    BY <1>1, <1>2, <1>3, <2>1, CodeTyped, AccessAssumption DEF CodeIsPast
  <2>3. \A d \in Codes : CodeIsPast(d) => CodeIsPast(d)'
    BY <1>1, <1>2, <2>1, CodeTyped DEF CodeIsPast
  <2> QED BY <1>1, <2>2, <2>3, CodeSpent, AcceptedIsNew
<1>4. CASE c[1] = "SHEET"
  <2>1. /\ c[2] = sheet.number /\ last' = last
        /\ sheet'.number = sheet.number /\ sheet'.left = FALSE
    BY <1>1, <1>2, <1>4 DEF Accepts, OfSecret, OfSheet, LastAfter, SheetAfter
  <2>2. CodeIsPast(c)'
    BY <1>2, <1>4, <2>1 DEF CodeIsPast
  <2>3. \A d \in Codes : CodeIsPast(d) => CodeIsPast(d)'
    BY <1>1, <2>1 DEF CodeIsPast
  <2> QED BY <1>1, <2>2, <2>3, CodeSpent, AcceptedIsNew
<1> QED BY <1>3, <1>4, CodeTyped

(* So do enrolling, confirming and removing a second factor.               *)
LEMMA FactorCodes ==
  ASSUME CodesOK, Factor PROVE PastCodes'
<1>1. /\ factor.secret \in Nat /\ last \in Nat
      /\ factor \in [state : {"OFF", "PENDING", "ON"}, secret : 0 .. MaxSecrets]
      /\ sheet \in [number : 0 .. MaxSheets, left : BOOLEAN] /\ sheet.number \in Nat
  <2>1. /\ factor \in [state : {"OFF", "PENDING", "ON"}, secret : 0 .. MaxSecrets]
        /\ sheet \in [number : 0 .. MaxSheets, left : BOOLEAN]
        /\ last \in 0 .. MaxStep + 1
    BY DEF CodesOK, TypeOK
  <2> QED BY <2>1, AccessAssumption
<1>2. CASE BeginEnrolment
  <2>1. /\ factor' = [state |-> "PENDING", secret |-> factor.secret + 1]
        /\ UNCHANGED <<sheet, spent>>
    BY <1>2 DEF BeginEnrolment
  <2>2. \A d \in Codes : CodeIsPast(d) => CodeIsPast(d)'
    BY <1>1, <2>1, CodeTyped DEF CodeIsPast
  <2> QED BY <2>1, <2>2, NoCodeSpent
<1>3. ASSUME NEW c \in Codes, ConfirmEnrolment(c) PROVE PastCodes'
  <2>1. /\ c[1] = "TOTP" /\ c[2] = factor.secret /\ factor.state = "PENDING"
        /\ c[3] \in Nat /\ last' = c[3] /\ Spend(c)
        /\ factor'.state = "ON" /\ factor'.secret = factor.secret
        /\ sheet'.number = sheet.number + 1
    BY <1>1, <1>3, CodeTyped, AccessAssumption DEF ConfirmEnrolment, OfSecret, NextSheet
  <2>2. ~CodeIsPast(c)
    BY <2>1 DEF CodeIsPast
  <2>3. CodeIsPast(c)'
    BY <1>1, <2>1 DEF CodeIsPast
  <2>4. \A d \in Codes : CodeIsPast(d) => CodeIsPast(d)'
    BY <1>1, <2>1, CodeTyped DEF CodeIsPast
  <2> QED BY <2>1, <2>2, <2>3, <2>4, CodeSpent
<1>4. ASSUME NEW c \in Codes, Disable(c) PROVE PastCodes'
  <2>1. /\ factor'.state = "OFF" /\ factor'.secret = factor.secret /\ Spend(c)
        /\ sheet'.number = sheet.number /\ sheet'.left = FALSE
        /\ Accepts(c) /\ factor.state = "ON"
    BY <1>1, <1>4 DEF Disable
  <2>2. CodeIsPast(c)'
    BY <1>1, <2>1 DEF Accepts, OfSecret, OfSheet, CodeIsPast
  <2>3. \A d \in Codes : CodeIsPast(d) => CodeIsPast(d)'
    BY <2>1 DEF CodeIsPast
  <2> QED BY <2>1, <2>2, <2>3, CodeSpent, AcceptedIsNew
<1>5. ASSUME NEW c \in Codes, RegenerateCodes(c) PROVE PastCodes'
  <2>1. /\ last' = LastAfter(c) /\ UNCHANGED factor /\ Spend(c)
        /\ sheet'.number = sheet.number + 1 /\ Accepts(c) /\ factor.state = "ON"
    BY <1>5 DEF RegenerateCodes, NextSheet
  <2>2. c[1] = "TOTP" => c[2] = factor.secret /\ c[3] > last /\ last' = c[3] /\ c[3] \in Nat
    BY <2>1, CodeTyped, AccessAssumption DEF Accepts, OfSecret, OfSheet, NewStep, LastAfter
  <2>3. c[1] # "TOTP" => last' = last /\ c[1] = "SHEET" /\ c[2] = sheet.number
    BY <2>1 DEF Accepts, OfSecret, OfSheet, LastAfter
  <2>4. CodeIsPast(c)'
    BY <1>1, <2>1, <2>2, <2>3 DEF CodeIsPast
  <2>5. \A d \in Codes : CodeIsPast(d) => CodeIsPast(d)'
    BY <1>1, <2>1, <2>2, <2>3, CodeTyped DEF CodeIsPast
  <2> QED BY <2>1, <2>4, <2>5, CodeSpent, AcceptedIsNew
<1> QED BY <1>2, <1>3, <1>4, <1>5 DEF Factor

(* Every step keeps accepted codes in the past.                            *)
LEMMA StepCodes ==
  ASSUME CodesOK, ChainOK, [Next]_vars PROVE PastCodes'
<1>1. CASE Factor
  BY <1>1, FactorCodes
<1>2. ASSUME NEW r \in Requests, NEW c \in Codes, LoginWithCode(r, c) PROVE PastCodes'
  BY <1>2, LoginCodes
<1>3. CASE UNCHANGED <<factor, last, sheet, spent>>
  BY <1>3, CodesKept
<1>4. CASE Passing \/ SetActive \/ \E t \in Tokens : Logout(t) \/ SessionExpires(t)
  BY <1>3, <1>4 DEF Passing, Tick, ChallengeExpires, WindowPasses, SetActive, Logout,
                    SessionExpires, account
<1>5. ASSUME NEW r \in Requests, Login(r) \/ Chain(r) PROVE PastCodes'
  BY <1>2, <1>3, <1>5
  DEF Login, BeginLogin, FailLogin, Challenge, BeginFactor, FailFactor, LoginWithPassword,
      Chain, Unclaim, RefuseUsed, RevokeAll, Revoke, RevokeOthers, Rotate, Claim, PresentUsed,
      account
<1>6. CASE UNCHANGED vars
  BY <1>3, <1>6 DEF vars
<1> QED BY <1>1, <1>4, <1>5, <1>6 DEF Next

(* mfa.js, consume: a code is good for one thing only, whatever carries it *)
(* twice: two logins, an enrolment and a login, a step that is still near. *)
THEOREM CodeCompletesOneThing == Spec => []CodeAcceptedOnce
<1>1. Init => PastCodes
  <2>1. Init => \A c \in Codes : spent[c] = 0
    BY DEF Init
  <2> QED BY <2>1 DEF PastCodes
<1>2. ChainOK /\ PastCodes /\ [Next]_vars => ChainOK' /\ PastCodes'
  BY StepChained, StutterChained, StepCodes DEF ChainOK, CodesOK
<1>3. PastCodes => CodeAcceptedOnce
  BY DEF PastCodes, CodeAcceptedOnce
<1> QED BY InitChained, <1>1, <1>2, <1>3, PTL DEF Spec

(* The attempts that were let in under a key and have not ended.           *)
StepOf(k) == IF k = "ADDRESS" THEN "PASSWORD" ELSE "FACTOR"
LetIn(k) == {r \in Requests : Is(r, StepOf(k))}

(* Failures that counted and those that still may are together no more     *)
(* than may be under way when the limit is reached.                        *)
Bounded(k) == failures[k].count + Cardinality(LetIn(k)) < MaxFailures + Cardinality(Requests)

(* The numbers that are compared are numbers.                              *)
LEMMA LetInCounts ==
  /\ \A k \in Keys : /\ IsFiniteSet(LetIn(k)) /\ Cardinality(LetIn(k)) \in Nat
                     /\ Cardinality(LetIn(k)) <= Cardinality(Requests)
  /\ Cardinality(Requests) \in Nat /\ MaxFailures \in Nat /\ MaxFailures > 0
<1>1. \A k \in Keys : LetIn(k) \in SUBSET Requests
  BY DEF LetIn
<1> QED BY <1>1, FS_Subset, FS_CardinalityType, AccessAssumption

(* The same of the state after a step.                                     *)
LEMMA LetInCountsAfter ==
  \A k \in Keys : /\ IsFiniteSet(LetIn(k)') /\ Cardinality(LetIn(k)') \in Nat
                  /\ Cardinality(LetIn(k)') <= Cardinality(Requests)
<1>1. \A k \in Keys : LetIn(k)' \in SUBSET Requests
  BY DEF LetIn
<1> QED BY <1>1, FS_Subset, FS_CardinalityType, AccessAssumption

(* What may happen to one key in a step: it may be tried and stays as it   *)
(* is, one attempt ends and counts, or none is let in and none counts.     *)
LEMMA KeyBounded ==
  ASSUME TypeOK, NEW k \in Keys, Bounded(k),
         \/ MayTry(k) /\ failures'[k] = failures[k]
         \/ /\ failures'[k].count = failures[k].count + 1
            /\ \E r \in LetIn(k) : LetIn(k)' = LetIn(k) \ {r}
         \/ /\ failures'[k].count = failures[k].count \/ failures'[k].count = 0
            /\ LetIn(k)' \subseteq LetIn(k)
  PROVE  Bounded(k)'
<1>1. failures[k].count \in Nat
  BY DEF TypeOK
<1> DEFINE n == Cardinality(LetIn(k))
           m == Cardinality(LetIn(k)')
<1>2. Bounded(k)' <=> failures'[k].count + m < MaxFailures + Cardinality(Requests)
  BY DEF Bounded
<1>3. failures[k].count + n < MaxFailures + Cardinality(Requests)
  BY DEF Bounded
<1>4. n \in Nat /\ m \in Nat /\ m <= Cardinality(Requests)
  BY LetInCounts, LetInCountsAfter
<1>5. CASE MayTry(k) /\ failures'[k] = failures[k]
  <2> HIDE DEF n, m
  <2> QED BY <1>1, <1>2, <1>4, <1>5, LetInCounts DEF MayTry
<1>6. CASE /\ failures'[k].count = failures[k].count + 1
           /\ \E r \in LetIn(k) : LetIn(k)' = LetIn(k) \ {r}
  <2>1. m = n - 1
    BY <1>6, LetInCounts, FS_RemoveElement
  <2> HIDE DEF n, m
  <2> QED BY <1>1, <1>2, <1>3, <1>4, <1>6, <2>1, LetInCounts
<1>7. CASE /\ failures'[k].count = failures[k].count \/ failures'[k].count = 0
           /\ LetIn(k)' \subseteq LetIn(k)
  <2>1. m <= n
    BY <1>7, LetInCounts, FS_Subset
  <2> HIDE DEF n, m
  <2> QED BY <1>1, <1>2, <1>3, <1>4, <1>7, <2>1, LetInCounts
<1> QED BY <1>5, <1>6, <1>7

(* A request that is answered, or asks for something else, is no longer    *)
(* among those let in under a key, and nobody else comes or goes.          *)
LEMMA OneGoes ==
  ASSUME TypeOK, NEW k \in Keys, NEW r \in Requests, NEW next,
         requests' = [requests EXCEPT ![r] = next],
         next = Nothing \/ next.step # StepOf(k)
  PROVE  LetIn(k)' = LetIn(k) \ {r}
BY DEF TypeOK, LetIn, Is

(* Every step of a login: who is let in may try, who failed was let in.    *)
LEMMA LoginBounded ==
  ASSUME TypeOK, NEW r \in Requests, Login(r), NEW k \in Keys, Bounded(k) PROVE Bounded(k)'
<1> USE DEF Keys
<1>1. Answer(r) => LetIn(k)' = LetIn(k) \ {r}
  BY OneGoes DEF Answer
<1>2. CASE BeginLogin(r)
  <2>1. CASE k = "ADDRESS"
    BY <1>2, <2>1, KeyBounded DEF BeginLogin
  <2>2. CASE k = "ACCOUNT"
    <3>1. LetIn(k)' = LetIn(k) \ {r}
      BY <1>2, <2>2, OneGoes DEF BeginLogin, Ask, StepOf
    <3> QED BY <1>2, <3>1, KeyBounded DEF BeginLogin
  <2> QED BY <2>1, <2>2
<1>3. CASE BeginFactor(r)
  <2>1. CASE k = "ACCOUNT"
    BY <1>3, <2>1, KeyBounded DEF BeginFactor
  <2>2. CASE k = "ADDRESS"
    <3>1. LetIn(k)' = LetIn(k) \ {r}
      BY <1>3, <2>2, OneGoes DEF BeginFactor, Ask, StepOf
    <3> QED BY <1>3, <3>1, KeyBounded DEF BeginFactor
  <2> QED BY <2>1, <2>2
<1>4. ASSUME NEW j \in Keys, failures' = Counted(j), Is(r, StepOf(j)), Answer(r)
      PROVE  Bounded(k)'
  <2>1. CASE k = j
    <3>1. r \in LetIn(k) /\ failures'[k].count = failures[k].count + 1
      BY <1>4, <2>1 DEF LetIn, Counted, TypeOK
    <3> QED BY <1>1, <1>4, <3>1, KeyBounded
  <2>2. CASE k # j
    <3>1. failures'[k] = failures[k]
      BY <1>4, <2>2 DEF Counted, TypeOK
    <3> QED BY <1>1, <1>4, <3>1, KeyBounded
  <2> QED BY <2>1, <2>2
<1>5. ASSUME NEW j \in Keys, failures' = Cleared(j), Answer(r) PROVE Bounded(k)'
  <2>1. failures'[k].count = failures[k].count \/ failures'[k].count = 0
    BY <1>5 DEF Cleared, Fresh, TypeOK
  <2> QED BY <1>1, <1>5, <2>1, KeyBounded
<1>6. CASE FailLogin(r) \/ FailFactor(r)
  BY <1>4, <1>6 DEF FailLogin, FailFactor, StepOf
<1>7. CASE LoginWithPassword(r) \/ Challenge(r) \/ \E c \in Codes : LoginWithCode(r, c)
  BY <1>5, <1>7 DEF LoginWithPassword, Challenge, LoginWithCode
<1> QED BY <1>2, <1>3, <1>6, <1>7 DEF Login

(* loginThrottle.js: an attempt that is turned away does not count, so     *)
(* what starts the window of a lock again was under way before it; for     *)
(* any number of requests at once.                                         *)
THEOREM RefusalsDoNotCount == Spec => []RefusedDoNotCount
<1> DEFINE Inv == \A k \in Keys : Bounded(k)
<1>1. Init => Inv
  <2> SUFFICES ASSUME Init, NEW k \in Keys PROVE Bounded(k)
    OBVIOUS
  <2>1. failures[k].count = 0
    BY DEF Init, Fresh
  <2> QED BY <2>1, LetInCounts DEF Bounded
<1>2. TypeOK /\ Inv /\ [Next]_vars => Inv'
  <2> SUFFICES ASSUME TypeOK, Inv, [Next]_vars, NEW k \in Keys PROVE Bounded(k)'
    OBVIOUS
  <2>1. ASSUME UNCHANGED failures, LetIn(k)' \subseteq LetIn(k) PROVE Bounded(k)'
    BY <2>1, KeyBounded
  <2>2. UNCHANGED requests => LetIn(k)' = LetIn(k)
    BY DEF LetIn, Is
  <2>3. ASSUME NEW j \in Keys, WindowPasses(j) PROVE Bounded(k)'
    <3>1. failures'[k].count = failures[k].count \/ failures'[k].count = 0
      BY <2>3 DEF WindowPasses, Fresh, TypeOK
    <3> QED BY <2>2, <2>3, <3>1, KeyBounded DEF WindowPasses
  <2>4. CASE Factor \/ Passing \/ SetActive \/ \E t \in Tokens : Logout(t) \/ SessionExpires(t)
    BY <2>1, <2>2, <2>3, <2>4
    DEF Passing, Tick, ChallengeExpires, SetActive, Factor, BeginEnrolment, ConfirmEnrolment,
        Disable, RegenerateCodes, Logout, SessionExpires
  <2>5. ASSUME NEW r \in Requests, Chain(r) PROVE Bounded(k)'
    <3>1. PICK next : /\ requests' = [requests EXCEPT ![r] = next]
                      /\ next = Nothing \/ next.step # StepOf(k)
      BY <2>5 DEF Chain, Unclaim, RefuseUsed, RevokeAll, Revoke, RevokeOthers, Rotate, Claim,
                  PresentUsed, Answer, StepOf
    <3>2. LetIn(k)' \subseteq LetIn(k)
      BY <3>1, OneGoes
    <3>3. UNCHANGED failures
      BY <2>5 DEF Chain, Unclaim, RefuseUsed, RevokeAll, Revoke, RevokeOthers, Rotate, Claim,
                  PresentUsed
    <3> QED BY <2>1, <3>2, <3>3
  <2>6. ASSUME NEW r \in Requests, Login(r) PROVE Bounded(k)'
    BY <2>6, LoginBounded
  <2>7. CASE UNCHANGED vars
    BY <2>1, <2>2, <2>7 DEF vars
  <2> QED BY <2>4, <2>5, <2>6, <2>7 DEF Next
<1>3. TypeOK /\ Inv => RefusedDoNotCount
  <2> SUFFICES ASSUME TypeOK, Inv, NEW k \in Keys
               PROVE  failures[k].count < MaxFailures + Cardinality(Requests)
    BY DEF RefusedDoNotCount
  <2>1. failures[k].count \in Nat
    BY DEF TypeOK
  <2> QED BY <2>1, LetInCounts DEF Bounded
<1> HIDE DEF Inv
<1> QED BY AccessType, <1>1, <1>2, <1>3, PTL DEF Spec
-----------------------------------------------------------------------------
(* Sets of numbers: the natural numbers are well-founded.                  *)

(* A set of natural numbers that is not empty has a least one.             *)
LEMMA Least ==
  ASSUME NEW S \in SUBSET Nat, S # {}
  PROVE  \E x \in S : \A y \in S : x <= y
<1> DEFINE R == OpToRel(<, Nat)
<1>1. IsWellFoundedOn(R, Nat)
  BY NatLessThanWellFounded
<1>2. \A x, y \in Nat : y < x => <<y, x>> \in R
  BY DEF OpToRel
<1> HIDE DEF R
<1>3. PICK x \in S : \A y \in S : ~ (<<y, x>> \in R)
  BY <1>1, WFMin
<1>4. x \in Nat /\ \A y \in S : y \in Nat
  OBVIOUS
<1>5. \A y \in S : ~(y < x)
  BY <1>2, <1>3, <1>4, Zenon
<1>6. \A y \in S : x <= y
  BY <1>4, <1>5
<1> QED BY <1>6

(* Among finitely many dates there is a latest.                            *)
LEMMA Greatest ==
  ASSUME NEW n \in Nat, NEW S \in SUBSET (0 .. n), S # {}
  PROVE  \E x \in S : \A y \in S : y <= x
<1> DEFINE T == {n - x : x \in S}
<1>0. \A x \in S : x \in 0 .. n
  OBVIOUS
<1>1. T \in SUBSET Nat
  BY <1>0
<1>2. T # {}
  OBVIOUS
<1>3. PICK t \in T : \A u \in T : t <= u
  <2> HIDE DEF T
  <2> QED BY <1>1, <1>2, Least
<1>4. PICK x \in S : t = n - x
  OBVIOUS
<1>5. \A y \in S : n - x <= n - y
  BY <1>3, <1>4
<1>6. \A y \in S : y <= x
  BY <1>0, <1>5
<1> QED BY <1>6
-----------------------------------------------------------------------------
(* The exchange rates keep their types.                                    *)

(* The latest of some dates is one of them.                                *)
LEMMA LatestIsOne ==
  ASSUME NEW S \in SUBSET Dates, S # {} PROVE Latest(S) \in S
<1>1. LastDay + 1 \in Nat /\ S \in SUBSET (0 .. LastDay + 1)
  BY RatesAssumption DEF Dates
<1>2. \E x \in S : \A y \in S : y <= x
  BY <1>1, Greatest
<1> QED BY <1>2 DEF Latest

(* A row on record makes an entry of the cache.                            *)
LEMMA RowTyped ==
  ASSUME RatesTypeOK, NEW c \in Coins, NEW d \in OnRecord(c)
  PROVE  d \in Dates /\ history[c][d] \in RateRow /\ history[c][d].rate \in Nat
         /\ AsEntry(c, d) \in Entry
BY DEF RatesTypeOK, OnRecord, RateRow, AsEntry, Entry

(* A call of a caller keeps its type as it goes on.                        *)
LEMMA CallTyped ==
  ASSUME RatesTypeOK, NEW k \in Askers, asked[k] # NoRate
  PROVE  /\ asked[k].coin \in Coins
         /\ asked[k].step # "GIVEN" =>
              \A step \in {"WAITING", "LAST", "CURRENT", "REFUSED"} :
                [asked[k] EXCEPT !.step = step] \in Call
         /\ \A entry \in Entry : Given(asked[k].coin, entry) \in Call
<1>1. asked[k] \in Call
  BY DEF RatesTypeOK
<1>2. asked[k].coin \in Coins
  BY <1>1 DEF Call
<1>3. \A entry \in Entry : Given(asked[k].coin, entry) \in Call
  BY <1>2 DEF RatesTypeOK, Given, Call
<1>4. ASSUME asked[k].step # "GIVEN", NEW step \in {"WAITING", "LAST", "CURRENT", "REFUSED"}
      PROVE  [asked[k] EXCEPT !.step = step] \in Call
  BY <1>1, <1>4 DEF Call
<1> QED BY <1>2, <1>3, <1>4

(* Answering a caller keeps the types.                                     *)
LEMMA AnswerTyped ==
  ASSUME RatesTypeOK, NEW k \in Askers, Left(k) \/ ReadLast(k) \/ ReadCurrent(k) \/ HistoryUnavailable(k)
  PROVE  RatesTypeOK'
<1>1. asked' \in [Askers -> Call \cup {NoRate}]
  <2>1. CASE Left(k)
    BY <2>1 DEF Left, RatesTypeOK
  <2>2. ASSUME Stands(k, "LAST") \/ Stands(k, "CURRENT"), Becomes(k, "REFUSED")
        PROVE  asked' \in [Askers -> Call \cup {NoRate}]
    <3>1. [asked[k] EXCEPT !.step = "REFUSED"] \in Call
      BY <2>2, CallTyped DEF Stands
    <3> QED BY <2>2, <3>1 DEF Becomes, RatesTypeOK
  <2>3. ASSUME asked[k] # NoRate, OnRecordInForce(asked[k].coin) # {},
               Give(k, AsEntry(asked[k].coin, Latest(OnRecordInForce(asked[k].coin))))
        PROVE  asked' \in [Askers -> Call \cup {NoRate}]
    <3> DEFINE c == asked[k].coin
               entry == AsEntry(c, Latest(OnRecordInForce(c)))
    <3>1. c \in Coins
      BY <2>3, CallTyped
    <3>2. Latest(OnRecordInForce(c)) \in OnRecord(c)
      BY <2>3, LatestIsOne DEF OnRecordInForce, OnRecord
    <3>3. entry \in Entry
      BY <3>1, <3>2, RowTyped
    <3>4. Given(c, entry) \in Call
      BY <2>3, <3>3, CallTyped
    <3> QED BY <2>3, <3>4 DEF Give, RatesTypeOK
  <2> QED BY <2>1, <2>2, <2>3 DEF ReadLast, ReadCurrent, HistoryUnavailable, Stands
<1>2. UNCHANGED <<today, page, history, memory, fetch, blind>>
  BY DEF Left, ReadLast, ReadCurrent, HistoryUnavailable
<1> QED BY <1>1, <1>2 DEF RatesTypeOK

(* So does asking, from the cache or by a fetch.                           *)
LEMMA AskTyped ==
  ASSUME RatesTypeOK, NEW k \in Askers, NEW c \in Coins, AskCached(k, c) \/ AskFetching(k, c),
         \A d \in memory.young : memory.cache[d] # NoRate
  PROVE  RatesTypeOK'
<1>1. CASE AskCached(k, c)
  <2>1. memory.cache[c] \in Entry
    BY <1>1 DEF AskCached, RatesTypeOK
  <2>2. Given(c, memory.cache[c]) \in Call
    BY <2>1 DEF Given, Call, RatesTypeOK
  <2> QED BY <1>1, <2>2 DEF AskCached, RatesTypeOK
<1>2. CASE AskFetching(k, c)
  <2>1. [coin |-> c, step |-> "WAITING"] \in Call
    BY DEF Call
  <2>2. fetch' \in Fetch \cup {NoRate}
    <3>1. [step |-> IF memory.loaded THEN "PAGE" ELSE "BASELINES"] \in Fetch
      BY DEF Fetch
    <3> QED BY <1>2, <3>1 DEF AskFetching, RatesTypeOK
  <2> QED BY <1>2, <2>1, <2>2 DEF AskFetching, RatesTypeOK
<1> QED BY <1>1, <1>2

(* So does every step of a fetch before its end.                           *)
LEMMA FetchTyped ==
  ASSUME RatesTypeOK,
         \/ LoadBaselines \/ BaselinesUnavailable \/ ReadPage
         \/ \E c \in Coins : Reject(c) \/ \E saved \in BOOLEAN : Accept(c, saved)
  PROVE  RatesTypeOK'
<1>1. [step |-> "PAGE"] \in Fetch
  BY DEF Fetch
<1>2. CASE BaselinesUnavailable
  BY <1>1, <1>2 DEF BaselinesUnavailable, RatesTypeOK
<1>3. CASE LoadBaselines
  <2> DEFINE good == [d \in Coins |-> IF OnRecord(d) = {} THEN NoRate
                                      ELSE history[d][Latest(OnRecord(d))].rate]
  <2>1. good \in [Coins -> Nat \cup {NoRate}]
    <3>1. \A d \in Coins : OnRecord(d) # {} => history[d][Latest(OnRecord(d))].rate \in Nat
      BY LatestIsOne, RowTyped DEF OnRecord
    <3> QED BY <3>1
  <2>2. memory' = [memory EXCEPT !.loaded = TRUE, !.good = good]
    BY <1>3 DEF LoadBaselines
  <2> HIDE DEF good
  <2> QED BY <1>1, <1>3, <2>1, <2>2 DEF LoadBaselines, RatesTypeOK
<1>4. CASE ReadPage
  <2>1. PICK date \in {page, NoDate}, seen \in [Coins -> {"RATE", "OUTLIER", "MISSING"}] :
          fetch' = [step |-> "ACCEPT", date |-> date, accepted |-> Forgotten,
            left |-> [d \in Coins |-> CASE seen[d] = "RATE" -> Official[d][page]
                                        [] seen[d] = "OUTLIER" -> Outlier
                                        [] OTHER -> NoRate]]
    BY <1>4 DEF ReadPage
  <2> DEFINE left == [d \in Coins |-> CASE seen[d] = "RATE" -> Official[d][page]
                                        [] seen[d] = "OUTLIER" -> Outlier
                                        [] OTHER -> NoRate]
  <2>2. left \in [Coins -> Nat \cup {NoRate}]
    BY RatesAssumption DEF RatesTypeOK
  <2>3. Forgotten \in [Coins -> Entry \cup {NoRate}]
    BY DEF Forgotten
  <2>4. fetch' = [step |-> "ACCEPT", date |-> date, accepted |-> Forgotten, left |-> left]
    BY <2>1
  <2>5. date \in Dates \cup {NoDate}
    BY DEF RatesTypeOK
  <2> HIDE DEF left
  <2>6. fetch' \in Fetch
    BY <2>2, <2>3, <2>4, <2>5 DEF Fetch
  <2> QED BY <1>4, <2>6 DEF ReadPage, RatesTypeOK
<1>5. ASSUME NEW c \in Coins, Reject(c) PROVE RatesTypeOK'
  <2>1. [fetch EXCEPT !.left[c] = NoRate] \in Fetch
    BY <1>5 DEF Reject, RatesTypeOK, Fetch
  <2> QED BY <1>5, <2>1 DEF Reject, RatesTypeOK
<1>6. ASSUME NEW c \in Coins, NEW saved \in BOOLEAN, Accept(c, saved) PROVE RatesTypeOK'
  <2> DEFINE entry == [rate |-> fetch.left[c], date |-> fetch.date]
             row == [rate |-> fetch.left[c], fetched |-> today]
  <2>1. /\ fetch \in [step : {"ACCEPT"}, date : Dates \cup {NoDate},
                      left : [Coins -> Nat \cup {NoRate}], accepted : [Coins -> Entry \cup {NoRate}]]
        /\ fetch.left[c] \in Nat
    BY <1>6 DEF Accept, RatesTypeOK, Fetch
  <2>2. entry \in Entry
    BY <2>1 DEF Entry
  <2>3. today \in 0 .. LastDay
    BY RatesAssumption DEF RatesTypeOK
  <2>4. row \in RateRow
    BY <2>1, <2>3 DEF RateRow
  <2>5. fetch' = [fetch EXCEPT !.left[c] = NoRate, !.accepted[c] = entry]
    BY <1>6 DEF Accept
  <2>6. saved => fetch.date \in Dates /\ history' = [history EXCEPT ![c][fetch.date] = row]
    BY <1>6, <2>1 DEF Accept, Persisted
  <2>7. ~saved => history' = history
    BY <1>6 DEF Accept, Persisted
  <2> HIDE DEF entry, row
  <2>8. fetch' \in Fetch
    BY <2>1, <2>2, <2>5 DEF Fetch
  <2>9. history' \in [Coins -> [Dates -> RateRow \cup {NoRate}]]
    <3>1. CASE saved
      <4>1. [history[c] EXCEPT ![fetch.date] = row] \in [Dates -> RateRow \cup {NoRate}]
        BY <2>4 DEF RatesTypeOK
      <4> QED BY <2>6, <3>1, <4>1 DEF RatesTypeOK
    <3> QED BY <2>7, <3>1 DEF RatesTypeOK
  <2>10. memory' = [memory EXCEPT !.good[c] = fetch.left[c]]
    BY <1>6 DEF Accept
  <2>11. memory' \in [cache : [Coins -> Entry \cup {NoRate}], young : SUBSET Coins,
                      good : [Coins -> Nat \cup {NoRate}], loaded : BOOLEAN]
    BY <2>1, <2>10 DEF RatesTypeOK
  <2> QED BY <1>6, <2>8, <2>9, <2>11 DEF Accept, RatesTypeOK
<1> QED BY <1>2, <1>3, <1>4, <1>5, <1>6

(* All who wait are given an entry, or go on to read the history.          *)
LEMMA ResumeTyped ==
  ASSUME RatesTypeOK, NEW cache \in [Coins -> Entry \cup {NoRate}], Resume(cache)
  PROVE  asked' \in [Askers -> Call \cup {NoRate}]
<1>1. ASSUME NEW k \in Askers, Stands(k, "WAITING") PROVE GoesOn(asked[k], cache) \in Call
  <2>1. asked[k] # NoRate /\ asked[k].step = "WAITING"
    BY <1>1 DEF Stands
  <2>2. asked[k].coin \in Coins
    BY <2>1, CallTyped
  <2>3. /\ [asked[k] EXCEPT !.step = "LAST"] \in Call
        /\ [asked[k] EXCEPT !.step = "CURRENT"] \in Call
    BY <2>1, CallTyped
  <2>4. cache[asked[k].coin] # NoRate => Given(asked[k].coin, cache[asked[k].coin]) \in Call
    BY <2>1, <2>2, CallTyped
  <2> QED BY <2>3, <2>4 DEF GoesOn
<1> QED BY <1>1 DEF Resume, RatesTypeOK

(* What memory holds once the fetch is over.                               *)
CacheAfter == [c \in Coins |-> IF fetch.accepted[c] = NoRate THEN memory.cache[c]
                               ELSE fetch.accepted[c]]

(* What a fetch leaves in the cache, and who it lets go on.                *)
LEMMA FinishTyped ==
  ASSUME RatesTypeOK, FinishFetch
  PROVE  /\ CacheAfter \in [Coins -> Entry \cup {NoRate}] /\ Resume(CacheAfter)
         /\ fetch.accepted \in [Coins -> Entry \cup {NoRate}]
         /\ memory' = [memory EXCEPT !.cache = CacheAfter,
              !.young = @ \cup {c \in Coins : fetch.accepted[c] # NoRate}]
         /\ UNCHANGED <<today, page, history, blind>> /\ fetch' = NoRate
         /\ RatesTypeOK'
<1>1. fetch.accepted \in [Coins -> Entry \cup {NoRate}]
  BY DEF FinishFetch, RatesTypeOK, Fetch
<1>2. CacheAfter \in [Coins -> Entry \cup {NoRate}]
  BY <1>1 DEF CacheAfter, RatesTypeOK
<1>3. /\ Resume(CacheAfter) /\ UNCHANGED <<today, page, history, blind>> /\ fetch' = NoRate
      /\ memory' = [memory EXCEPT !.cache = CacheAfter,
           !.young = @ \cup {c \in Coins : fetch.accepted[c] # NoRate}]
  BY DEF FinishFetch, CacheAfter
<1>4. memory' \in [cache : [Coins -> Entry \cup {NoRate}], young : SUBSET Coins,
                   good : [Coins -> Nat \cup {NoRate}], loaded : BOOLEAN]
  <2>1. memory.young \cup {c \in Coins : fetch.accepted[c] # NoRate} \in SUBSET Coins
    BY DEF RatesTypeOK
  <2> QED BY <1>2, <1>3, <2>1 DEF RatesTypeOK
<1>5. RatesTypeOK'
  BY <1>2, <1>3, <1>4, ResumeTyped DEF RatesTypeOK
<1> QED BY <1>1, <1>2, <1>3, <1>5

(* The days, the page, the purge and a restart keep the types.             *)
LEMMA WorldTyped ==
  ASSUME RatesTypeOK,
         NextDay \/ Publish \/ Restart \/ FetchFails
         \/ \E c \in Coins, d \in Dates : PurgeRate(c, d)
  PROVE  RatesTypeOK'
<1>1. CASE NextDay
  <2>1. today' \in 1 .. LastDay
    BY <1>1, RatesAssumption DEF NextDay, RatesTypeOK
  <2>2. memory' \in [cache : [Coins -> Entry \cup {NoRate}], young : SUBSET Coins,
                     good : [Coins -> Nat \cup {NoRate}], loaded : BOOLEAN]
    BY <1>1 DEF NextDay, RatesTypeOK
  <2> QED BY <1>1, <2>1, <2>2 DEF NextDay, RatesTypeOK
<1>2. CASE Publish
  BY <1>2, RatesAssumption DEF Publish, RatesTypeOK, Dates
<1>3. CASE Restart
  <2>1. FreshMemory \in [cache : [Coins -> Entry \cup {NoRate}], young : SUBSET Coins,
                         good : [Coins -> Nat \cup {NoRate}], loaded : BOOLEAN]
    BY DEF FreshMemory, Forgotten
  <2> QED BY <1>3, <2>1 DEF Restart, RatesTypeOK
<1>4. ASSUME NEW c \in Coins, NEW d \in Dates, PurgeRate(c, d) PROVE RatesTypeOK'
  <2>1. history' \in [Coins -> [Dates -> RateRow \cup {NoRate}]]
    BY <1>4 DEF PurgeRate, RatesTypeOK
  <2> QED BY <1>4, <2>1 DEF PurgeRate, RatesTypeOK
<1>5. CASE FetchFails
  <2>1. Forgotten \in [Coins -> Entry \cup {NoRate}]
    BY DEF Forgotten
  <2>2. asked' \in [Askers -> Call \cup {NoRate}]
    BY <1>5, <2>1, ResumeTyped DEF FetchFails
  <2> QED BY <1>5, <2>2 DEF FetchFails, RatesTypeOK
<1> QED BY <1>1, <1>2, <1>3, <1>4, <1>5
-----------------------------------------------------------------------------
(* What a rate was published as: with the date it is for, or without one   *)
(* that could be read.                                                     *)
Published(c, entry) ==
  \E d \in Dates : entry.rate = Official[c][d] /\ entry.date \in {d, NoDate}

(* A currency that has a row keeps one, whatever is purged, and what is    *)
(* young is in memory.                                                     *)
OnHand ==
  /\ blind \/ \A c \in Coins : OnRecord(c) # {}
  /\ \A c \in memory.young : memory.cache[c] # NoRate

(* What is on record, in memory, on its way and given was published; the   *)
(* guard has a last rate for every currency before a page is read.         *)
RecordTrue == \A c \in Coins : \A d \in OnRecord(c) : history[c][d].rate = Official[c][d]
MemoryTrue ==
  /\ \A c \in Coins : memory.good[c] # NoRate => \E d \in Dates : memory.good[c] = Official[c][d]
  /\ memory.loaded => \A c \in Coins : memory.good[c] # NoRate
  /\ \A c \in Coins : memory.cache[c] # NoRate => Published(c, memory.cache[c])
FetchTrue ==
  fetch # NoRate =>
    /\ fetch.step \in {"PAGE", "ACCEPT"} => memory.loaded
    /\ fetch.step = "ACCEPT" =>
         \A c \in Coins :
           /\ fetch.left[c] \notin {NoRate, Outlier} =>
                \E d \in Dates : fetch.left[c] = Official[c][d] /\ fetch.date \in {d, NoDate}
           /\ fetch.accepted[c] # NoRate => Published(c, fetch.accepted[c])
CallsTrue == \A k \in Askers : Stands(k, "GIVEN") => Published(asked[k].coin, asked[k].entry)

AllTrue == RecordTrue /\ MemoryTrue /\ FetchTrue /\ CallsTrue
RatesOK == RatesTypeOK /\ OnHand /\ (~blind => AllTrue)

(* The guard, once it has a last rate, lets no outlier through.            *)
LEMMA NoOutlier ==
  ASSUME RatesTypeOK, MemoryTrue, memory.loaded, NEW c \in Coins,
         WithinDeviationBand(c, Outlier)
  PROVE  FALSE
<1>1. PICK d \in Dates : memory.good[c] = Official[c][d] /\ memory.good[c] # NoRate
  BY DEF MemoryTrue
<1>2. Distance(Outlier, Official[c][d]) * 100 <= MaxDeviationPct * Official[c][d]
  BY <1>1 DEF WithinDeviationBand
<1>3. Distance(Outlier, Official[c][d]) * 100 > MaxDeviationPct * Official[c][d]
  BY OutlierAssumption
<1>4. Distance(Outlier, Official[c][d]) * 100 \in Int /\ MaxDeviationPct * Official[c][d] \in Int
  <2>1. Official[c][d] \in Nat /\ Outlier \in Nat /\ MaxDeviationPct \in Nat
    BY RatesAssumption
  <2> QED BY <2>1 DEF Distance
<1> HIDE DEF Distance
<1> QED BY <1>2, <1>3, <1>4

(* An answer from the history is a row of it.                              *)
LEMMA AnswerTrue ==
  ASSUME RatesOK, NEW k \in Askers,
         Left(k) \/ ReadLast(k) \/ ReadCurrent(k) \/ HistoryUnavailable(k)
  PROVE  RatesOK'
<1>1. UNCHANGED <<today, page, history, memory, fetch, blind>>
  BY DEF Left, ReadLast, ReadCurrent, HistoryUnavailable
<1>2. OnHand'
  BY <1>1 DEF RatesOK, OnHand, OnRecord
<1>3. ASSUME ~blind PROVE AllTrue'
  <2>1. RecordTrue /\ CallsTrue
    BY <1>3 DEF RatesOK, AllTrue
  <2>2. ASSUME NEW j \in Askers, Stands(j, "GIVEN")'
        PROVE  Published(asked'[j].coin, asked'[j].entry)
    <3>1. CASE j # k \/ Left(k)
      <4>1. asked'[j] = asked[j] \/ asked'[j] = NoRate
        BY <3>1 DEF Left, ReadLast, ReadCurrent, HistoryUnavailable, Give, Becomes, RatesOK, RatesTypeOK
      <4> QED BY <2>1, <2>2, <4>1 DEF CallsTrue, Stands
    <3>2. ASSUME j = k, Stands(k, "LAST") \/ Stands(k, "CURRENT"), Becomes(k, "REFUSED") PROVE FALSE
      <4>1. asked'[k] = [asked[k] EXCEPT !.step = "REFUSED"] /\ asked[k] \in Call
        BY <3>2 DEF Becomes, Stands, RatesOK, RatesTypeOK
      <4>2. asked'[k].step = "REFUSED"
        BY <4>1 DEF Call
      <4> QED BY <2>2, <3>2, <4>2 DEF Stands
    <3>3. ASSUME j = k, asked[k] # NoRate, OnRecordInForce(asked[k].coin) # {},
                 Give(k, AsEntry(asked[k].coin, Latest(OnRecordInForce(asked[k].coin))))
          PROVE  Published(asked'[j].coin, asked'[j].entry)
      <4> DEFINE c == asked[k].coin
                 d == Latest(OnRecordInForce(c))
      <4>1. c \in Coins
        BY <3>3, CallTyped DEF RatesOK
      <4>2. d \in OnRecord(c) /\ d \in Dates
        BY <3>3, LatestIsOne DEF OnRecordInForce, OnRecord
      <4>3. asked'[k] = Given(c, AsEntry(c, d))
        BY <3>3 DEF Give, RatesOK, RatesTypeOK
      <4>4. asked'[k].coin = c /\ asked'[k].entry.rate = history[c][d].rate
            /\ asked'[k].entry.date = d
        BY <4>3 DEF Given, AsEntry
      <4> HIDE DEF c, d
      <4> QED BY <2>1, <3>3, <4>1, <4>2, <4>4 DEF RecordTrue, Published
    <3> QED BY <3>1, <3>2, <3>3 DEF ReadLast, ReadCurrent, HistoryUnavailable, Stands
  <2>3. CallsTrue'
    BY <2>2 DEF CallsTrue, Published
  <2> QED
    BY <1>1, <1>3, <2>3 DEF RatesOK, AllTrue, RecordTrue, MemoryTrue, FetchTrue, OnRecord, Published
<1> QED BY <1>1, <1>2, <1>3, AnswerTyped DEF RatesOK

(* A caller is given from the cache what is true of it.                    *)
LEMMA AskTrue ==
  ASSUME RatesOK, NEW k \in Askers, NEW c \in Coins, AskCached(k, c) \/ AskFetching(k, c)
  PROVE  RatesOK'
<1>1. UNCHANGED <<today, page, history, memory, blind>>
  BY DEF AskCached, AskFetching
<1>2. RatesTypeOK' /\ OnHand'
  BY <1>1, AskTyped DEF RatesOK, OnHand, OnRecord
<1>3. ASSUME ~blind PROVE AllTrue'
  <2>1. CallsTrue'
    <3>1. \A j \in Askers : j # k => asked'[j] = asked[j]
      BY DEF AskCached, AskFetching, RatesOK, RatesTypeOK
    <3>2. Stands(k, "GIVEN")' => Published(asked'[k].coin, asked'[k].entry)
      <4>1. CASE AskCached(k, c)
        <5>1. asked'[k] = Given(c, memory.cache[c]) /\ memory.cache[c] # NoRate
          BY <4>1 DEF AskCached, RatesOK, RatesTypeOK, OnHand
        <5>2. asked'[k].coin = c /\ asked'[k].entry = memory.cache[c]
          BY <5>1 DEF Given
        <5> QED BY <1>3, <5>1, <5>2 DEF RatesOK, AllTrue, MemoryTrue
      <4>2. CASE AskFetching(k, c)
        <5>1. asked'[k] = [coin |-> c, step |-> "WAITING"]
          BY <4>2 DEF AskFetching, RatesOK, RatesTypeOK
        <5> QED BY <5>1 DEF Stands
      <4> QED BY <4>1, <4>2
    <3> QED BY <1>3, <3>1, <3>2 DEF RatesOK, AllTrue, CallsTrue, Stands, Published
  <2>2. FetchTrue'
    <3>1. CASE fetch' = fetch
      BY <1>1, <1>3, <3>1 DEF RatesOK, AllTrue, FetchTrue, Published
    <3>2. CASE fetch' = [step |-> IF memory.loaded THEN "PAGE" ELSE "BASELINES"]
      BY <1>1, <3>2 DEF FetchTrue
    <3> QED BY <3>1, <3>2 DEF AskCached, AskFetching
  <2> QED BY <1>1, <1>3, <2>1, <2>2 DEF RatesOK, AllTrue, RecordTrue, MemoryTrue, OnRecord, Published
<1> QED BY <1>1, <1>2, <1>3 DEF RatesOK

(* What the guard compares with is on record, or the process is blind.     *)
LEMMA BaselinesTrue ==
  ASSUME RatesOK, LoadBaselines \/ BaselinesUnavailable PROVE RatesOK'
<1>1. UNCHANGED <<today, page, history, asked>> /\ memory'.cache = memory.cache
      /\ memory'.young = memory.young /\ blind' \in {blind, TRUE}
  BY DEF LoadBaselines, BaselinesUnavailable, RatesOK, RatesTypeOK
<1>2. OnHand'
  BY <1>1 DEF RatesOK, OnHand, OnRecord
<1>3. RatesTypeOK'
  BY FetchTyped DEF RatesOK
<1>4. ASSUME ~blind' PROVE AllTrue'
  <2>0. LoadBaselines
    BY <1>4, Zenon DEF BaselinesUnavailable
  <2>1. /\ ~blind
        /\ fetch' = [step |-> "PAGE"] /\ memory'.loaded = TRUE
        /\ \A c \in Coins : memory'.good[c] = IF OnRecord(c) = {} THEN NoRate
                                              ELSE history[c][Latest(OnRecord(c))].rate
    <3>1. blind' = blind
      BY <2>0 DEF LoadBaselines
    <3>2. ~blind
      BY <1>4, <3>1, Zenon
    <3> QED BY <2>0, <3>2 DEF LoadBaselines, RatesOK, RatesTypeOK
  <2>2. AllTrue
    BY <2>1 DEF RatesOK
  <2>3. ASSUME NEW c \in Coins
        PROVE  memory'.good[c] # NoRate /\ \E d \in Dates : memory'.good[c] = Official[c][d]
    <3>1. Latest(OnRecord(c)) \in OnRecord(c) /\ OnRecord(c) # {}
      BY <2>1, LatestIsOne DEF OnRecord, RatesOK, OnHand
    <3>2. Latest(OnRecord(c)) \in Dates /\ history[c][Latest(OnRecord(c))].rate \in Nat
      BY <3>1, RowTyped DEF RatesOK
    <3> QED BY <2>1, <2>2, <3>1, <3>2, RatesAssumption DEF AllTrue, RecordTrue
  <2>4. MemoryTrue'
    BY <1>1, <2>2, <2>3 DEF AllTrue, MemoryTrue, Published
  <2>5. FetchTrue'
    BY <2>1 DEF FetchTrue
  <2> QED BY <1>1, <2>2, <2>4, <2>5 DEF AllTrue, RecordTrue, CallsTrue, OnRecord, Stands, Published
<1> QED BY <1>2, <1>3, <1>4 DEF RatesOK

(* A page that is read says what was published.                            *)
LEMMA ReadPageTrue ==
  ASSUME RatesOK, ReadPage PROVE RatesOK'
<1>1. UNCHANGED <<today, page, history, memory, asked, blind>>
  BY DEF ReadPage
<1>2. RatesTypeOK' /\ OnHand'
  BY <1>1, FetchTyped DEF RatesOK, OnHand, OnRecord
<1>3. ASSUME ~blind PROVE FetchTrue'
  <2>1. PICK date \in {page, NoDate}, seen \in [Coins -> {"RATE", "OUTLIER", "MISSING"}] :
          fetch' = [step |-> "ACCEPT", date |-> date, accepted |-> Forgotten,
            left |-> [d \in Coins |-> CASE seen[d] = "RATE" -> Official[d][page]
                                        [] seen[d] = "OUTLIER" -> Outlier
                                        [] OTHER -> NoRate]]
    BY DEF ReadPage
  <2>2. memory.loaded /\ page \in Dates
    BY <1>3 DEF ReadPage, RatesOK, RatesTypeOK, AllTrue, FetchTrue
  <2>3. /\ fetch'.date \in {page, NoDate} /\ fetch'.accepted = Forgotten
        /\ \A d \in Coins : fetch'.left[d] \in {Official[d][page], Outlier, NoRate}
    BY <2>1
  <2> QED BY <1>1, <2>2, <2>3 DEF FetchTrue, Forgotten
<1> QED
  BY <1>1, <1>2, <1>3
  DEF RatesOK, AllTrue, RecordTrue, MemoryTrue, CallsTrue, OnRecord, Stands, Published

(* A rejected rate changes nothing that is served.                         *)
LEMMA RejectTrue ==
  ASSUME RatesOK, NEW c \in Coins, Reject(c) PROVE RatesOK'
<1>1. UNCHANGED <<today, page, history, memory, asked, blind>>
  BY DEF Reject
<1>2. RatesTypeOK' /\ OnHand'
  BY <1>1, FetchTyped DEF RatesOK, OnHand, OnRecord
<1>3. /\ fetch'.step = "ACCEPT" /\ fetch.step = "ACCEPT" /\ fetch # NoRate
      /\ fetch'.date = fetch.date /\ fetch'.accepted = fetch.accepted
      /\ \A d \in Coins : fetch'.left[d] \in {fetch.left[d], NoRate}
  BY DEF Reject, RatesOK, RatesTypeOK, Fetch
<1>4. ASSUME ~blind PROVE FetchTrue'
  BY <1>1, <1>3, <1>4 DEF RatesOK, AllTrue, FetchTrue, Published
<1> QED
  BY <1>1, <1>2, <1>4
  DEF RatesOK, AllTrue, RecordTrue, MemoryTrue, CallsTrue, OnRecord, Stands, Published

(* An accepted rate is one that was published, on record or not.           *)
LEMMA AcceptTrue ==
  ASSUME RatesOK, NEW c \in Coins, NEW saved \in BOOLEAN, Accept(c, saved) PROVE RatesOK'
<1> DEFINE rate == fetch.left[c]
<1>1. /\ UNCHANGED <<today, page, asked, blind>> /\ RatesTypeOK
      /\ fetch # NoRate /\ fetch.step = "ACCEPT" /\ rate \in Nat /\ rate # NoRate
      /\ WithinDeviationBand(c, rate)
      /\ fetch \in [step : {"ACCEPT"}, date : Dates \cup {NoDate},
                    left : [Coins -> Nat \cup {NoRate}], accepted : [Coins -> Entry \cup {NoRate}]]
  BY DEF Accept, RatesOK, RatesTypeOK, Fetch
<1>2. /\ memory'.cache = memory.cache /\ memory'.young = memory.young
      /\ memory'.loaded = memory.loaded /\ memory'.good[c] = rate
      /\ \A d \in Coins : d # c => memory'.good[d] = memory.good[d]
  BY DEF Accept, RatesOK, RatesTypeOK
<1>3. /\ fetch'.step = "ACCEPT" /\ fetch'.date = fetch.date /\ fetch'.left[c] = NoRate
      /\ fetch'.accepted[c].rate = rate /\ fetch'.accepted[c].date = fetch.date
      /\ \A d \in Coins : d # c => /\ fetch'.left[d] = fetch.left[d]
                                   /\ fetch'.accepted[d] = fetch.accepted[d]
  <2>1. fetch' = [fetch EXCEPT !.left[c] = NoRate,
                               !.accepted[c] = [rate |-> rate, date |-> fetch.date]]
    BY DEF Accept
  <2> QED BY <1>1, <2>1
<1>4. /\ \A b \in Coins : \A d \in Dates :
           ~(saved /\ b = c /\ d = fetch.date) => history'[b][d] = history[b][d]
      /\ saved => /\ fetch.date \in Dates /\ history'[c][fetch.date].rate = rate
                  /\ history'[c][fetch.date] # NoRate
  <2>1. CASE saved
    <3> DEFINE row == [rate |-> rate, fetched |-> today]
    <3>1. fetch.date \in Dates /\ history' = [history EXCEPT ![c][fetch.date] = row]
      BY <1>1, <2>1 DEF Accept, Persisted
    <3>2. row \in RateRow /\ row.rate = rate
      <4>1. today \in 0 .. LastDay
        BY <1>1, RatesAssumption DEF RatesTypeOK
      <4> QED BY <1>1, <4>1 DEF RateRow
    <3>3. row # NoRate
      BY <3>2, NoRateAssumption
    <3> HIDE DEF row
    <3> QED BY <1>1, <2>1, <3>1, <3>2, <3>3 DEF RatesTypeOK
  <2>2. CASE ~saved
    BY <2>2 DEF Accept, Persisted
  <2> QED BY <2>1, <2>2
<1> HIDE DEF rate
<1>5. OnHand'
  <2>1. \A b \in Coins : OnRecord(b) \subseteq OnRecord(b)'
    BY <1>4 DEF OnRecord
  <2> QED BY <1>1, <1>2, <2>1 DEF RatesOK, OnHand
<1>6. ASSUME ~blind PROVE AllTrue'
  <2>1. AllTrue /\ memory.loaded
    BY <1>1, <1>6 DEF RatesOK, AllTrue, FetchTrue
  <2>2. rate # Outlier
    BY <1>1, <2>1, NoOutlier DEF AllTrue
  <2>3. PICK d \in Dates : rate = Official[c][d] /\ fetch.date \in {d, NoDate}
    BY <1>1, <2>1, <2>2 DEF AllTrue, FetchTrue, rate
  <2>4. RecordTrue'
    <3>1. ASSUME NEW b \in Coins, NEW e \in OnRecord(b)' PROVE history'[b][e].rate = Official[b][e]
      <4>1. e \in Dates
        BY <3>1 DEF OnRecord
      <4>2. CASE saved /\ b = c /\ e = fetch.date
        BY <1>4, <2>3, <4>2, RatesAssumption DEF NoDate, Dates
      <4>3. CASE ~(saved /\ b = c /\ e = fetch.date)
        BY <1>4, <2>1, <3>1, <4>1, <4>3 DEF AllTrue, RecordTrue, OnRecord
      <4> QED BY <4>2, <4>3
    <3> QED BY <3>1 DEF RecordTrue
  <2>5. MemoryTrue'
    BY <1>1, <1>2, <2>1, <2>3 DEF AllTrue, MemoryTrue, Published
  <2>6. FetchTrue'
    BY <1>1, <1>2, <1>3, <2>1, <2>3 DEF AllTrue, FetchTrue, Published
  <2> QED BY <1>1, <2>1, <2>4, <2>5, <2>6 DEF AllTrue, CallsTrue, Stands, Published
<1> QED BY <1>1, <1>5, <1>6, FetchTyped DEF RatesOK

(* All who wait are given what memory holds, in force, or read on.         *)
LEMMA ResumeTrue ==
  ASSUME RatesOK, NEW cache \in [Coins -> Entry \cup {NoRate}], Resume(cache), CallsTrue,
         \A c \in Coins : cache[c] # NoRate => Published(c, cache[c])
  PROVE  CallsTrue'
<1>1. ASSUME NEW k \in Askers, Stands(k, "GIVEN")'
      PROVE  Published(asked'[k].coin, asked'[k].entry)
  <2>1. CASE ~Stands(k, "WAITING")
    <3>1. asked'[k] = asked[k]
      BY <2>1 DEF Resume
    <3> QED BY <1>1, <3>1 DEF CallsTrue, Stands
  <2>2. CASE Stands(k, "WAITING")
    <3> DEFINE c == asked[k].coin
    <3>1. asked'[k] = GoesOn(asked[k], cache) /\ c \in Coins /\ asked[k] \in Call
      BY <2>2, CallTyped DEF Resume, RatesOK, RatesTypeOK, Stands
    <3>2. /\ [asked[k] EXCEPT !.step = "LAST"].step = "LAST"
          /\ [asked[k] EXCEPT !.step = "CURRENT"].step = "CURRENT"
      BY <3>1 DEF Call
    <3>3. cache[c] # NoRate /\ asked'[k] = Given(c, cache[c])
      BY <1>1, <3>1, <3>2 DEF GoesOn, Stands
    <3>4. asked'[k].coin = c /\ asked'[k].entry = cache[c]
      BY <3>3 DEF Given
    <3> QED BY <3>1, <3>3, <3>4
  <2> QED BY <2>1, <2>2
<1> QED BY <1>1 DEF CallsTrue, Published

(* What a fetch leaves in the cache is true.                               *)
LEMMA FinishTrue ==
  ASSUME RatesOK, FinishFetch PROVE RatesOK'
<1>1. /\ CacheAfter \in [Coins -> Entry \cup {NoRate}] /\ Resume(CacheAfter)
      /\ fetch.accepted \in [Coins -> Entry \cup {NoRate}]
      /\ UNCHANGED <<today, page, history, blind>> /\ fetch' = NoRate /\ RatesTypeOK'
  BY FinishTyped DEF RatesOK
<1>2. /\ memory'.cache = CacheAfter /\ memory'.good = memory.good /\ memory'.loaded = memory.loaded
      /\ memory'.young = memory.young \cup {c \in Coins : fetch.accepted[c] # NoRate}
  BY FinishTyped DEF RatesOK, RatesTypeOK
<1>3. OnHand'
  BY <1>1, <1>2 DEF RatesOK, OnHand, OnRecord, CacheAfter, RatesTypeOK
<1>4. ASSUME ~blind PROVE AllTrue'
  <2>1. AllTrue /\ fetch # NoRate /\ fetch.step = "ACCEPT"
    BY <1>4 DEF RatesOK, FinishFetch
  <2>2. \A c \in Coins : CacheAfter[c] # NoRate => Published(c, CacheAfter[c])
    BY <2>1 DEF CacheAfter, AllTrue, FetchTrue, MemoryTrue
  <2>3. CallsTrue'
    BY <1>1, <2>1, <2>2, ResumeTrue DEF AllTrue
  <2>4. MemoryTrue'
    BY <1>2, <2>1, <2>2 DEF AllTrue, MemoryTrue, Published
  <2> QED BY <1>1, <2>1, <2>3, <2>4 DEF AllTrue, RecordTrue, FetchTrue, OnRecord
<1> QED BY <1>1, <1>3, <1>4 DEF RatesOK

(* Nothing that is true of a date is undone by the days, the page, the     *)
(* purge or a restart.                                                     *)
LEMMA WorldTrue ==
  ASSUME RatesOK,
         NextDay \/ Publish \/ Restart \/ FetchFails
         \/ \E c \in Coins, d \in Dates : PurgeRate(c, d)
  PROVE  RatesOK'
<1>1. RatesTypeOK'
  BY WorldTyped DEF RatesOK
<1>2. CASE NextDay \/ Publish
  <2>1. /\ UNCHANGED <<history, fetch, asked, blind>> /\ memory'.cache = memory.cache
        /\ memory'.good = memory.good /\ memory'.loaded = memory.loaded
        /\ memory'.young \subseteq memory.young
    BY <1>2 DEF NextDay, Publish, RatesOK, RatesTypeOK
  <2> QED
    BY <1>1, <2>1 DEF RatesOK, OnHand, AllTrue, RecordTrue, MemoryTrue, FetchTrue, CallsTrue,
                      OnRecord, Stands, Published
<1>3. CASE Restart
  <2>1. /\ UNCHANGED <<history, blind>> /\ fetch' = NoRate /\ memory' = FreshMemory
        /\ \A k \in Askers : asked'[k] = NoRate
    BY <1>3 DEF Restart
  <2> QED
    BY <1>1, <2>1 DEF RatesOK, OnHand, AllTrue, RecordTrue, MemoryTrue, FetchTrue, CallsTrue,
                      OnRecord, Stands, FreshMemory, Forgotten
<1>4. ASSUME NEW c \in Coins, NEW d \in Dates, PurgeRate(c, d) PROVE RatesOK'
  <2>1. /\ d # Latest(OnRecord(c)) /\ history' = [history EXCEPT ![c][d] = NoRate]
        /\ UNCHANGED <<today, page, memory, fetch, asked, blind>>
    BY <1>4 DEF PurgeRate, Purgeable
  <2>2. /\ OnRecord(c)' = OnRecord(c) \ {d}
        /\ \A b \in Coins : /\ b # c => OnRecord(b)' = OnRecord(b)
                            /\ \A e \in OnRecord(b)' : history'[b][e] = history[b][e]
                                                       /\ e \in OnRecord(b)
    BY <2>1 DEF OnRecord, RatesOK, RatesTypeOK
  <2>3. Latest(OnRecord(c)) \in OnRecord(c)
    <3>1. d \in OnRecord(c)
      BY <1>4 DEF PurgeRate, Purgeable, OnRecord
    <3> QED BY <3>1, LatestIsOne DEF OnRecord
  <2>4. OnHand'
    BY <2>1, <2>2, <2>3 DEF RatesOK, OnHand
  <2>5. ASSUME ~blind PROVE AllTrue'
    BY <2>1, <2>2, <2>5
    DEF RatesOK, AllTrue, RecordTrue, MemoryTrue, FetchTrue, CallsTrue, Stands, Published
  <2> QED BY <1>1, <2>1, <2>4, <2>5 DEF RatesOK
<1>5. CASE FetchFails
  <2>1. Resume(Forgotten) /\ fetch' = NoRate /\ UNCHANGED <<today, page, history, memory, blind>>
    BY <1>5 DEF FetchFails
  <2>2. Forgotten \in [Coins -> Entry \cup {NoRate}] /\ \A b \in Coins : Forgotten[b] = NoRate
    BY DEF Forgotten
  <2>3. ~blind => CallsTrue'
    BY <2>1, <2>2, ResumeTrue DEF RatesOK, AllTrue
  <2> QED
    BY <1>1, <2>1, <2>3 DEF RatesOK, OnHand, AllTrue, RecordTrue, MemoryTrue, FetchTrue, OnRecord,
                            Published
<1> QED BY <1>2, <1>3, <1>4, <1>5

(* All is true of an empty history.                                        *)
LEMMA RatesInitOK == RatesInit => RatesOK
<1> SUFFICES ASSUME RatesInit PROVE RatesOK
  BY Zenon
<1>1. 1 \in 1 .. LastDay /\ 1 \in Dates /\ 1 \in 0 .. LastDay
  BY RatesAssumption DEF Dates
<1>2. \A c \in Coins : /\ [rate |-> Official[c][1], fetched |-> 1] \in RateRow
                       /\ [rate |-> Official[c][1], fetched |-> 1] # NoRate
  BY <1>1, RatesAssumption, NoRateAssumption DEF RateRow
<1>3. history \in [Coins -> [Dates -> RateRow \cup {NoRate}]]
  BY <1>2 DEF RatesInit
<1>4. FreshMemory \in [cache : [Coins -> Entry \cup {NoRate}], young : SUBSET Coins,
                       good : [Coins -> Nat \cup {NoRate}], loaded : BOOLEAN]
  BY DEF FreshMemory, Forgotten
<1>5. RatesTypeOK
  BY <1>1, <1>3, <1>4 DEF RatesInit, RatesTypeOK
<1>6. \A c \in Coins : \A d \in Dates : history[c][d] # NoRate =>
         d = 1 /\ history[c][d] = [rate |-> Official[c][1], fetched |-> 1]
  BY DEF RatesInit
<1>7. blind \/ \A c \in Coins : 1 \in OnRecord(c)
  <2>1. PICK known \in SUBSET Coins :
          /\ blind = (known # Coins)
          /\ history = [c \in Coins |-> [d \in Dates |->
               IF c \in known /\ d = 1 THEN [rate |-> Official[c][1], fetched |-> 1] ELSE NoRate]]
    BY DEF RatesInit
  <2>2. ASSUME known = Coins PROVE \A c \in Coins : 1 \in OnRecord(c)
    BY <1>1, <1>2, <2>1, <2>2 DEF OnRecord
  <2>3. ASSUME known # Coins PROVE blind
    BY <2>1, <2>3, Zenon
  <2> QED BY <2>2, <2>3
<1>8. OnHand
  BY <1>7 DEF RatesInit, OnHand, FreshMemory
<1>9. AllTrue
  BY <1>6 DEF RatesInit, AllTrue, RecordTrue, MemoryTrue, FetchTrue, CallsTrue, Stands, OnRecord,
              FreshMemory, Forgotten
<1> QED BY <1>5, <1>8, <1>9 DEF RatesOK

(* Every step leaves what is served true.                                  *)
LEMMA RatesStepOK ==
  ASSUME RatesOK, [RatesStep]_ratesVars PROVE RatesOK'
<1>1. CASE NextDay \/ Publish \/ Restart \/ FetchFails \/ \E c \in Coins, d \in Dates : PurgeRate(c, d)
  BY <1>1, WorldTrue
<1>2. CASE \E k \in Askers, c \in Coins : AskCached(k, c) \/ AskFetching(k, c)
  BY <1>2, AskTrue
<1>3. CASE \E k \in Askers : Left(k) \/ ReadLast(k) \/ ReadCurrent(k) \/ HistoryUnavailable(k)
  BY <1>3, AnswerTrue
<1>4. CASE LoadBaselines \/ BaselinesUnavailable
  BY <1>4, BaselinesTrue
<1>5. CASE ReadPage
  BY <1>5, ReadPageTrue
<1>6. CASE FinishFetch
  BY <1>6, FinishTrue
<1>7. ASSUME NEW c \in Coins, Reject(c) PROVE RatesOK'
  BY <1>7, RejectTrue
<1>8. ASSUME NEW c \in Coins, NEW saved \in BOOLEAN, Accept(c, saved) PROVE RatesOK'
  BY <1>8, AcceptTrue
<1>9. CASE UNCHANGED ratesVars
  BY <1>9 DEF ratesVars, RatesOK, RatesTypeOK, OnHand, AllTrue, RecordTrue, MemoryTrue, FetchTrue,
              CallsTrue, OnRecord, Stands, Published
<1> QED BY <1>1, <1>2, <1>3, <1>4, <1>5, <1>6, <1>7, <1>8, <1>9 DEF RatesStep

(* The history, the memory, the fetch and the calls keep their types.      *)
THEOREM RatesType == RatesSpec => []RatesTypeOK
<1>1. RatesOK /\ [RatesStep]_ratesVars => RatesOK'
  BY RatesStepOK
<1>2. RatesOK => RatesTypeOK
  BY DEF RatesOK
<1> QED BY RatesInitOK, <1>1, <1>2, PTL DEF RatesSpec

(* fx.js, getRateFor: what a caller is given is a rate that was published, *)
(* for its date, whatever the page shows and whatever fails, is purged or  *)
(* restarts, for any number of currencies, days and callers.               *)
THEOREM RatesAreNotGuessed == RatesSpec => []GuessesNothing
<1>1. RatesOK /\ [RatesStep]_ratesVars => RatesOK'
  BY RatesStepOK
<1>2. RatesOK => GuessesNothing
  BY DEF RatesOK, AllTrue, CallsTrue, Published, GuessesNothing
<1> QED BY RatesInitOK, <1>1, <1>2, PTL DEF RatesSpec
=============================================================================
