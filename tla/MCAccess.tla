------------------------------- MODULE MCAccess ------------------------------
(***************************************************************************)
(* The codes of a staff account, its tokens, and the exchange rates. A     *)
(* behaviour runs one of the three.                                        *)
(*                                                                         *)
(* Codes and tokens are halves of one account: nothing about a code reads  *)
(* a session, and what turns tokens over reads nothing of a code, so the   *)
(* steps of the other half may be left out of any behaviour.  Rates: two   *)
(* currencies, two days and the next.                                      *)
(***************************************************************************)
EXTENDS Access, Rates, TLC

CONSTANTS usd, eur

VARIABLE part
gate == <<part, vars, ratesVars>>

GateInit == part \in {"CODES", "TOKENS", "RATES"} /\ Init /\ RatesInit

(* The steps of each half.                                                 *)
AboutCodes == Passing \/ Factor \/ SetActive \/ \E r \in Requests : Login(r)
AboutTokens ==
  \/ SetActive \/ (\E k \in Keys : WindowPasses(k)) \/ \E r \in Requests : Login(r) \/ Chain(r)
  \/ \E t \in Tokens : Logout(t) \/ SessionExpires(t)

GateNext ==
  \/ part = "CODES" /\ AboutCodes /\ UNCHANGED <<part, ratesVars>>
  \/ part = "TOKENS" /\ AboutTokens /\ UNCHANGED <<part, ratesVars>>
  \/ part = "RATES" /\ RatesStep /\ UNCHANGED <<part, vars>>

GateSpec == GateInit /\ [][GateNext]_gate

(* A process without its baselines promises nothing, and is not followed.  *)
Sighted == ~blind

MCOfficial == [c \in Coins |-> [d \in Dates |-> 19 + d]]
Symmetry == Permutations(Requests)
=============================================================================
