-------------------------------- MODULE Rates --------------------------------
(***************************************************************************)
(* The exchange rates of one process (services/fx.js): a page that shows   *)
(* every rate for one value date, often for the next day, is fetched once  *)
(* for all who wait, checked currency by currency against the last rate    *)
(* believed, kept in memory for a while and in the database for ever but   *)
(* for the purge.  A caller is given a rate or is refused; it is never     *)
(* given a guess.                                                          *)
(*                                                                         *)
(* Time is counted in days.  Memory is believed for minutes, so an entry   *)
(* of an earlier day is asked for again (but it is not forgotten).         *)
(***************************************************************************)
EXTENDS Integers, FiniteSets

CONSTANTS
  Coins,             \* the currencies the page shows
  Official,          \* what the central bank published for each day
  Outlier,           \* a plausible number that is not a rate
  MaxDeviationPct, MaxAge, Retention,
  LastDay,           \* bound
  Askers,            \* calls of getRateFor at once
  NoRate

Dates == 1 .. LastDay + 1
NoDate == 0          \* the page shows no date that can be read

ASSUME RatesAssumption ==
  /\ Official \in [Coins -> [Dates -> Nat \ {0}]] /\ Outlier \in Nat \ {0}
  /\ MaxDeviationPct \in Nat /\ LastDay \in Nat \ {0} /\ MaxAge \in Nat /\ Retention \in Nat
  /\ NoRate \notin Nat

VARIABLES
  today,
  page,      \* the value date the page shows
  history,   \* fx_rates: the row of each currency and date
  memory,    \* caches, lastGood and baselineLoaded
  fetch,     \* inFlight
  asked,     \* the calls
  blind      \* some process had nothing to compare a currency with

ratesVars == <<today, page, history, memory, fetch, asked, blind>>

RateRow == [rate : Nat, fetched : 0 .. LastDay]
Entry == [rate : Nat, date : Dates \cup {NoDate}]
Call == [coin : Coins, step : {"WAITING", "LAST", "CURRENT", "REFUSED"}]
          \cup [coin : Coins, step : {"GIVEN"}, entry : Entry, on : 1 .. LastDay]
Fetch == [step : {"BASELINES", "PAGE"}]
         \cup [step : {"ACCEPT"}, date : Dates \cup {NoDate},
               left : [Coins -> Nat \cup {NoRate}], accepted : [Coins -> Entry \cup {NoRate}]]

ASSUME NoRateAssumption == NoRate \notin RateRow \cup Entry

(* An outlier is further from every rate than the guard lets one move: an  *)
(* error within the band is believed, here as in the program.              *)
Distance(m, n) == IF m < n THEN n - m ELSE m - n

ASSUME OutlierAssumption ==
  \A c \in Coins, d \in Dates :
    Distance(Outlier, Official[c][d]) * 100 > MaxDeviationPct * Official[c][d]

RatesTypeOK ==
  /\ today \in 1 .. LastDay /\ page \in Dates /\ blind \in BOOLEAN
  /\ history \in [Coins -> [Dates -> RateRow \cup {NoRate}]]
  /\ memory \in [cache : [Coins -> Entry \cup {NoRate}],
                 young : SUBSET Coins, good : [Coins -> Nat \cup {NoRate}], loaded : BOOLEAN]
  /\ fetch \in Fetch \cup {NoRate}
  /\ asked \in [Askers -> Call \cup {NoRate}]

Forgotten == [c \in Coins |-> NoRate]
FreshMemory == [cache |-> Forgotten, young |-> {}, good |-> Forgotten, loaded |-> FALSE]

(* A process that starts with the rates of the first day on record, of     *)
(* some of the currencies: the first number it reads of another is taken   *)
(* for its rate.                                                           *)
RatesInit ==
  /\ today = 1 /\ page = 1
  /\ \E known \in SUBSET Coins :
       /\ blind = (known # Coins)
       /\ history = [c \in Coins |-> [d \in Dates |->
            IF c \in known /\ d = 1 THEN [rate |-> Official[c][1], fetched |-> 1] ELSE NoRate]]
  /\ memory = FreshMemory /\ fetch = NoRate
  /\ asked = [k \in Askers |-> NoRate]

-----------------------------------------------------------------------------
(* The world: days pass, and the bank publishes for the next day.          *)

NextDay ==
  /\ today < LastDay
  /\ today' = today + 1
  /\ memory' = [memory EXCEPT !.young = {}]
  /\ UNCHANGED <<page, history, fetch, asked, blind>>

Publish ==
  /\ page <= today
  /\ page' = today + 1
  /\ UNCHANGED <<today, history, memory, fetch, asked, blind>>

(* The process dies and another starts.                                    *)
Restart ==
  /\ memory' = FreshMemory /\ fetch' = NoRate
  /\ asked' = [k \in Askers |-> NoRate]
  /\ UNCHANGED <<today, page, history, blind>>

-----------------------------------------------------------------------------
(* What is on record.                                                      *)

OnRecord(c) == {d \in Dates : history[c][d] # NoRate}
Latest(dates) == CHOOSE d \in dates : \A e \in dates : e <= d
InForce(date) == date <= today
OnRecordInForce(c) == {d \in OnRecord(c) : InForce(d)}
AsEntry(c, d) == [rate |-> history[c][d].rate, date |-> d]

(* Wrong: every row past its retention is deleted.                         *)
PurgeableByAge(c, d) == history[c][d] # NoRate /\ history[c][d].fetched + Retention <= today

(* The newest row of a currency stays, whatever its age.                   *)
Purgeable(c, d) ==
  /\ history[c][d] # NoRate /\ history[c][d].fetched + Retention <= today
  /\ d # Latest(OnRecord(c))

(* Batch by batch, and not always to the end.                              *)
PurgeRate(c, d) ==
  /\ Purgeable(c, d)
  /\ history' = [history EXCEPT ![c][d] = NoRate]
  /\ UNCHANGED <<today, page, memory, fetch, asked, blind>>

-----------------------------------------------------------------------------
(* A call.                                                                 *)

Becomes(k, step) == asked' = [asked EXCEPT ![k].step = step]
Given(c, entry) == [coin |-> c, step |-> "GIVEN", entry |-> entry, on |-> today]
Give(k, entry) == asked' = [asked EXCEPT ![k] = Given(@.coin, entry)]
Stands(k, step) == asked[k] # NoRate /\ asked[k].step = step

AskCached(k, c) ==
  /\ asked[k] = NoRate
  /\ c \in memory.young
  /\ asked' = [asked EXCEPT ![k] = Given(c, memory.cache[c])]
  /\ UNCHANGED <<today, page, history, memory, fetch, blind>>

(* Nothing in memory, or too old: one fetch serves all who come meanwhile. *)
AskFetching(k, c) ==
  /\ asked[k] = NoRate
  /\ asked' = [asked EXCEPT ![k] = [coin |-> c, step |-> "WAITING"]]
  /\ fetch' = IF fetch # NoRate THEN fetch
              ELSE [step |-> IF memory.loaded THEN "PAGE" ELSE "BASELINES"]
  /\ UNCHANGED <<today, page, history, memory, blind>>

Left(k) ==
  /\ asked[k] # NoRate /\ asked[k].step \in {"GIVEN", "REFUSED"}
  /\ asked' = [asked EXCEPT ![k] = NoRate]
  /\ UNCHANGED <<today, page, history, memory, fetch, blind>>

(* lastInForce: the newest rate in force, unless it is too old.            *)
ReadLast(k) ==
  LET dates == OnRecordInForce(asked[k].coin) IN
  /\ Stands(k, "LAST")
  /\ IF dates # {} /\ today - Latest(dates) <= MaxAge
     THEN Give(k, AsEntry(asked[k].coin, Latest(dates)))
     ELSE Becomes(k, "REFUSED")
  /\ UNCHANGED <<today, page, history, memory, fetch, blind>>

(* What was fetched is for tomorrow: the newest rate in force.             *)
ReadCurrent(k) ==
  LET dates == OnRecordInForce(asked[k].coin) IN
  /\ Stands(k, "CURRENT")
  /\ IF dates # {} THEN Give(k, AsEntry(asked[k].coin, Latest(dates)))
                   ELSE Becomes(k, "REFUSED")
  /\ UNCHANGED <<today, page, history, memory, fetch, blind>>

HistoryUnavailable(k) ==
  /\ Stands(k, "LAST") \/ Stands(k, "CURRENT")
  /\ Becomes(k, "REFUSED")
  /\ UNCHANGED <<today, page, history, memory, fetch, blind>>

-----------------------------------------------------------------------------
(* The fetch.                                                              *)

(* Marked as loaded before the rows are read: a failure is not repaired    *)
(* while the process lives.                                                *)
LoadBaselines ==
  /\ fetch # NoRate /\ fetch.step = "BASELINES"
  /\ memory' = [memory EXCEPT !.loaded = TRUE, !.good = [c \in Coins |->
       IF OnRecord(c) = {} THEN NoRate ELSE history[c][Latest(OnRecord(c))].rate]]
  /\ fetch' = [step |-> "PAGE"]
  /\ UNCHANGED <<today, page, history, asked, blind>>

BaselinesUnavailable ==
  /\ fetch # NoRate /\ fetch.step = "BASELINES"
  /\ memory' = [memory EXCEPT !.loaded = TRUE] /\ blind' = TRUE
  /\ fetch' = [step |-> "PAGE"]
  /\ UNCHANGED <<today, page, history, asked>>

(* The page is parsed: a block may be missing or carry another number, the *)
(* date may be unreadable.                                                 *)
ReadPage ==
  /\ fetch # NoRate /\ fetch.step = "PAGE"
  /\ \E date \in {page, NoDate}, seen \in [Coins -> {"RATE", "OUTLIER", "MISSING"}] :
       /\ \E c \in Coins : seen[c] # "MISSING"
       /\ fetch' = [step |-> "ACCEPT", date |-> date, accepted |-> Forgotten,
            left |-> [c \in Coins |-> CASE seen[c] = "RATE" -> Official[c][page]
                                        [] seen[c] = "OUTLIER" -> Outlier
                                        [] OTHER -> NoRate]]
  /\ UNCHANGED <<today, page, history, memory, asked, blind>>

WithinDeviationBand(c, rate) ==
  memory.good[c] # NoRate =>
    Distance(rate, memory.good[c]) * 100 <= MaxDeviationPct * memory.good[c]

(* A row without a date, or one the database does not take, is only        *)
(* logged.                                                                 *)
Persisted(c, saved) ==
  IF saved THEN [history EXCEPT ![c][fetch.date] = [rate |-> fetch.left[c], fetched |-> today]]
           ELSE history

Accept(c, saved) ==
  /\ fetch # NoRate /\ fetch.step = "ACCEPT" /\ fetch.left[c] # NoRate
  /\ WithinDeviationBand(c, fetch.left[c]) /\ (saved => fetch.date # NoDate)
  /\ memory' = [memory EXCEPT !.good[c] = fetch.left[c]]
  /\ history' = Persisted(c, saved)
  /\ fetch' = [fetch EXCEPT !.left[c] = NoRate, !.accepted[c] =
       [rate |-> fetch.left[c], date |-> fetch.date]]
  /\ UNCHANGED <<today, page, asked, blind>>

Reject(c) ==
  /\ fetch # NoRate /\ fetch.step = "ACCEPT" /\ fetch.left[c] # NoRate
  /\ ~WithinDeviationBand(c, fetch.left[c])
  /\ fetch' = [fetch EXCEPT !.left[c] = NoRate]
  /\ UNCHANGED <<today, page, history, memory, asked, blind>>

(* All who wait go on at once: with what memory then holds, or, after a    *)
(* failure, as if it held nothing, with the last rate in force.            *)
GoesOn(call, cache) ==
  IF cache[call.coin] = NoRate THEN [call EXCEPT !.step = "LAST"]
  ELSE IF InForce(cache[call.coin].date) THEN Given(call.coin, cache[call.coin])
  ELSE [call EXCEPT !.step = "CURRENT"]

Resume(cache) ==
  asked' = [k \in Askers |-> IF Stands(k, "WAITING") THEN GoesOn(asked[k], cache) ELSE asked[k]]

FetchFails ==
  /\ fetch # NoRate
  /\ fetch.step = "PAGE" \/ (fetch.step = "ACCEPT"
                             /\ fetch.left = Forgotten /\ fetch.accepted = Forgotten)
  /\ Resume(Forgotten)
  /\ fetch' = NoRate
  /\ UNCHANGED <<today, page, history, memory, blind>>

FinishFetch ==
  LET cache == [c \in Coins |-> IF fetch.accepted[c] = NoRate THEN memory.cache[c]
                                ELSE fetch.accepted[c]]
  IN /\ fetch # NoRate /\ fetch.step = "ACCEPT"
     /\ fetch.left = Forgotten /\ fetch.accepted # Forgotten
     /\ memory' = [memory EXCEPT !.cache = cache,
          !.young = @ \cup {c \in Coins : fetch.accepted[c] # NoRate}]
     /\ Resume(cache)
     /\ fetch' = NoRate
     /\ UNCHANGED <<today, page, history, blind>>

-----------------------------------------------------------------------------
RatesStep ==
  \/ NextDay \/ Publish \/ Restart
  \/ \E c \in Coins, d \in Dates : PurgeRate(c, d)
  \/ \E k \in Askers, c \in Coins : AskCached(k, c) \/ AskFetching(k, c)
  \/ \E k \in Askers : Left(k) \/ ReadLast(k) \/ ReadCurrent(k) \/ HistoryUnavailable(k)
  \/ LoadBaselines \/ BaselinesUnavailable \/ ReadPage \/ FetchFails \/ FinishFetch
  \/ \E c \in Coins : Reject(c) \/ \E saved \in BOOLEAN : Accept(c, saved)

RatesSpec == RatesInit /\ [][RatesStep]_ratesVars

-----------------------------------------------------------------------------
(* "Never throws and never guesses": whatever the page shows, and after    *)
(* any outage, purge and restart, what a caller is given is the rate that  *)
(* was published for its date -- as long as every process could read a     *)
(* last rate of every currency when it started.                            *)
GuessesNothing ==
  ~blind => \A k \in Askers : Stands(k, "GIVEN") =>
    \E d \in Dates :
      /\ asked[k].entry.rate = Official[asked[k].coin][d]
      /\ asked[k].entry.date \in {d, NoDate}

(* "Does not price off a publication that is not in force yet": a rate     *)
(* with a date is given on that date or later.                             *)
OnlyInForce ==
  \A k \in Askers : Stands(k, "GIVEN") => asked[k].entry.date <= asked[k].on
=============================================================================
