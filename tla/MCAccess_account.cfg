CONSTANTS
  Nothing = Nothing
  Requests = {r1, r2, r3}  MaxTokens = 3
  MaxFailures = 2  Window = 2  MaxStep = 2  MaxSecrets = 1  MaxSheets = 2
  usd = usd  eur = eur  Coins = {usd, eur}  Official <- MCOfficial  Outlier = 40
  MaxDeviationPct = 10  MaxAge = 0  Retention = 1  LastDay = 2  Askers = {k1}  NoRate = NoRate
SPECIFICATION GateSpec
SYMMETRY Symmetry
CONSTRAINT Sighted
CHECK_DEADLOCK FALSE
INVARIANTS CodeAcceptedOnce OneSuccessor RefusedDoNotCount GuessesNothing
