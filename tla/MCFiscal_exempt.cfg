CONSTANTS
  p1 = p1
  p2 = p2
  Payments = {p1, p2}
  Requests = {r1, r2, r3}
  Operators = {o1, o2}
  Buckets = {1, 2}
  Due <- MCDue
  Amount <- MCAmount
  Claim <- MCClaim
  SeriesForms <- MCSeriesForms
  None = None
  People = {1, 2}  Carts <- MCCarts  Vats <- MCVats  GeneralBps = 1600  ServiceBps = {1000}
  FxRates = {100, 250}  RateScale = 100  Some = {5, 17}  Nothing = Nothing  Parts = 12
SPECIFICATION FiscalSpec
SYMMETRY Symmetry
CHECK_DEADLOCK FALSE
INVARIANT ExemptDeclaresNoVat
