CONSTANTS
  b1 = b1  b2 = b2  r1 = r1  r2 = r2  ves = ves  usd = usd
  Tables = {t1}  Bills = {b1, b2}  Products = {p1}  Currencies = {ves, usd}
  Orders = {o1}  Staff = {u1}  Requests = {r1, r2}  Totals = {FALSE, TRUE}  MaxLines = 1
  None = None  Sessions = {s1}  Calls = {k1}  Idle = 1  Cap = 2  LastTick = 2  MaxAtOnce = 2
  d1 = d1  d2 = d2  e1 = e1  e2 = e2  Sections = {e1, e2}  Dishes = {d1, d2}  Lists <- MCLists
  Imports = {n1}  Pictures = {"PDF", "LOGO"}  LastPlace = 1  MaxPictures = 1  Loose = Loose  NoRow = NoRow
  Guests = {g1, g2}  Visits = {v1, v2, v3}  NoVisit = NoVisit
SPECIFICATION MealSpec
SYMMETRY Symmetry
CHECK_DEADLOCK FALSE
PROPERTIES EndedBillsStand CapDecides ImportIsWhole
