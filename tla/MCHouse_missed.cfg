CONSTANTS
  Requests = {k1, k2, k3}  Hashes = {h1, h2}  None = None
  r = r  a = a  b = b  l1 = l1   x1 = x1  x2 = x2  u1 = u1  u2 = u2
  Restaurants = {r}  Addresses = {a, b}  Leads = {l1}  LeadOf <- MCLeadOf
  Invitations = {x1, x2}  Updates = {u1, u2}  Roles = {"OWNER", "MANAGER"}  Nobody = Nobody
  c1 = c1  c2 = c2  m1 = m1  m2 = m2  mercantil = mercantil  statement = statement
  Claims = {c1, c2}  Movements = {m1, m2}  Connections = {mercantil, statement}  KindOf <- MCKindOf  Managed = {mercantil}
  Reconcilers = {x1, x2}
  Source <- MCSource  Declares <- MCDeclares  Reports <- MCReports  Share <- MCShare
  BillDue = 3  MinReferenceDigits = 2  PhoneDigits = 1
  MaxMovementsPerCall = 1  NoMovement = NoMovement  Unknown = Unknown
  p1 = p1  p2 = p2  t1 = t1  Payments = {p1, p2}  Bills = {t1}  BillOf <- MCBillOf
  Waiters = {w1, w2}  Managers = {g1}  Patches = {x1, x2}  Limit = 1  LastMoment = 2  NoOne = NoOne
SPECIFICATION HouseSpec
SYMMETRY Symmetry
CHECK_DEADLOCK FALSE
INVARIANT EveryPaymentIsShown
