CONSTANTS
  c1 = c1  c2 = c2  x1 = x1  x2 = x2  y1 = y1  y2 = y2
  Charges = {c1, c2}  Notices = {n1}  Operators = {x1, x2}  Passes = {y1, y2}
  Tiers = {"TRIAL", "STARTER"}  Statuses = {"ACTIVE"}  Agreed = {FALSE}  Starts = {0}
  Length <- MCLength  Listed = {"STARTER"}  Amount = 2  DueDays = 0  Week = 2
  CatchUp = 1  LastDay = 1  MaxAtOnce = 2  MaxApplied = 2  MaxUnheard = 1  None = None
  People = {q1, q2}  Consoles = {o1, o2}  LastStep = 2  LastVersion = 2  NoOperator = NoOperator
  Ladder = {"TRIAL", "PRO", "ENTERPRISE"}  Invoicing = {"ENTERPRISE"}  Trial = "TRIAL"
  Changes = {x1, x2}  Issues = {i1}  MaxEntries = 3
SPECIFICATION ConsoleSpec
SYMMETRY Symmetry
CHECK_DEADLOCK FALSE
INVARIANTS NoticePaidOnce PaidIsExplained OperatorCodeOnce TrailIsTheStory
PROPERTIES RemindedOnce BootstrapIsFirst
