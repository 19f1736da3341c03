CONSTANTS
  Charges = {c1, c2}
  Payers = {x, y}
  Resolvers = {r1, r2}
  MaxVes = 3
  DueVes = 2
  Tips = {1}
  Answers = {"REFERENCE", "ID_ONLY", "NOTHING"}
  None = None
SPECIFICATION Spec
SYMMETRY Symmetry
CHECK_DEADLOCK FALSE
INVARIANTS
  CreditsBackedByDebits SettledWithOwnMoney RefusalMeansNoDebit LoneDebitKept
