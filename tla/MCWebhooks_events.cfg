CONSTANTS
  p1 = p1  p2 = p2  ok = ok  ko = ko  odd = odd  raw = raw  c1 = c1  c2 = c2  r1 = r1
  Payments = {p1, p2}  Events = {ok, ko, odd, raw}  Numbered = {ok, ko, odd}  Attempts = {a1, a2}
  About <- MCAbout  Says <- MCSays  Own = {p1}  Capacity = 1  NoEvent = NoEvent
  Docs = {1, 2}  Senders = {s1, s2}  MaxAttempts = 2  Limit = 1  NoMail = NoMail
  Charges = {c1, c2}  Payers = {x}  Resolvers = {r1}  MaxVes = 1  DueVes = 1  Tips = {0}
  Answers = {"REFERENCE", "ID_ONLY", "NOTHING"}  None = None
  Logins = {q1, q2}  MaxFailures = 2  Window = 2  MaxTokens = 1
SPECIFICATION OutsideSpec
CHECK_DEADLOCK FALSE
INVARIANT MoneyWithItsEvent
PROPERTIES EventsArrive MailSettles DoubtEnds LockoutEnds
