SPECIFICATION FairSpec
CONSTANTS
  p1 = p1  p2 = p2  t1 = t1  t2 = t2  t3 = t3
  profile1 = profile1  python1 = python1
  Payments = {p1, p2}
  Requests = {profile1}
  Product <- MCProduct
  Tasks = {t1, t2}
  MaxAmount <- MCMaxAmount
  Quotes = {2}
  DailyCap = 4
  MaxDay = 2
  MaxCharges = 4
  MaxRestarts = 0
INVARIANT SpendOverDays
PROPERTY Answered
CHECK_DEADLOCK FALSE
