SPECIFICATION Spec
CONSTANTS
  p1 = p1  p2 = p2  t1 = t1  t2 = t2  t3 = t3
  profile1 = profile1  python1 = python1
  Payments = {p1, p2}
  Requests = {profile1, python1}
  Product <- MCProduct
  Tasks = {t1, t2}
  MaxAmount <- MCMaxAmount
  Quotes = {1, 3}
  DailyCap = 6
  MaxDay = 1
  MaxCharges = 0
  MaxRestarts = 1
SYMMETRY Symmetry
INVARIANTS
  TypeOK
  DailyCapHeld
  SpendCovered
  PaymentSpendBounded
  CostAgrees
  ReplayFaithful
PROPERTIES
  ClaimedOnce
  WithinBudget
CHECK_DEADLOCK FALSE
