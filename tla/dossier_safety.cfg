SPECIFICATION Spec
CONSTANTS
  p1 = p1  p2 = p2  p3 = p3  t1 = t1  t2 = t2  t3 = t3
  Payments = {p1, p2, p3}
  Tasks = {t1, t2, t3}
  Cost = 2
  Prices = {1, 2, 3}
  DailyCap = 4
  MaxDay = 2
  MaxRestarts = 1
SYMMETRY Symmetry
INVARIANTS
  TypeOK
  SpendCapped
  CostReported
  DossierOnce
PROPERTY WithinBudget
CHECK_DEADLOCK FALSE
