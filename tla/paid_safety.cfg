SPECIFICATION Spec
CONSTANTS
  snapshot = snapshot  python = python  dossier = dossier
  c1 = c1  c2 = c2  p1 = p1  p2 = p2
  Calls = {c1, c2}
  Payments = {p1, p2}
  Requests = {snapshot, python, dossier}
  Kind <- MCKind
  Price <- MCPrice
  DailyCap = 3
  MaxDay = 2
  MaxVersion = 2
  MaxRestarts = 1
SYMMETRY Symmetry
INVARIANTS
  TypeOK
  ReservationsBalanced
  SameDayCap
  LedgerIsEarned
PROPERTY ImplementsService
CHECK_DEADLOCK FALSE
