SPECIFICATION Spec
CONSTANTS
  t1 = t1
  t2 = t2
  Threads = {t1, t2}
  MaxAge = 1
  Transit = 1
  Lag = 1
  MaxFilings = 1
  MaxFiled = 2
  MaxTime = 4
  MaxResults = 2
SYMMETRY Interchangeable
INVARIANTS
  TypeOK
  FreshAnswers
  WindowComplete
  ResultsReproducible
CHECK_DEADLOCK FALSE
