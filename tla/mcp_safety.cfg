SPECIFICATION FairSpec
CONSTANTS
  c1 = c1  c2 = c2
  Calls = {c1, c2}
  MaxVersion = 3
  MaxFailures = 2
INVARIANTS
  TypeOK
  AnswersAgree
PROPERTY Recovered
CHECK_DEADLOCK FALSE
