SPECIFICATION Spec
CONSTANTS
  sdn = sdn  consolidated = consolidated  delisted = delisted
  canonical = canonical  mixedCase = mixedCase  r1 = r1  r2 = r2
  Lists = {sdn}
  Subjects = {delisted}
  Listed <- MCListed
  Questions = {canonical}
  Subject <- MCSubject
  Names <- MCNames
  Preflights = {canonical}
  Threads = {r1, r2}
  Refreshers = {r1}
  Workers = {r1, r2}
  MaxVersion = 2
  MaxResults = 2
  MaxFailures = 1
INVARIANT NoFalseClearance
CHECK_DEADLOCK FALSE
