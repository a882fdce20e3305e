SPECIFICATION FairWalkSpec
CONSTANTS
  alice = alice
  Clients = {alice}
  Accessions = {1, 2, 3, 4, 5, 6}
  Days = {1, 2, 3}
  Day <- MCDay
  Issuers <- MCIssuers
  Reading <- MCReading
  Limits = {1, 2, 3}
  ScanLimit = 3
INVARIANT NothingSkipped
PROPERTY WalksEnd
CHECK_DEADLOCK FALSE
