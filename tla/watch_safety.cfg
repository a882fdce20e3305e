SPECIFICATION FairSpec
CONSTANTS
  bought = bought  ordered = ordered  old = old  new = new
  Customers = {bought}
  Jobs = {ordered}
  Webhooks = {bought}
  Changing = {bought}
  Contents = {old, new}
  Limit = 1
  JobLimit = 1
  MAX_ATTEMPTS = 2
  Addresses = 2
  MaxEvents = 2
  MaxFailures = 1
INVARIANTS
  TypeOK
  EventsAreHistory
  InboxFaithful
  JobsDelivered
PROPERTIES
  NeverRevived
  JobsSettled
  DueIsChecked
CHECK_DEADLOCK FALSE
