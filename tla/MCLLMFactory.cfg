SPECIFICATION FairSpec
CONSTANTS
  r1 = r1
  r2 = r2
  collection = collection
  drafting = drafting
  Requests = {r1, r2}
  Callers = {collection, drafting}
  CollectionCallers = {collection}
  CooldownSeconds <- MCCooldown
  TimeoutSeconds <- MCTimeout
  Cap = 3
INVARIANTS
  PendingCallsPredateCooldown
  CooldownHasCause
PROPERTIES
  DisabledForGood
  TimedRequestsEnd
