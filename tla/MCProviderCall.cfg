SPECIFICATION Spec
CONSTANTS
  MaxAttempts = 3
  HistoricalMaxAttempts = 1
INVARIANTS
  ClientIsClosed
  CancellationIsNotSwallowed
  QuotaAndRejectionKeepApart
PROPERTIES
  NothingSentInVain
CHECK_DEADLOCK FALSE
