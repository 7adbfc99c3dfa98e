SPECIFICATION FairSpec
CONSTANTS
  Timeout = 5
  PollInterval = 2
  MaxRows = 4
  Cap = 9
INVARIANTS
  RowsAreTheResult
  PollsAreBounded
PROPERTIES
  ExecuteEnds
CHECK_DEADLOCK FALSE
