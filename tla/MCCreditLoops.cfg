SPECIFICATION LoopsSpec
CONSTANTS
  Ids = {1, 2, 3}
  Expiries <- MCExpiries
  GrantDates = {1, 2}
  Amounts = {0, 1, 3}
  Rows = {1, 2, 3, 4, 5}
  Unreleasable = {1, 4}
  Deadlines = {0, 1}
  BatchSize = 2
  Limit = 2
  MaxAttempts = 3
  MaxTime = 2
INVARIANTS
  LoopComputesAllocation
  NarrowingIsExact
  ReportIsTrue
PROPERTIES
  NobodyIsStarved
CHECK_DEADLOCK FALSE
