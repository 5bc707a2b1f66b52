SPECIFICATION Spec
CONSTANTS
  GrantIds = {1, 2}
  CycleIds = {3}
  ReservationIds = {1, 2}
  AdjustIds = {1}
  GrantAmounts = {1}
  Validities = {0, 1}
  PlanValidity = 0
  Estimates = {2}
  Adjustments <- Gifts
  CycleInputs <- MCCycleInputs
  Ttl = 1
  MaxTime = 4
  MaxLag = 1
INVARIANTS
  TypeOK
  HoldsAreBacked
  LedgerReplays
  BalanceIsInBuckets
  HoldsCanClose
PROPERTIES
  TerminalStays
  BoundaryAppliedOnce
  BoundaryKeepsTheCap
  SoonestExpiryFirst
  LedgerIsAnAccount
CHECK_DEADLOCK FALSE
VIEW LedgerView
