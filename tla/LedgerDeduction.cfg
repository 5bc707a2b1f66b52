SPECIFICATION Spec
CONSTANTS
  GrantIds = {1, 2}
  CycleIds = {}
  ReservationIds = {1, 2}
  AdjustIds = {1}
  GrantAmounts = {1}
  Validities = {0, 1}
  PlanValidity = 0
  Estimates = {2}
  Adjustments <- Deductions
  CycleInputs <- MCCycleInputs
  Ttl = 1
  MaxTime = 4
  MaxLag = 0
INVARIANTS
  HoldsCanClose
CHECK_DEADLOCK FALSE
