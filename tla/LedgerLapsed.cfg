SPECIFICATION FairSpec
CONSTANTS
  GrantIds = {1}
  CycleIds = {}
  ReservationIds = {1}
  AdjustIds = {}
  GrantAmounts = {2}
  Validities = {0, 1}
  PlanValidity = 0
  Estimates = {1}
  Adjustments <- Gifts
  CycleInputs <- MCCycleInputs
  Ttl = 3
  MaxTime = 5
  MaxLag = 0
PROPERTIES
  LapsedLeaves
CHECK_DEADLOCK FALSE
