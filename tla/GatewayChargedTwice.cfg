SPECIFICATION Spec
CONSTANTS
  e1 = e1
  e2 = e2
  e3 = e3
  k1 = k1
  k2 = k2
  HoldIds = {e1, e2, e3}
  Balances = {3}
  Keys = {k1, k2}
  Calls <- OneKey
  InitialBalance = 3
  Estimate = 2
  Charges = {1, 3}
  ChainLength = 2
  MaxAttempts = 2
  MaxConcurrent = 1
  Timeout = 1
  Grace = 1
  MaxTime = 4
  Faults = {"mark", "record"}
INVARIANT ChargedOncePerKey
CHECK_DEADLOCK FALSE
