SPECIFICATION PlanningSpec
CONSTANTS
  Items = {i1, i2}
  Requests = {"submit", "withdraw", "approve", "request_changes", "reject", "edit", "DRAFT", "ARCHIVED", "schedule", "reschedule", "unschedule", "policy", "tool", "undo", "purge"}
  Edited = {i1}
  Users = {u1, u2}
  Words = {w1}
  Days = {d1}
  MaxCycles = 1
  MaxSlotsPerDay = 2
  Limit = 1
  MaxSlots = 2
  MaxMonth = 1
SYMMETRY Symmetric
CHECK_DEADLOCK FALSE
INVARIANTS TypeOK ReviewIsOpen ScheduledIsPlanned CounterCoversEvents MonthIsMetered
PROPERTIES VerdictsStand
