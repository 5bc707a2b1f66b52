SPECIFICATION PublishSpec
CONSTANTS
  c1 = c1
  c2 = c2
  Items = {i1}
  Requests = {"submit", "approve", "schedule", "unschedule", "tool"}
  Edited = {i1}
  Users = {u1}
  Words = {w1, w2}
  Days = {d1}
  MaxCycles = 1
  MaxSlotsPerDay = 1
  Limit = 1
  MaxSlots = 1
  MaxMonth = 0
  Conns = {c1, c2}
  Connected = {c1}
  Lookup = {c1}
  Answers <- MCAnswers
  Sweepers = {s1, s2}
  Clicks = {q1, q2}
  Probes = {p1}
  Handled = {c2}
  MaxAttempts = 2
  MaxDeliveries = 2
  MaxPosts <- MCMaxPosts
  MaxIncidents = 2
SYMMETRY Symmetric
CHECK_DEADLOCK FALSE
INVARIANT OnlyAnAnswerResends
