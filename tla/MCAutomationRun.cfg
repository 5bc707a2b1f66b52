SPECIFICATION AutomationSpec
CONSTANTS
  watch = watch
  hourly = hourly
  propose = propose
  notify = notify
  Rules <- RuleSet
  Threshold = {watch}
  Timed = {hourly}
  External = {propose}
  Refs = {d}
  Workers = {w1, w2}
  Sweepers = {s1, s2}
  People = {p1, p2}
  MaxRules = 2
  Stories <- MCStories
  MaxPerDay = 1
  MaxDeliveries = 2
  Lead = 0
  MaxCycle = 1
  MaxHour = 1
  MaxTokens = 2
  MaxFaults = 2
CHECK_DEADLOCK FALSE
INVARIANTS TypeOK OutcomeIsTrue
PROPERTIES CrossingIsNews EverythingEnds
