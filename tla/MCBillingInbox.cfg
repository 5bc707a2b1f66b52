SPECIFICATION Spec
CONSTANTS
  paid1 = paid1
  paid2 = paid2
  wrong1 = wrong1
  gone1 = gone1
  pack1 = pack1
  fail1 = fail1
  fail2 = fail2
  inv1 = inv1
  upd1 = upd1
  end1 = end1
  ref1 = ref1
  None = None
  Events = {paid1, paid2, wrong1, gone1, pack1, fail1, fail2, inv1, upd1, end1, ref1}
  Handlers = {h1, h2}
  Sessions = {"s1", "s2"}
  Kind <- MCKind
  Target <- MCTarget
  At <- MCAt
  Packs = {"s2"}
  Wrong = {wrong1}
  Unmapped = {pack1}
  Stories <- MCStories
  MaxAttempts = 2
  Retries = 0
CHECK_DEADLOCK FALSE
INVARIANTS TypeOK DunningHasCause
PROPERTIES ImplementsEventBook Decided
