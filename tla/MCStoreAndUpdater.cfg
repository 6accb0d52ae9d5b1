SPECIFICATION BothSpec
CONSTANTS
  Items = {groups}
  groups = groups
  Loads = {l1, l2}
  l1 = l1
  l2 = l2
  MaxWrites = 2
  MaxOthers = 1
  MaxFailures = 1
  c1 = c1
  c2 = c2
  Chains = {c1, c2}
  MaxSlots = 1
  MaxTurns = 2
INVARIANTS TakenStays NothingMadeUp AskedOnce TimerFollowsSchedule
PROPERTIES NewestShown ComesToShowTruth FailsForItself SettledTruly
