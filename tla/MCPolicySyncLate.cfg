SPECIFICATION Spec
CONSTANTS
  window = window
  always = always
  Keys = {window, always}
  RuleKeys = {window, always}
  Extends <- Scheduled
  Contents = {"one"}
  LateLanding = TRUE
  MaxHousehold = 2
  MaxConsole = 0
  MaxFaults = 2
  NoRow = NoRow
  NoKey = NoKey
INVARIANT Findable
