SPECIFICATION SettlesSpec
CONSTANTS
  window = window
  always = always
  Keys = {window, always}
  RuleKeys = {window, always}
  Extends <- Scheduled
  Contents = {"one", "two"}
  LateLanding = FALSE
  MaxHousehold = 2
  MaxConsole = 1
  MaxFaults = 1
  NoRow = NoRow
  NoKey = NoKey
  Jobs = {1, 2, 3}
  Tunnels = {1, 2, 3, 4, 5}
  Nothing = Nothing
  Overlapping = FALSE
  MaxChoices = 2
  MaxTroubles = 2
INVARIANT RunningTruly
PROPERTIES DriftMeansConsoleAlive PoliciesEnforced 
