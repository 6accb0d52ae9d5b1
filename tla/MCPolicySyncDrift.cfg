SPECIFICATION Spec
CONSTANTS
  always = always
  window = window
  quarantine = quarantine
  Keys = {quarantine}
  RuleKeys = {}
  Extends <- Unrelated
  Contents = {"one", "two"}
  LateLanding = FALSE
  MaxHousehold = 3
  MaxConsole = 0
  MaxFaults = 1
  NoRow = NoRow
  NoKey = NoKey
PROPERTY DriftMeansConsole
