SPECIFICATION PartsSpec
CONSTANTS
  window = window
  quarantine = quarantine
  Keys = {quarantine, window}
  RuleKeys = {window}
  Extends <- Unrelated
  Contents = {"one", "two"}
  LateLanding = TRUE
  MaxHousehold = 2
  MaxConsole = 0
  MaxFaults = 2
  NoRow = NoRow
  NoKey = NoKey
  k1 = k1
  k2 = k2
  Callers <- TwoCallers
  MaxDevices = 5
  MaxInvites = 2
  MaxRequests = 2
  MaxRevocations = 1
SYMMETRY Symmetry
INVARIANTS AdminUntouched Findable AppliedMeansEnforced
INVARIANTS OneJoinsAnInvite RevocationReaches
PROPERTY EnforcerKept
\* Invites and revocations are bounded: pairing may come to rest.
CHECK_DEADLOCK FALSE
