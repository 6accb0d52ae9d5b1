SPECIFICATION PairingSpec
CONSTANTS
  Callers = {k1}
  MaxDevices = 4
  MaxInvites = 1
  MaxRequests = 1
  MaxRevocations = 1
INVARIANT NothingOutlives
\* Requests are bounded: all may come to rest.
CHECK_DEADLOCK FALSE
