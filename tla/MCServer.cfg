SPECIFICATION ServerSpec
CONSTANTS
  p1 = p1
  s1 = s1
  Passes = {p1}
  Saves = {s1}
  LockMs = 7
  RenewMs = 2
  WaitMs = 4
  Tolerated = 2
  MaxTime = 9
  None = None
  Gone = Gone
  a = a
  b = b
  own = own
  old = old
  Consoles = {a, b}
  Foreign = {own, old}
  Named = {old}
  MaxMade = 2
  MaxTargets = 2
  MaxMishaps = 3
  adult = adult
  social = social
  doh = doh
  probe = probe
  Categories = {adult, social}
  Endpoints = {doh}
  Checks = {probe}
  Sweeps = {probe}
  NoEndpoint = NoEndpoint
  MaxChanges = 2
INVARIANTS Exclusive LostIsFinal ReleasedStaysReleased
INVARIANTS   OfItsResolver
PROPERTIES LeaseHonoured RemovedByConsent 
\* Saves and processes are bounded: all may come to rest.
CHECK_DEADLOCK FALSE
