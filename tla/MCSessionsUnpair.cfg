SPECIFICATION Spec
CONSTANTS
  r1 = r1
  r2 = r2
  Requests = {r1}
  Routes = 2
  Timeout = 2
  Grace = 4
  MaxTime = 4
  MaxPairings = 1
  MaxExpiries = 1
  MaxTroubles = 1
INVARIANT UnpairEnds
\* Time, faults and pairings are bounded: the phone may come to rest.
CHECK_DEADLOCK FALSE
