SPECIFICATION Spec
CONSTANTS
  r1 = r1
  r2 = r2
  Requests <- TwoRequests
  Routes = 2
  Timeout = 2
  Grace = 4
  MaxTime = 4
  MaxPairings = 2
  MaxExpiries = 1
  MaxTroubles = 3
SYMMETRY Symmetry
CONSTRAINT LastTroubleAlone
INVARIANTS TypeOK HonouredTwice UnpairEndsAlone
PROPERTIES EndedIsFinal PairingKept
\* Time, faults and pairings are bounded: the phone may come to rest.
CHECK_DEADLOCK FALSE
