-------------------------- MODULE MCPolicyAndPairing ------------------------
(* The policies on the console and the devices of the household, which     *)
(* share no state, side by side: a behaviour is of one part, and the other *)
(* stays in an initial state.                                              *)
EXTENDS PolicySync, Pairing, TLC

CONSTANTS window, k1, k2

VARIABLE part

Parts == {"policies", "pairing"}

PartsInit ==
  /\ part \in Parts
  /\ Init /\ PairingInit
  /\ part # "pairing" => device[2].is = "active" /\ device[3].parent = 1

PartsNext ==
  \/ part = "policies" /\ Next /\ UNCHANGED <<pairingVars, part>>
  \/ part = "pairing" /\ PairingNext /\ UNCHANGED <<vars, part>>

partsVars == <<vars, pairingVars, part>>

PartsSpec == PartsInit /\ [][PartsNext]_partsVars

Unrelated == {}
TwoCallers == {k1, k2}
Symmetry   == Permutations(TwoCallers)
=============================================================================
