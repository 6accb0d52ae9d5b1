----------------------------- MODULE MCSessions -----------------------------
(* A phone with two requests at a time and two routes.  The last trouble   *)
(* of the bound meets one request and, of one pairing, three calls, or two *)
(* calls once there were two pairings: the states beyond are not explored  *)
(* further.                                                                *)
EXTENDS Sessions, TLC

CONSTANTS r1, r2

TwoRequests == {r1, r2}
Symmetry == Permutations(TwoRequests)
LastTroubleAlone ==
  Spare \/ ((\E r \in Requests : request[r] = Idle) /\ Len(calls) + Len(signIns) <= 4)
=============================================================================
