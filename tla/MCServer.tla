------------------------------ MODULE MCServer -------------------------------
(* Three parts of the server that share no state, side by side: a         *)
(* behaviour is of one part, and the others stay in an initial state.     *)
(* The lease is three and a half renewal beats long, as in the code (25 s  *)
(* against 8 s), scaled to 7 against 2.                                    *)
EXTENDS ReconcileLock, Removals, UpstreamChecks

VARIABLE part

Parts == {"lock", "removals", "upstream"}

ServerInit ==
  /\ part \in Parts
  /\ Init /\ RemovalsInit /\ UpstreamInit
  /\ part # "lock" => row.owner = None /\ timely
  /\ part # "removals" => home = CHOOSE c \in Consoles : TRUE
  /\ part # "upstream" => url = [s \in Scopes |-> NoEndpoint] /\ enabled = {}

ServerNext ==
  \/ part = "lock" /\ Next /\ UNCHANGED <<removalVars, upstreamVars, part>>
  \/ part = "removals" /\ RemovalsNext /\ UNCHANGED <<vars, upstreamVars, part>>
  \/ part = "upstream" /\ UpstreamNext /\ UNCHANGED <<vars, removalVars, part>>

serverVars == <<vars, removalVars, upstreamVars, part>>

ServerSpec ==
  /\ ServerInit /\ [][ServerNext]_serverVars
  /\ \A p \in Sweeps : WF_upstreamVars(part = "upstream" /\ Sweep(p))
  /\ \A p \in Probers : WF_upstreamVars(part = "upstream" /\ ProbeStep(p))

==============================================================================
