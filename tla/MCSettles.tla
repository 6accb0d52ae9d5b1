----------------------------- MODULE MCSettles ------------------------------
(* Two parts that must come to rest where the household wants them, and    *)
(* that share no state, side by side: the policies of a rule made          *)
(* always-on and scheduled again, and the tunnel for phones away from      *)
(* home.  A behaviour is of one part, and the other stays as it began.     *)
EXTENDS PolicySync, RemoteAccess

CONSTANTS window, always

VARIABLE part

Parts == {"policies", "remote"}

SettlesInit ==
  /\ part \in Parts
  /\ Init /\ RemoteInit
  /\ part # "remote" => db.routes = {"own"} /\ lease = "free"

SettlesNext ==
  \/ part = "policies" /\ Next /\ UNCHANGED <<remoteVars, part>>
  \/ part = "remote" /\ RemoteNext /\ UNCHANGED <<vars, part>>

settlesVars == <<vars, remoteVars, part>>

\* The fairness of each part; a step of a part is one of its own variables.
SettlesSpec ==
  /\ SettlesInit /\ [][SettlesNext]_settlesVars
  /\ WF_vars(part = "policies" /\ PassStep)
  /\ \A j \in Jobs : WF_remoteVars(part = "remote" /\ JobStep(j))
  /\ WF_remoteVars(part = "remote" /\ \E j \in Jobs : Fires(j))
  /\ WF_remoteVars(part = "remote" /\ \E j \in Jobs : Announces(j))
  /\ WF_remoteVars(part = "remote" /\ KeepsLease)
  /\ WF_remoteVars(part = "remote" /\ OtherStops)

Scheduled == {<<window, always>>}

\* Once people, the console and the faults leave it alone, the gateway comes
\* to enforce what the household wants and stays so.
PoliciesEnforced == <>[](part = "policies" => Converged)
=============================================================================
