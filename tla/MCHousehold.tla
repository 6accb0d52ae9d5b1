----------------------------- MODULE MCHousehold -----------------------------
(* What keeps a group offline, in two parts that share no state, side by   *)
(* side: a behaviour is of one, and the other stays in an initial state.   *)
(* The rules' windows are those a week of three days of three minutes has. *)
EXTENDS Lifts, Windows

VARIABLE part

Parts == {"lifts", "windows"}

HouseholdInit ==
  /\ part \in Parts
  /\ LiftsInit /\ WindowsInit
  /\ part # "lifts" => member = [d \in Devices |-> CHOOSE g \in Groups : TRUE]
  /\ part # "windows" => windows = <<>>

HouseholdNext ==
  \/ part = "lifts" /\ LiftsNext /\ UNCHANGED <<windowsVars, part>>
  \/ part = "windows" /\ WindowsNext /\ UNCHANGED <<liftVars, part>>

householdVars == <<liftVars, windowsVars, part>>

HouseholdSpec ==
  /\ HouseholdInit /\ [][HouseholdNext]_householdVars
  /\ WF_liftVars(part = "lifts" /\ (PassBegan \/ PassEnded))
  /\ \A r \in Requests : WF_liftVars(part = "lifts" /\ Answered(r))

DrawnWindows ==
  {Always} \cup ({Window(days, start, end) : days \in SUBSET Days \ {{}}, start \in Minutes, end \in Minutes}
                   \ {Window(days, minute, minute) : days \in SUBSET Days, minute \in Minutes})
==============================================================================
