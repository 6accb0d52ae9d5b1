---------------------------- MODULE EditPromise ----------------------------
(***************************************************************************)
(* What FamilyFi promises of the edits a person saves: each announced edit *)
(* has one change row, which a pass answers once, together with the other  *)
(* rows it covers, and whose outcome nothing changes afterwards.  On a     *)
(* household with a gateway every announced edit is answered in the end.   *)
(***************************************************************************)
CONSTANTS Edits

VARIABLES
  answer,     \* what the household sees of each edit
  connected   \* the household has a gateway to enforce on

avars == <<answer, connected>>

Outcomes == {"applied", "partial", "failed"}

TypeOK ==
  /\ answer \in [Edits -> {"draft", "saved", "pending"} \cup Outcomes]
  /\ connected \in BOOLEAN

Init ==
  /\ answer = [e \in Edits |-> "draft"]
  /\ connected \in BOOLEAN

\* Saving the gateway connection is an edit that connects the household.
Save(e) ==
  /\ answer[e] = "draft"
  /\ answer' = [answer EXCEPT ![e] = "saved"]
  /\ connected' \in {connected, TRUE}

Announce(e) ==
  /\ answer[e] = "saved"
  /\ answer' = [answer EXCEPT ![e] = "pending"]
  /\ UNCHANGED connected

Answer ==
  \E o \in Outcomes, E \in SUBSET {e \in Edits : answer[e] = "pending"} :
    /\ connected
    /\ answer' = [e \in Edits |-> IF e \in E THEN o ELSE answer[e]]
    /\ UNCHANGED connected

Next ==
  \/ \E e \in Edits : Save(e) \/ Announce(e)
  \/ Answer

Answered ==
  \A e \in Edits : (answer[e] = "pending" /\ connected) ~> answer[e] \in Outcomes

Spec == Init /\ [][Next]_avars /\ Answered
=============================================================================
