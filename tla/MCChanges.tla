----------------------------- MODULE MCChanges -----------------------------
(* Two instances in one run, told apart from the start: one process with   *)
(* a rule's edit and the one that connects the gateway, and one fault; or  *)
(* two processes with an owner's edit, and two faults.                     *)
EXTENDS Changes

CONSTANT Alone    \* the one process of the first instance

VARIABLE single

Serving(s)  == single => s = Alone
InUse(e)    == single <=> e \in RuleEdits \cup Connecting

ChangesInit == Init /\ single \in BOOLEAN /\ (configured \/ single)

ChangesNext ==
  /\ UNCHANGED single
  /\ \/ \E s \in Servers :
          /\ Serving(s)
          /\ \/ PassStep(s) \/ Boot(s) \/ Timer(s) \/ NoticeLost(s)
             \/ (PassThrows(s) \/ Crash(s)) /\ (single => faults = 0)
     \/ \E e \in Edits :
          InUse(e) /\ (SaveEdit(e) \/ BumpRevision(e) \/ CreateChange(e) \/ AskForPass(e))
     \/ Lapse /\ (single => holder = Stale \/ faults = 0)

\* The fairness of Changes, of the processes in use.
ChangesFairness ==
  /\ \A s \in Servers :
       /\ WF_vars(Serving(s) /\ PassStep(s)) /\ WF_vars(Serving(s) /\ Boot(s))
       /\ WF_vars(Serving(s) /\ Timer(s))
  /\ WF_vars(holder = Stale /\ Lapse)

ChangesSpec == ChangesInit /\ [][ChangesNext]_<<vars, single>> /\ ChangesFairness
=============================================================================
