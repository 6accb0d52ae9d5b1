------------------------------ MODULE Changes ------------------------------
(***************************************************************************)
(* How an edit reaches a reconcile pass and gets its outcome: the route    *)
(* that saves it and announces it (src/src/server/changes.ts), the queue   *)
(* each server process pumps passes from, and what a pass reads and        *)
(* settles (src/src/server/reconciliation.ts).                             *)
(*                                                                         *)
(* The lock is its token alone: a lease either is held or has run out.     *)
(* ReconcileLock models the row, its clock and its renewals.  What a pass  *)
(* writes to the gateway is left to PolicySync: here a pass reads the      *)
(* edits in three places, the household's row with the revision, then the  *)
(* groups and devices, and the rules later, and ends with an outcome.      *)
(***************************************************************************)
EXTENDS Naturals

CONSTANTS
  Servers,      \* server processes, each with a queue of its own
  Edits,        \* edits people save
  RuleEdits,    \* the edits of rules, which a pass reads after the others
  Connecting,   \* the edits that save the gateway connection, which is on the
                \* household's own row, as its other settings are
  Nobody,       \* no process holds the lock
  Stale,        \* a process that died holds it still
  MaxFaults     \* bound: processes that die, passes the database fails
                \* outright and leases that run out under a living pass

ASSUME ChangesAssumption ==
  /\ RuleEdits \subseteq Edits /\ Connecting \subseteq Edits \ RuleEdits
  /\ Nobody \notin Servers /\ Stale \notin Servers /\ Nobody # Stale
  /\ MaxFaults \in Nat

VARIABLES
  pc,         \* how far the request that saves each edit has come
  on,         \* the process that serves that request
  rev,        \* the revision each edit was announced with
  status,     \* the change row of each edit
  revision,   \* the household's revision
  configured, \* the household has a gateway
  up, queued, \* each process, and its queue's flag
  pump,       \* where each process's pump is
  seen,       \* the revision its pass read
  plan,       \* the edits its pass read
  lost,       \* its pass knows that the lock is gone
  holder,     \* the lock
  faults,     \* faults so far
  lapsed      \* a lease ran out under a living pass

evars == <<pc, on, rev>>
budget == <<faults, lapsed>>
vars == <<pc, on, rev, status, revision, configured, up, queued, pump, seen,
          plan, lost, holder, faults, lapsed>>

Outcomes == {"applied", "partial", "failed"}
InPass   == {"opened", "owners", "rules", "applying", "settling", "failing", "ending"}

TypeOK ==
  /\ pc \in [Edits -> {"draft", "saved", "bumped", "created", "done", "dropped"}]
  /\ on \in [Edits -> Servers \cup {Nobody}]
  /\ rev \in [Edits -> Nat]
  /\ status \in [Edits -> {"none", "pending"} \cup Outcomes]
  /\ revision \in Nat
  /\ configured \in BOOLEAN
  /\ up \in [Servers -> BOOLEAN]
  /\ queued \in [Servers -> BOOLEAN]
  /\ pump \in [Servers -> InPass \cup {"idle", "starting", "sleeping"}]
  /\ seen \in [Servers -> Nat]
  /\ plan \in [Servers -> SUBSET Edits]
  /\ lost \in [Servers -> BOOLEAN]
  /\ holder \in Servers \cup {Nobody, Stale}
  /\ faults \in 0..MaxFaults /\ lapsed \in BOOLEAN

Init ==
  /\ pc = [e \in Edits |-> "draft"]
  /\ on = [e \in Edits |-> Nobody]
  /\ rev = [e \in Edits |-> 0]
  /\ status = [e \in Edits |-> "none"]
  /\ revision = 0
  /\ configured \in BOOLEAN
  /\ configured \/ Connecting # {}
  /\ up = [s \in Servers |-> FALSE]
  /\ queued = [s \in Servers |-> FALSE]
  /\ pump = [s \in Servers |-> "idle"]
  /\ seen = [s \in Servers |-> 0]
  /\ plan = [s \in Servers |-> {}]
  /\ lost = [s \in Servers |-> FALSE]
  /\ holder = Nobody
  /\ faults = 0 /\ lapsed = FALSE

----------------------------------------------------------------------------
(* The queue                                                               *)

\* requestReconcile: an idle pump starts at once and takes the flag down.
Request(s) ==
  IF pump[s] = "idle"
    THEN pump' = [pump EXCEPT ![s] = "starting"] /\ UNCHANGED queued
    ELSE queued' = [queued EXCEPT ![s] = TRUE] /\ UNCHANGED pump

\* startReconciliation: a process asks for a pass as it starts.
Boot(s) ==
  /\ ~up[s]
  /\ up' = [up EXCEPT ![s] = TRUE]
  /\ Request(s)
  /\ UNCHANGED <<evars, status, revision, configured, seen, plan, lost, holder, budget>>

\* The interval asks for one more.
Timer(s) ==
  /\ up[s]
  /\ ~queued[s]
  /\ Request(s)
  /\ UNCHANGED <<evars, status, revision, configured, up, seen, plan, lost, holder, budget>>

\* A pass that did not run, or threw, is asked for again in a second.
Again(s) ==
  /\ queued' = [queued EXCEPT ![s] = TRUE]
  /\ pump' = [pump EXCEPT ![s] = "sleeping"]

Wake(s) ==
  /\ pump[s] = "sleeping"
  /\ pump' = [pump EXCEPT ![s] = "starting"]
  /\ queued' = [queued EXCEPT ![s] = FALSE]
  /\ UNCHANGED <<evars, status, revision, configured, up, seen, plan, lost, holder, budget>>

----------------------------------------------------------------------------
(* A pass                                                                  *)

AcquireLock(s) ==
  /\ pump[s] = "starting"
  /\ holder = Nobody
  /\ holder' = s
  /\ pump' = [pump EXCEPT ![s] = "opened"]
  /\ UNCHANGED <<evars, status, revision, configured, up, queued, seen, plan, lost, budget>>

LockRefused(s) ==
  /\ pump[s] = "starting"
  /\ holder # Nobody
  /\ Again(s)
  /\ UNCHANGED <<evars, status, revision, configured, up, seen, plan, lost, holder, budget>>

Saved == {e \in Edits : pc[e] # "draft"}

\* One read of the household's row gives its settings and the revision.  A
\* household with no gateway has nothing to sync: the pass ends as run.
ReadRevision(s) ==
  /\ pump[s] = "opened"
  /\ IF configured
       THEN /\ pump' = [pump EXCEPT ![s] = "owners"]
            /\ seen' = [seen EXCEPT ![s] = revision]
            /\ plan' = [plan EXCEPT ![s] = Saved \cap Connecting]
       ELSE /\ pump' = [pump EXCEPT ![s] = "ending"]
            /\ UNCHANGED <<seen, plan>>
  /\ UNCHANGED <<evars, status, revision, configured, up, queued, lost, holder, budget>>

\* The groups and devices, read once the gateway has answered.
ReadOwners(s) ==
  /\ pump[s] = "owners"
  /\ plan' = [plan EXCEPT ![s] = @ \cup (Saved \ (RuleEdits \cup Connecting))]
  /\ pump' = [pump EXCEPT ![s] = "rules"]
  /\ UNCHANGED <<evars, status, revision, configured, up, queued, seen, lost, holder, budget>>

\* The rules, once the quarantine's policies are written; with the revision
\* read here instead.
ReadRulesRevision(s) ==
  /\ pump[s] = "rules"
  /\ plan' = [plan EXCEPT ![s] = @ \cup (Saved \cap RuleEdits)]
  /\ seen' = [seen EXCEPT ![s] = revision]
  /\ pump' = [pump EXCEPT ![s] = "applying"]
  /\ UNCHANGED <<evars, status, revision, configured, up, queued, lost, holder, budget>>

\* The rules, once the quarantine's policies are written.
ReadRules(s) ==
  /\ pump[s] = "rules"
  /\ plan' = [plan EXCEPT ![s] = @ \cup (Saved \cap RuleEdits)]
  /\ pump' = [pump EXCEPT ![s] = "applying"]
  /\ UNCHANGED <<evars, status, revision, configured, up, queued, seen, lost, holder, budget>>

\* The run row is written while the lock is not known lost.
FinishRun(s) ==
  /\ pump[s] = "applying"
  /\ ~lost[s]
  /\ pump' = [pump EXCEPT ![s] = "settling"]
  /\ UNCHANGED <<evars, status, revision, configured, up, queued, seen, plan, lost, holder, budget>>

\* The gateway or the database fails a step, or stillHeld throws.
FailRun(s) ==
  /\ pump[s] \in {"owners", "rules", "applying", "settling"}
  /\ pump' = [pump EXCEPT ![s] = "failing"]
  /\ UNCHANGED <<evars, status, revision, configured, up, queued, seen, plan, lost, holder, budget>>

\* The settling query without its filter on pending changes.
SettleAgain(s, outcome) ==
  status' = [e \in Edits |->
    IF status[e] # "none" /\ rev[e] <= seen[s] THEN outcome ELSE status[e]]

SettleAll(s, outcome) ==
  status' = [e \in Edits |->
    IF status[e] = "pending" /\ rev[e] <= seen[s] THEN outcome ELSE status[e]]

Settle(s) ==
  /\ pump[s] = "settling"
  /\ \E outcome \in {"applied", "partial"} : SettleAll(s, outcome)
  /\ pump' = [pump EXCEPT ![s] = "ending"]
  /\ UNCHANGED <<evars, revision, configured, up, queued, seen, plan, lost, holder, budget>>

\* A failed pass answers its changes too, except when the lock was lost:
\* the pass that took over settles them.
SettleFailed(s) ==
  /\ pump[s] = "failing"
  /\ IF lost[s] THEN UNCHANGED status ELSE SettleAll(s, "failed")
  /\ pump' = [pump EXCEPT ![s] = "ending"]
  /\ UNCHANGED <<evars, revision, configured, up, queued, seen, plan, lost, holder, budget>>

ReleaseLock(s) ==
  IF holder = s THEN holder' = Nobody ELSE UNCHANGED holder

\* What a pass kept in memory goes with it.
Forget(s) ==
  /\ seen' = [seen EXCEPT ![s] = 0]
  /\ plan' = [plan EXCEPT ![s] = {}]
  /\ lost' = [lost EXCEPT ![s] = FALSE]

\* The pump as if it took the flag down after a pass instead of before it.
EndPassForgetting(s) ==
  /\ pump[s] = "ending"
  /\ ReleaseLock(s)
  /\ Forget(s)
  /\ pump' = [pump EXCEPT ![s] = "idle"]
  /\ queued' = [queued EXCEPT ![s] = FALSE]
  /\ UNCHANGED <<evars, status, revision, configured, up, budget>>

\* The pump runs another pass when one was asked for meanwhile.
EndPass(s) ==
  /\ pump[s] = "ending"
  /\ ReleaseLock(s)
  /\ Forget(s)
  /\ pump' = [pump EXCEPT ![s] = IF queued[s] THEN "starting" ELSE "idle"]
  /\ queued' = [queued EXCEPT ![s] = FALSE]
  /\ UNCHANGED <<evars, status, revision, configured, up, budget>>

\* The database fails the pass where nothing catches it, or the release.
PassThrows(s) ==
  /\ faults < MaxFaults /\ faults' = faults + 1
  /\ pump[s] \in InPass \cup {"starting"}
  /\ \/ ReleaseLock(s)
     \/ holder = s /\ holder' = Stale
  /\ Forget(s)
  /\ Again(s)
  /\ UNCHANGED <<evars, status, revision, configured, up, lapsed>>

----------------------------------------------------------------------------
(* The lock's lease                                                        *)

\* The lease of a dead process, or of a pass too slow to renew it, runs out.
Lapse ==
  /\ holder # Nobody
  /\ \/ holder = Stale /\ UNCHANGED budget
     \/ /\ holder # Stale
        /\ faults < MaxFaults /\ faults' = faults + 1
        /\ lapsed' = TRUE
  /\ holder' = Nobody
  /\ UNCHANGED <<evars, status, revision, configured, up, queued, pump, seen, plan, lost>>

\* A renewal finds the lock gone.
NoticeLost(s) ==
  /\ pump[s] \in InPass
  /\ holder # s
  /\ ~lost[s]
  /\ lost' = [lost EXCEPT ![s] = TRUE]
  /\ UNCHANGED <<evars, status, revision, configured, up, queued, pump, seen, plan, holder, budget>>

\* A process dies, and with it the requests it was serving.
Crash(s) ==
  /\ up[s]
  /\ faults < MaxFaults /\ faults' = faults + 1
  /\ up' = [up EXCEPT ![s] = FALSE]
  /\ queued' = [queued EXCEPT ![s] = FALSE]
  /\ pump' = [pump EXCEPT ![s] = "idle"]
  /\ Forget(s)
  /\ holder' = IF holder = s THEN Stale ELSE holder
  /\ pc' = [e \in Edits |->
       IF on[e] = s /\ pc[e] \notin {"draft", "done"} THEN "dropped" ELSE pc[e]]
  /\ on' = [e \in Edits |-> IF on[e] = s THEN Nobody ELSE on[e]]
  /\ UNCHANGED <<rev, status, revision, configured, lapsed>>

----------------------------------------------------------------------------
(* A request that saves an edit, then announces it with enqueueChange      *)

\* The gateway connection is saved under the reconcile lock.
SaveEdit(e) ==
  /\ pc[e] = "draft"
  /\ e \in Connecting => holder = Nobody
  /\ \E s \in Servers : up[s] /\ on' = [on EXCEPT ![e] = s]
  /\ pc' = [pc EXCEPT ![e] = "saved"]
  /\ configured' = (configured \/ e \in Connecting)
  /\ UNCHANGED <<rev, status, revision, up, queued, pump, seen, plan, lost, holder, budget>>

BumpRevision(e) ==
  /\ pc[e] = "saved"
  /\ revision' = revision + 1
  /\ rev' = [rev EXCEPT ![e] = revision']
  /\ pc' = [pc EXCEPT ![e] = "bumped"]
  /\ UNCHANGED <<on, status, configured, up, queued, pump, seen, plan, lost, holder, budget>>

CreateChange(e) ==
  /\ pc[e] = "bumped"
  /\ status' = [status EXCEPT ![e] = "pending"]
  /\ pc' = [pc EXCEPT ![e] = "created"]
  /\ UNCHANGED <<on, rev, revision, configured, up, queued, pump, seen, plan, lost, holder, budget>>

AskForPass(e) ==
  /\ pc[e] = "created"
  /\ Request(on[e])
  /\ pc' = [pc EXCEPT ![e] = "done"]
  /\ on' = [on EXCEPT ![e] = Nobody]
  /\ UNCHANGED <<rev, status, revision, configured, up, seen, plan, lost, holder, budget>>

----------------------------------------------------------------------------

PassStep(s) ==
  \/ Wake(s) \/ AcquireLock(s) \/ LockRefused(s) \/ ReadRevision(s)
  \/ ReadOwners(s) \/ ReadRules(s) \/ FinishRun(s) \/ FailRun(s)
  \/ Settle(s) \/ SettleFailed(s) \/ EndPass(s)

Next ==
  \/ \E s \in Servers :
       PassStep(s) \/ PassThrows(s) \/ Boot(s) \/ Timer(s) \/ NoticeLost(s) \/ Crash(s)
  \/ \E e \in Edits : SaveEdit(e) \/ BumpRevision(e) \/ CreateChange(e) \/ AskForPass(e)
  \/ Lapse

\* A living process takes its steps, its interval fires, it is started again
\* when it died, and a dead process's lease runs out.
Fairness ==
  /\ \A s \in Servers : WF_vars(PassStep(s)) /\ WF_vars(Boot(s)) /\ WF_vars(Timer(s))
  /\ WF_vars(holder = Stale /\ Lapse)

Spec == Init /\ [][Next]_vars /\ Fairness

----------------------------------------------------------------------------
(* Properties                                                              *)

\* A change is answered "applied" or "partial" only by a pass that read the
\* edit it stands for, although the pass reads groups and rules long after
\* the revision it settles by, while people go on saving (reconcile pass,
\* the settling query; enqueueChange bumps after the edit is saved).
AppliedWasRead ==
  [][\A e \in Edits : status[e] = "pending" /\ status'[e] \in {"applied", "partial"} =>
       \E s \in Servers : pump[s] = "settling" /\ pump'[s] = "ending" /\ e \in plan[s]]_vars

\* What can still answer edit e: a pass that has not read the revision yet,
\* or has read one that covers e, or a process about to ask for one.
Covered(e) ==
  \/ \E s \in Servers :
       \/ ~up[s]
       \/ queued[s]
       \/ pump[s] \in {"starting", "opened"}
       \/ pump[s] \in InPass \ {"ending"} /\ rev[e] <= seen[s]
  \/ \E c \in Connecting : pc[c] \in {"saved", "bumped", "created"}

\* No announced change is forgotten between two passes: as long as no lease
\* ran out under a living pass, whatever the queue's flag, a running pass
\* and a retry went through, some pass that is running or asked for will
\* answer it, without waiting for the interval (pump, requestReconcile).
NeverForgotten ==
  ~lapsed /\ configured =>
    \A e \in Edits : status[e] = "pending" /\ pc[e] = "done" => Covered(e)

\* What the household sees of an edit.
AnswerOf(e) ==
  IF status[e] # "none" THEN status[e]
  ELSE IF pc[e] = "draft" THEN "draft" ELSE "saved"

Promise == INSTANCE EditPromise WITH
  answer <- [e \in Edits |-> AnswerOf(e)],
  connected <- configured

\* The queue, the passes and the lock keep the promise EditPromise states,
\* whichever processes die, leases run out and database calls fail.
PromiseKept == Promise!Spec

=============================================================================
