--------------------------- MODULE ReconcileLock ---------------------------
(***************************************************************************)
(* The one reconcile lock of a household, a database row leased by a pass  *)
(* or a connection save (src/src/server/reconciliation.ts).                *)
(*                                                                         *)
(* An owner is one token: every pass and every save draws a fresh random   *)
(* one, so a member of Passes or Saves holds the lock at most once.  Every *)
(* database call is a step of its own and uses the clock its caller read   *)
(* before sending it, which may be old by the time the call lands.         *)
(*                                                                         *)
(* `timely' is chosen once, in the initial state.  When it is FALSE        *)
(* nothing bounds how long a step takes.  When it is TRUE the clock waits  *)
(* for database calls and due renewals, and at most Tolerated renewals in  *)
(* a row fail: the conditions under which the lease is to be exclusive.    *)
(***************************************************************************)
EXTENDS Naturals, FiniteSets

CONSTANTS
  Passes,      \* owner tokens of reconcile passes
  Saves,       \* owner tokens of withReconcileLock callers
  LockMs,      \* how long a lease lasts
  RenewMs,     \* the renewal interval
  WaitMs,      \* how long a save waits for the lock
  Tolerated,   \* failed renewals in a row a timely owner may meet
  MaxTime,     \* bound: the last instant of the clock
  None,        \* owner of a lock row that does not exist yet
  Gone         \* the owner an earlier run of the program left in the row

Owners == Passes \cup Saves

ASSUME LockAssumption ==
  /\ LockMs \in Nat /\ RenewMs \in Nat \ {0} /\ Tolerated \in Nat
  /\ WaitMs \in Nat /\ MaxTime \in Nat
  /\ None \notin Owners /\ Gone \notin Owners /\ None # Gone
  /\ LockMs > RenewMs * (Tolerated + 1)

VARIABLES
  row,        \* the lock row: its owner and when the lease runs out
  now,        \* the clock
  pc,         \* what each owner is doing
  at,         \* the clock as each owner read it for its last database call
  deadline,   \* when a waiting save gives up
  renewal,    \* the renewal in flight of each owner, and its answer
  nextBeat,   \* when each owner's renewal interval next fires
  missed,     \* failed renewals in a row
  lost,       \* holdLock's flag
  timely

vars == <<row, now, pc, at, deadline, renewal, nextBeat, missed, lost, timely>>

----------------------------------------------------------------------------
(* State                                                                   *)

Acquiring == {"reading", "creating", "taking"}
Working   == {"working", "writing"}
Ended     == {"refused", "busy", "released", "unreleased", "dead"}

Holding(p) == pc[p] \in Working \cup {"releasing"}

TypeOK ==
  /\ row \in [owner : Owners \cup {None, Gone}, expires : Nat]
  /\ now \in Nat
  /\ pc \in [Owners -> {"new", "waiting", "releasing"}
                         \cup Acquiring \cup Working \cup Ended]
  /\ at \in [Owners -> Nat]
  /\ deadline \in [Owners -> Nat]
  /\ renewal \in [Owners -> {"none", "sent", "held", "lapsed"}]
  /\ nextBeat \in [Owners -> Nat]
  /\ missed \in [Owners -> Nat]
  /\ lost \in [Owners -> BOOLEAN]
  /\ timely \in BOOLEAN

Init ==
  /\ row \in {[owner |-> None, expires |-> 0]}
            \cup [owner : {Gone}, expires : 0..LockMs]
  /\ now = 1
  /\ pc = [p \in Owners |-> "new"]
  /\ at = [p \in Owners |-> 0]
  /\ deadline = [p \in Owners |-> 0]
  /\ renewal = [p \in Owners |-> "none"]
  /\ nextBeat = [p \in Owners |-> 0]
  /\ missed = [p \in Owners |-> 0]
  /\ lost = [p \in Owners |-> FALSE]
  /\ timely \in BOOLEAN

----------------------------------------------------------------------------
(* acquireLock: a read, then a create or a conditional update              *)

\* A pass or a save comes for the lock; a save notes when it will give up.
AcquireStart(p) ==
  /\ pc[p] \in {"new", "waiting"}
  /\ pc' = [pc EXCEPT ![p] = "reading"]
  /\ at' = [at EXCEPT ![p] = now]
  /\ deadline' = [deadline EXCEPT ![p] = IF pc[p] = "new" THEN now + WaitMs ELSE @]
  /\ UNCHANGED <<row, now, renewal, nextBeat, missed, lost, timely>>

\* acquireLock answered false: a pass ends, a save waits or gives up as busy.
Refuse(p) ==
  /\ \/ p \in Passes /\ pc' = [pc EXCEPT ![p] = "refused"]
     \/ p \notin Passes /\ now >= deadline[p] /\ pc' = [pc EXCEPT ![p] = "busy"]
     \/ p \notin Passes /\ now < deadline[p] /\ pc' = [pc EXCEPT ![p] = "waiting"]
  /\ UNCHANGED <<row, nextBeat>>

\* acquireLock answered true: holdLock starts the renewal interval.
Take(p) ==
  /\ row' = [owner |-> p, expires |-> at[p] + LockMs]
  /\ pc' = [pc EXCEPT ![p] = "working"]
  /\ nextBeat' = [nextBeat EXCEPT ![p] = now + RenewMs]

AcquireRead(p) ==
  /\ pc[p] = "reading"
  /\ \/ /\ row.owner = None
        /\ pc' = [pc EXCEPT ![p] = "creating"]
        /\ UNCHANGED <<row, nextBeat>>
     \/ /\ row.owner \notin {None, p} /\ row.expires > at[p]
        /\ Refuse(p)
     \/ /\ row.owner # None
        /\ row.owner = p \/ row.expires <= at[p]
        /\ pc' = [pc EXCEPT ![p] = "taking"]
        /\ UNCHANGED <<row, nextBeat>>
  /\ UNCHANGED <<now, at, deadline, renewal, missed, lost, timely>>

\* The insert: its unique key refuses a row somebody made meanwhile.
AcquireCreate(p) ==
  /\ pc[p] = "creating"
  /\ IF row.owner = None THEN Take(p) ELSE Refuse(p)
  /\ UNCHANGED <<now, at, deadline, renewal, missed, lost, timely>>

\* The conditional update, against the clock read before the read.
TakeGuard(p) == row.owner = p \/ row.expires <= at[p]

AcquireTakeUnguarded(p) ==
  /\ pc[p] = "taking"
  /\ Take(p)
  /\ UNCHANGED <<now, at, deadline, renewal, missed, lost, timely>>

AcquireTake(p) ==
  /\ pc[p] = "taking"
  /\ IF TakeGuard(p) THEN Take(p) ELSE Refuse(p)
  /\ UNCHANGED <<now, at, deadline, renewal, missed, lost, timely>>

----------------------------------------------------------------------------
(* holdLock: one renewal at a time while the work runs                     *)

\* The interval fires; a beat that finds a renewal in flight does nothing.
Beat(p) ==
  /\ pc[p] \in Working
  /\ now >= nextBeat[p]
  /\ nextBeat' = [nextBeat EXCEPT ![p] = now + RenewMs]
  /\ IF renewal[p] = "none"
       THEN /\ renewal' = [renewal EXCEPT ![p] = "sent"]
            /\ at' = [at EXCEPT ![p] = now]
       ELSE UNCHANGED <<renewal, at>>
  /\ UNCHANGED <<row, now, pc, deadline, missed, lost, timely>>

\* renewLock as if it took the lock the way acquireLock does.
RenewLandRetaking(p) ==
  /\ renewal[p] = "sent"
  /\ IF TakeGuard(p)
       THEN /\ row' = [owner |-> p, expires |-> at[p] + LockMs]
            /\ renewal' = [renewal EXCEPT ![p] = "held"]
       ELSE /\ renewal' = [renewal EXCEPT ![p] = "lapsed"]
            /\ UNCHANGED row
  /\ UNCHANGED <<now, pc, at, deadline, nextBeat, missed, lost, timely>>

\* renewLock's update lands: it extends a lease that is still this owner's
\* and has not run out, and never takes one that lapsed.  A renewal sent
\* before a crash can land after it.
RenewLand(p) ==
  /\ renewal[p] = "sent"
  /\ IF row.owner = p /\ row.expires > at[p]
       THEN /\ row' = [owner |-> p, expires |-> at[p] + LockMs]
            /\ renewal' = [renewal EXCEPT ![p] = "held"]
       ELSE /\ renewal' = [renewal EXCEPT ![p] = "lapsed"]
            /\ UNCHANGED row
  /\ UNCHANGED <<now, pc, at, deadline, nextBeat, missed, lost, timely>>

\* The renewal is answered: one that found the lock gone marks it lost.
RenewAnswer(p) ==
  /\ renewal[p] \in {"held", "lapsed"}
  /\ pc[p] # "dead"
  /\ renewal' = [renewal EXCEPT ![p] = "none"]
  /\ lost' = [lost EXCEPT ![p] = @ \/ renewal[p] = "lapsed"]
  /\ missed' = [missed EXCEPT ![p] = 0]
  /\ UNCHANGED <<row, now, pc, at, deadline, nextBeat, timely>>

\* The database fails: the renewal, landed or not, is tried on the next beat.
RenewFail(p) ==
  /\ renewal[p] # "none"
  /\ pc[p] # "dead"
  /\ timely => missed[p] < Tolerated
  /\ renewal' = [renewal EXCEPT ![p] = "none"]
  /\ missed' = [missed EXCEPT ![p] = IF timely THEN @ + 1 ELSE @]
  /\ UNCHANGED <<row, now, pc, at, deadline, nextBeat, lost, timely>>

----------------------------------------------------------------------------
(* The work: stillHeld is asked before every gateway write                 *)

StartWrite(p) ==
  /\ pc[p] = "working"
  /\ ~lost[p]
  /\ pc' = [pc EXCEPT ![p] = "writing"]
  /\ UNCHANGED <<row, now, at, deadline, renewal, nextBeat, missed, lost, timely>>

EndWrite(p) ==
  /\ pc[p] = "writing"
  /\ pc' = [pc EXCEPT ![p] = "working"]
  /\ UNCHANGED <<row, now, at, deadline, renewal, nextBeat, missed, lost, timely>>

\* The work ends, failed, finished or stopped by LockLostError, and release
\* stops the interval.
Finish(p) ==
  /\ pc[p] = "working"
  /\ pc' = [pc EXCEPT ![p] = "releasing"]
  /\ UNCHANGED <<row, now, at, deadline, renewal, nextBeat, missed, lost, timely>>

\* releaseLock as if it let go whatever lease it finds.
ReleaseAny(p) ==
  /\ pc[p] = "releasing"
  /\ renewal[p] = "none"
  /\ row' = [owner |-> row.owner, expires |-> 0]
  /\ pc' = [pc EXCEPT ![p] = "released"]
  /\ UNCHANGED <<now, at, deadline, renewal, nextBeat, missed, lost, timely>>

\* releaseLock skipped once the lock is known lost or the work failed.
ReleaseNothing(p) ==
  /\ pc[p] = "releasing"
  /\ renewal[p] = "none"
  /\ pc' = [pc EXCEPT ![p] = "released"]
  /\ UNCHANGED <<row, now, at, deadline, renewal, nextBeat, missed, lost, timely>>

\* release waits for the renewal in flight, then lets its own lease go.
Release(p) ==
  /\ pc[p] = "releasing"
  /\ renewal[p] = "none"
  /\ IF row.owner = p THEN row' = [owner |-> p, expires |-> 0] ELSE UNCHANGED row
  /\ pc' = [pc EXCEPT ![p] = "released"]
  /\ UNCHANGED <<now, at, deadline, renewal, nextBeat, missed, lost, timely>>

\* The database fails the release, which throws: the lease runs out by itself.
ReleaseFail(p) ==
  /\ pc[p] = "releasing"
  /\ renewal[p] = "none"
  /\ pc' = [pc EXCEPT ![p] = "unreleased"]
  /\ UNCHANGED <<row, now, at, deadline, renewal, nextBeat, missed, lost, timely>>

\* The process dies at any point and its memory with it; a renewal it sent to
\* the database may still land.
Crash(p) ==
  /\ pc[p] \notin Ended
  /\ pc' = [pc EXCEPT ![p] = "dead"]
  /\ deadline' = [deadline EXCEPT ![p] = 0]
  /\ nextBeat' = [nextBeat EXCEPT ![p] = 0]
  /\ missed' = [missed EXCEPT ![p] = 0]
  /\ lost' = [lost EXCEPT ![p] = FALSE]
  /\ UNCHANGED <<row, now, at, renewal, timely>>

----------------------------------------------------------------------------

\* An owner whose database call or due renewal a timely clock waits for.
Pressing(p) ==
  \/ pc[p] \in Acquiring \cup {"releasing"}
  \/ pc[p] \in Working /\ (renewal[p] # "none" \/ now >= nextBeat[p])

Tick ==
  /\ now < MaxTime
  /\ timely => \A p \in Owners : ~Pressing(p)
  /\ now' = now + 1
  /\ UNCHANGED <<row, pc, at, deadline, renewal, nextBeat, missed, lost, timely>>

OwnerStep(p) ==
  \/ AcquireStart(p) \/ AcquireRead(p) \/ AcquireCreate(p) \/ AcquireTake(p)
  \/ Beat(p) \/ RenewLand(p) \/ RenewAnswer(p) \/ RenewFail(p)
  \/ StartWrite(p) \/ EndWrite(p) \/ Finish(p) \/ Release(p) \/ ReleaseFail(p)
  \/ Crash(p)

Next == Tick \/ \E p \in Owners : OwnerStep(p)

Spec == Init /\ [][Next]_vars

----------------------------------------------------------------------------
(* Properties                                                              *)

Leases(p) == row.owner = p /\ row.expires > now

\* While renewals keep their beat and no more than Tolerated in a row fail,
\* two owners never work under the lock at once: the reconcile lock excludes
\* passes and connection saves from each other (lockMs against lockRenewMs).
Exclusive ==
  timely => \A p, q \in Owners : Holding(p) /\ Holding(q) => p = q

\* An owner whose renewal found the lock gone never has it again: a renewal
\* sent later, or landing late, does not revive the lease (renewLock).
LostIsFinal ==
  \A p \in Owners : lost[p] => ~Leases(p)

\* Once release has answered, no call of that owner is left that could take
\* the lock back (holdLock's release awaits the renewal in flight).
ReleasedStaysReleased ==
  \A p \in Owners : pc[p] = "released" => ~Leases(p)

\* A lease that has not run out never passes to another owner, however old
\* the clock another owner read before its conditional update, and whoever
\* releases meanwhile (acquireLock, releaseLock).
LeaseHonoured ==
  [][\A p \in Owners : Leases(p) /\ row' # row =>
       row'.owner = p /\ (row'.expires > now \/ pc'[p] = "released")]_vars

=============================================================================
