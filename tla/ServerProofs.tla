----------------------------- MODULE ServerProofs -----------------------------
(*****************************************************************************)
(* Two parts of the server's, which share no state.                          *)
(*                                                                           *)
(* The reconcile lock, for any owners, lease, renewal interval and number of *)
(* tolerated failures with LockMs > RenewMs * (Tolerated + 1).               *)
(*                                                                           *)
(* Updater, for any number of chains and instants, and any bound on what     *)
(* people do: its types, that an install is called failed only for a reason  *)
(* of its own, that the timer follows the schedule, and that the schedule    *)
(* asks once for an instant.                                                 *)
(*****************************************************************************)
EXTENDS ReconcileLock, Updater, TLAPS

----------------------------------------------------------------------------
(* THE RECONCILE LOCK                                                      *)

NotYetHeld(p) == pc[p] \in {"new", "waiting", "refused", "busy"} \cup Acquiring

\* An owner's clock reading is never ahead of the clock, and a lease never
\* outlasts its owner's last reading by more than LockMs.
ClockInv ==
  \A p \in Owners :
    /\ at[p] <= now
    /\ row.owner = p => row.expires <= at[p] + LockMs

\* Tokens are fresh: an owner that has not got the lock is not in the row,
\* has no renewal in flight and is not marked lost.
FreshInv ==
  \A p \in Owners : NotYetHeld(p) => row.owner # p /\ renewal[p] = "none" /\ ~lost[p]

\* A renewal that found the lock gone is remembered against the reading it
\* was sent with: no later one can pass renewLock's guard.
LostInv ==
  \A p \in Owners :
    lost[p] \/ renewal[p] = "lapsed" => row.owner # p \/ row.expires <= at[p]

ReleasedInv ==
  \A p \in Owners :
    pc[p] = "released" => renewal[p] = "none" /\ (row.owner # p \/ row.expires = 0)

SafetyInv == TypeOK /\ ClockInv /\ FreshInv /\ LostInv /\ ReleasedInv

\* A timely owner's lease reaches past its next beat by a renewal interval
\* for each failure it may still meet.
Covered(p) ==
  \/ /\ renewal[p] = "none"
     /\ now <= nextBeat[p]
     /\ row.expires + RenewMs * missed[p] > nextBeat[p] + RenewMs * Tolerated
  \/ /\ renewal[p] = "sent"
     /\ at[p] = now /\ nextBeat[p] = now + RenewMs
     /\ row.expires + RenewMs * missed[p] > now + RenewMs * Tolerated
  \/ /\ renewal[p] = "held"
     /\ nextBeat[p] = now + RenewMs
     /\ row.expires = now + LockMs

TimelyInv ==
  timely => \A p \in Owners :
    /\ pc[p] \in Acquiring => at[p] = now
    /\ missed[p] <= Tolerated
    /\ pc[p] \in Working => row.owner = p /\ Covered(p)
    /\ pc[p] = "releasing" => row.owner = p /\ row.expires > now

IInv == SafetyInv /\ TimelyInv

----------------------------------------------------------------------------
(* Arithmetic of the renewal interval                                      *)

\* One more failure costs one more interval.
LEMMA IntervalSucc ==
  ASSUME NEW r \in Nat, NEW m \in Nat
  PROVE  r * (m + 1) = r * m + r /\ r * m \in Nat
BY SMT

\* Fewer failures cost no more intervals.
LEMMA IntervalMono ==
  ASSUME NEW r \in Nat, NEW m \in Nat, NEW t \in Nat, m <= t
  PROVE  r * m <= r * t
BY SMT

----------------------------------------------------------------------------
(* Type correctness                                                        *)

\* Every variable keeps its type, whatever the owners do.
THEOREM TypeCorrect == Spec => []TypeOK
<1>1. Init => TypeOK
  BY LockAssumption DEF Init, TypeOK
<1>2. TypeOK /\ [Next]_vars => TypeOK'
  <2> SUFFICES ASSUME TypeOK, [Next]_vars
               PROVE  TypeOK'
    OBVIOUS
  <2> USE LockAssumption DEF TypeOK, Acquiring, Working, Ended
  <2>1. CASE Tick
    BY <2>1 DEF Tick
  <2>2. ASSUME NEW p \in Owners, OwnerStep(p)
        PROVE  TypeOK'
    <3>1. CASE AcquireStart(p)
      BY <3>1 DEF AcquireStart
    <3>2. CASE AcquireRead(p)
      BY <3>2 DEF AcquireRead, Refuse
    <3>3. CASE AcquireCreate(p)
      BY <3>3 DEF AcquireCreate, Refuse, Take
    <3>4. CASE AcquireTake(p)
      BY <3>4 DEF AcquireTake, Refuse, Take, TakeGuard
    <3>5. CASE Beat(p)
      BY <3>5 DEF Beat
    <3>6. CASE RenewLand(p)
      BY <3>6 DEF RenewLand
    <3>7. CASE RenewAnswer(p)
      BY <3>7 DEF RenewAnswer
    <3>8. CASE RenewFail(p)
      BY <3>8 DEF RenewFail
    <3>9. CASE StartWrite(p)
      BY <3>9 DEF StartWrite
    <3>10. CASE EndWrite(p)
      BY <3>10 DEF EndWrite
    <3>11. CASE Finish(p)
      BY <3>11 DEF Finish
    <3>12. CASE Release(p)
      BY <3>12 DEF Release
    <3>13. CASE ReleaseFail(p)
      BY <3>13 DEF ReleaseFail
    <3>14. CASE Crash(p)
      BY <3>14 DEF Crash
    <3> QED
      BY <2>2, <3>1, <3>2, <3>3, <3>4, <3>5, <3>6, <3>7, <3>8, <3>9, <3>10, <3>11,
         <3>12, <3>13, <3>14 DEF OwnerStep
  <2>3. CASE UNCHANGED vars
    BY <2>3 DEF vars
  <2> QED
    BY <2>1, <2>2, <2>3 DEF Next
<1> QED
  BY <1>1, <1>2, PTL DEF Spec

----------------------------------------------------------------------------
(* Safety whatever the timing                                              *)

\* The inductive invariant behind the three timing-free properties.
LEMMA SafetyInductive == SafetyInv /\ [Next]_vars /\ TypeOK' => SafetyInv'
<1> SUFFICES ASSUME SafetyInv, [Next]_vars, TypeOK'
             PROVE  (ClockInv /\ FreshInv /\ LostInv /\ ReleasedInv)'
  BY DEF SafetyInv
<1> USE LockAssumption DEF SafetyInv, TypeOK, ClockInv, FreshInv, LostInv,
        ReleasedInv, NotYetHeld, Acquiring, Working, Ended
<1>1. CASE Tick
  BY <1>1 DEF Tick
<1>2. ASSUME NEW p \in Owners, OwnerStep(p)
      PROVE  (ClockInv /\ FreshInv /\ LostInv /\ ReleasedInv)'
  <2>1. CASE AcquireStart(p)
    BY <2>1 DEF AcquireStart
  <2>2. CASE AcquireRead(p)
    BY <2>2 DEF AcquireRead, Refuse
  <2>3. CASE AcquireCreate(p)
    BY <2>3 DEF AcquireCreate, Refuse, Take
  <2>4. CASE AcquireTake(p)
    BY <2>4 DEF AcquireTake, Refuse, Take, TakeGuard
  <2>5. CASE Beat(p)
    BY <2>5 DEF Beat
  <2>6. CASE RenewLand(p)
    BY <2>6 DEF RenewLand
  <2>7. CASE RenewAnswer(p)
    BY <2>7 DEF RenewAnswer
  <2>8. CASE RenewFail(p)
    BY <2>8 DEF RenewFail
  <2>9. CASE StartWrite(p)
    BY <2>9 DEF StartWrite
  <2>10. CASE EndWrite(p)
    BY <2>10 DEF EndWrite
  <2>11. CASE Finish(p)
    BY <2>11 DEF Finish
  <2>12. CASE Release(p)
    BY <2>12 DEF Release
  <2>13. CASE ReleaseFail(p)
    BY <2>13 DEF ReleaseFail
  <2>14. CASE Crash(p)
    BY <2>14 DEF Crash
  <2> QED
    BY <1>2, <2>1, <2>2, <2>3, <2>4, <2>5, <2>6, <2>7, <2>8, <2>9, <2>10, <2>11,
       <2>12, <2>13, <2>14 DEF OwnerStep
<1>3. CASE UNCHANGED vars
  BY <1>3 DEF vars
<1> QED
  BY <1>1, <1>2, <1>3 DEF Next

\* The timing-free invariant holds throughout.
THEOREM Safety == Spec => []SafetyInv
<1>1. Init => SafetyInv
  BY LockAssumption
  DEF Init, SafetyInv, TypeOK, ClockInv, FreshInv, LostInv, ReleasedInv,
      NotYetHeld, Acquiring, Ended
<1> QED
  BY <1>1, SafetyInductive, TypeCorrect, PTL DEF Spec

\* An owner told it lost the lock never has it again (renewLock, holdLock).
THEOREM LostStaysLost == Spec => []LostIsFinal
<1>1. SafetyInv => LostIsFinal
  BY DEF SafetyInv, TypeOK, ClockInv, LostInv, LostIsFinal, Leases
<1> QED
  BY <1>1, Safety, PTL

\* Nothing an owner sent before it released takes the lock back (holdLock).
THEOREM ReleaseIsFinal == Spec => []ReleasedStaysReleased
<1>1. SafetyInv => ReleasedStaysReleased
  BY DEF SafetyInv, TypeOK, ReleasedInv, ReleasedStaysReleased, Leases
<1> QED
  BY <1>1, Safety, PTL

\* A live lease is only ever extended or released by its own owner
\* (acquireLock, renewLock, releaseLock).
THEOREM LiveLeaseKept == Spec => LeaseHonoured
<1> DEFINE Kept ==
      \A p \in Owners : Leases(p) /\ row' # row =>
        row'.owner = p /\ (row'.expires > now \/ pc'[p] = "released")
<1>1. SafetyInv /\ [Next]_vars => [Kept]_vars
  <2> SUFFICES ASSUME SafetyInv, Next
               PROVE  Kept
    OBVIOUS
  <2> USE LockAssumption DEF SafetyInv, TypeOK, ClockInv, FreshInv, NotYetHeld,
          Acquiring, Working, Ended, Leases
  <2>1. CASE Tick
    BY <2>1 DEF Tick
  <2>2. ASSUME NEW q \in Owners, OwnerStep(q)
        PROVE  Kept
    <3>1. CASE AcquireRead(q) \/ AcquireCreate(q) \/ AcquireTake(q)
      BY <3>1 DEF AcquireRead, AcquireCreate, AcquireTake, Refuse, Take, TakeGuard
    <3>2. CASE RenewLand(q)
      BY <3>2 DEF RenewLand
    <3>3. CASE Release(q)
      BY <3>3 DEF Release
    <3>4. CASE UNCHANGED row
      BY <3>4
    <3> QED
      BY <2>2, <3>1, <3>2, <3>3, <3>4
      DEF OwnerStep, AcquireStart, Beat, RenewAnswer, RenewFail, StartWrite,
          EndWrite, Finish, ReleaseFail, Crash
  <2> QED
    BY <2>1, <2>2 DEF Next
<1> QED
  BY <1>1, Safety, PTL DEF Spec, LeaseHonoured

----------------------------------------------------------------------------
(* Mutual exclusion of timely owners                                       *)

\* Every timely owner keeps its lease ahead of its next beat.
LEMMA TimelyInductive == IInv /\ [Next]_vars /\ SafetyInv' => TimelyInv'
<1> SUFFICES ASSUME IInv, [Next]_vars, SafetyInv', timely
             PROVE  TimelyInv'
  <2>1. SUFFICES ASSUME IInv, [Next]_vars, SafetyInv'
                 PROVE  timely' = timely
    BY <2>1 DEF TimelyInv
  <2>2. CASE Tick \/ UNCHANGED vars
    BY <2>2 DEF Tick, vars
  <2>3. ASSUME NEW p \in Owners, OwnerStep(p)
        PROVE  timely' = timely
    BY <2>3 DEF OwnerStep, AcquireStart, AcquireRead, AcquireCreate, AcquireTake,
       Beat, RenewLand, RenewAnswer, RenewFail, StartWrite, EndWrite, Finish,
       Release, ReleaseFail, Crash
  <2> QED
    BY <2>1, <2>2, <2>3 DEF Next
<1> USE LockAssumption DEF IInv, SafetyInv, TypeOK, ClockInv, FreshInv,
        NotYetHeld, Acquiring, Working, Ended, TimelyInv, Covered
<1>1. \A m \in Nat : RenewMs * (m + 1) = RenewMs * m + RenewMs /\ RenewMs * m \in Nat
  BY IntervalSucc
<1>2. \A m \in Nat : m <= Tolerated => RenewMs * m <= RenewMs * Tolerated
  BY IntervalMono
<1>3. LockMs > RenewMs * Tolerated + RenewMs
  BY <1>1
<1>4. \A q \in Owners : pc[q] \in Working => row.owner = q /\ row.expires > now
  BY <1>1, <1>2, <1>3
<1>5. CASE Tick
  BY <1>1, <1>2, <1>3, <1>5 DEF Tick, Pressing
<1>6. ASSUME NEW p \in Owners, OwnerStep(p)
      PROVE  TimelyInv'
  <2>1. CASE AcquireStart(p)
    BY <1>1, <1>2, <1>3, <1>4, <2>1 DEF AcquireStart
  <2>2. CASE AcquireRead(p)
    BY <1>1, <1>2, <1>3, <1>4, <2>2 DEF AcquireRead, Refuse
  <2>3. CASE AcquireCreate(p)
    BY <1>1, <1>2, <1>3, <1>4, <2>3 DEF AcquireCreate, Refuse, Take
  <2>4. CASE AcquireTake(p)
    BY <1>1, <1>2, <1>3, <1>4, <2>4 DEF AcquireTake, Refuse, Take, TakeGuard
  <2>5. CASE Beat(p)
    BY <1>1, <1>2, <1>3, <1>4, <2>5 DEF Beat
  <2>6. CASE RenewLand(p)
    <3>1. ASSUME NEW q \in Owners, pc[q] \in Working
          PROVE  row'.owner = q /\ Covered(q)'
      BY <1>1, <1>2, <1>3, <1>4, <2>6, <3>1 DEF RenewLand
    <3>2. ASSUME NEW q \in Owners, pc[q] = "releasing"
          PROVE  row'.owner = q /\ row'.expires > now
      BY <2>6, <3>2 DEF RenewLand
    <3> QED
      BY <2>6, <3>1, <3>2 DEF RenewLand
  <2>7. CASE RenewAnswer(p)
    BY <1>1, <1>2, <1>3, <1>4, <2>7 DEF RenewAnswer
  <2>8. CASE RenewFail(p)
    BY <1>1, <1>2, <1>3, <1>4, <2>8 DEF RenewFail
  <2>9. CASE StartWrite(p)
    BY <1>1, <1>2, <1>3, <1>4, <2>9 DEF StartWrite
  <2>10. CASE EndWrite(p)
    BY <1>1, <1>2, <1>3, <1>4, <2>10 DEF EndWrite
  <2>11. CASE Finish(p)
    BY <1>1, <1>2, <1>3, <1>4, <2>11 DEF Finish
  <2>12. CASE Release(p)
    BY <1>1, <1>2, <1>3, <1>4, <2>12 DEF Release
  <2>13. CASE ReleaseFail(p)
    BY <1>1, <1>2, <1>3, <1>4, <2>13 DEF ReleaseFail
  <2>14. CASE Crash(p)
    BY <1>1, <1>2, <1>3, <1>4, <2>14 DEF Crash
  <2> QED
    BY <1>6, <2>1, <2>2, <2>3, <2>4, <2>5, <2>6, <2>7, <2>8, <2>9, <2>10, <2>11,
       <2>12, <2>13, <2>14 DEF OwnerStep
<1>7. CASE UNCHANGED vars
  BY <1>7 DEF vars
<1> QED
  BY <1>5, <1>6, <1>7 DEF Next

\* Timely owners never hold the lock two at a time, for every lease longer
\* than the renewal intervals it must survive (lockMs, lockRenewMs).
THEOREM TimelyExclusion == Spec => []Exclusive
<1>1. Init => IInv
  BY LockAssumption
  DEF Init, IInv, SafetyInv, TimelyInv, TypeOK, ClockInv, FreshInv, LostInv,
      ReleasedInv, NotYetHeld, Acquiring, Working, Ended
<1>2. IInv /\ [Next]_vars /\ SafetyInv' => IInv'
  BY TimelyInductive DEF IInv
<1>3. IInv => Exclusive
  BY DEF IInv, TimelyInv, Exclusive, Holding
<1> QED
  BY <1>1, <1>2, <1>3, Safety, PTL DEF Spec

----------------------------------------------------------------------------
(* UPDATER                                                                 *)

----------------------------------------------------------------------------
(* The types, and the counters that bound them                             *)

Counted ==
  /\ newest <= turns + 2
  /\ moment >= 1 /\ moment <= MaxSlots + MaxTurns + 1

LEMMA RestsInWork == AtRest \in Work /\ NoRequest \in UpdateRuns
BY UpdaterAssumption DEF AtRest, Work, HandlerSteps, NoRequest, UpdateRuns, Moments, Slots, Releases

\* What a handler's work may become: the fields the actions set keep their types.
LEMMA WorkTypes ==
  ASSUME NEW h \in Handlers, work[h] \in Work
  PROVE  /\ \A step \in HandlerSteps : [work[h] EXCEPT !.step = step] \in Work
         /\ [work[h] EXCEPT !.current = FALSE] \in Work
         /\ Fired \in Work /\ Arming \in Work /\ Returned(h) \in Work
BY RestsInWork, UpdaterAssumption
   DEF Work, HandlerSteps, Fired, Arming, AtRest, NoRequest, Returned

LEMMA UpdaterBounds == MaxSlots \in Nat /\ MaxTurns \in Nat
BY UpdaterAssumption

LEMMA CountedTypes ==
  ASSUME UpdaterTypeOK
  PROVE  newest \in Nat /\ turns \in 0..MaxTurns /\ moment \in Nat
BY UpdaterBounds DEF UpdaterTypeOK, Releases, Moments

LEMMA CountedKept ==
  ASSUME newest \in Nat, turns \in 0..MaxTurns, moment \in Nat, Counted, [UpdaterNext]_updaterVars
  PROVE  Counted' /\ newest' \in Nat /\ turns' \in 0..MaxTurns /\ moment' \in Nat
<1> USE UpdaterBounds DEF Counted
<1>1. CASE UNCHANGED updaterVars
  BY <1>1 DEF updaterVars, world
<1>2. ASSUME NEW h \in Handlers, Settle(h) \/ Settled(h) \/ Record(h) \/ Undo(h)
      PROVE  UNCHANGED <<newest, turns, moment>>
  BY <1>2 DEF Settle, Settled, Record, Undo, world
<1>3. ASSUME NEW h \in Handlers, Post(h)
      PROVE  /\ UNCHANGED <<newest, moment>>
             /\ turns' \in 0..MaxTurns /\ turns <= turns'
  BY <1>3 DEF Post, Turn
<1>4. ASSUME NEW c \in Chains, Due(c) \/ GiveBack(c) \/ Arm(c) \/ SetTimer(c) \/ Fire(c) \/ Rearm(c)
      PROVE  UNCHANGED <<newest, turns, moment>>
  BY <1>4 DEF Due, GiveBack, Arm, SetTimer, Fire, Rearm, world
<1>5. ASSUME NEW c \in Chains, Claim(c)
      PROVE  /\ UNCHANGED <<newest, turns>> /\ moment' \in Nat
             /\ moment' >= 1 /\ moment' <= MaxSlots + MaxTurns + 1
  BY <1>5 DEF Claim, AskIfNewer, Asking, world
<1>6. CASE Install
  BY <1>6 DEF Install, Turn, Asking, world
<1>7. CASE Save \/ Publish \/ Killed
  BY <1>7 DEF Save, Publish, Killed, Turn
<1>8. CASE Boot \/ Replace \/ ScanEnds \/ Instant \/ Age
  BY <1>8 DEF Boot, Replace, ScanEnds, Instant, Age, world
<1>9. QED
  BY <1>1, <1>2, <1>3, <1>4, <1>5, <1>6, <1>7, <1>8 DEF UpdaterNext

\* The types of what is not counted.
Typed ==
  /\ request \in UpdateRuns
  /\ scheduled \in BOOLEAN /\ claimed \in Slots /\ saving \in BOOLEAN
  /\ due \in Slots
  /\ release \in Releases /\ up \in BOOLEAN
  /\ tower \in Releases /\ lastScan \in Moments
  /\ armed \in BOOLEAN
  /\ work \in [Handlers -> Work]
  /\ asked \in [Slots -> Int] /\ overtaken \in BOOLEAN

LEMMA TypedKept ==
  ASSUME Typed, newest \in Releases, moment \in Moments, [UpdaterNext]_updaterVars
  PROVE  Typed'
<1> USE DEF Typed
<1>0. \A h \in Handlers : work[h] \in Work
  OBVIOUS
<1>1. CASE UNCHANGED updaterVars
  BY <1>1 DEF updaterVars, updaterRow, world, ghosts
<1>2. ASSUME NEW h \in Handlers, Settle(h)
      PROVE  Typed'
  <2>1. PICK o \in Outcomes(request) :
          work' = [work EXCEPT ![h] = [@ EXCEPT !.step = "settled", !.seen = request, !.outcome = o]]
    BY <1>2 DEF Settle
  <2>2. o \in {"none", "succeeded", "failed"}
    BY <2>1 DEF Outcomes
  <2>3. [work[h] EXCEPT !.step = "settled", !.seen = request, !.outcome = o] \in Work
    BY <2>2 DEF Work, HandlerSteps
  <2>4. QED
    BY <1>2, <2>1, <2>3 DEF Settle, updaterRow, world, ghosts
<1>3. ASSUME NEW h \in Handlers, Settled(h)
      PROVE  Typed'
  <2>1. request' \in UpdateRuns
    BY <1>3 DEF Settled, Work, UpdateRuns
  <2>2. [work[h] EXCEPT !.step = "record", !.seen = NoRequest, !.outcome = "none"] \in Work
    BY RestsInWork DEF Work, HandlerSteps
  <2>3. work' \in [Handlers -> Work]
    BY <1>3, <2>2, <1>0, WorkTypes DEF Settled, Return
  <2>4. QED
    BY <1>3, <2>1, <2>3 DEF Settled, world, ghosts
<1>4. ASSUME NEW h \in Handlers, Record(h)
      PROVE  Typed'
  <2>1. [at |-> work[h].at, target |-> work[h].target, status |-> "requested", late |-> FALSE] \in UpdateRuns
    BY DEF Work, UpdateRuns
  <2>2. work' \in [Handlers -> Work]
    BY <1>4, <1>0, WorkTypes DEF Record, Return, To, HandlerSteps
  <2>3. work[h].due \in Slots
    BY DEF Work
  <2>4. Made(h) \in [Slots -> Int]
    BY <2>3 DEF Made
  <2>5. QED
    BY <1>4, <2>1, <2>2, <2>4 DEF Record, world
<1>5. ASSUME NEW h \in Handlers, Post(h)
      PROVE  Typed'
  <2>1. work' \in [Handlers -> Work]
    BY <1>5, <1>0, WorkTypes DEF Post, Return, To, HandlerSteps
  <2>2. tower' \in Releases
    BY <1>5 DEF Post, Taken
  <2>3. QED
    BY <1>5, <2>1, <2>2 DEF Post, updaterRow, ghosts
<1>6. ASSUME NEW h \in Handlers, Undo(h)
      PROVE  Typed'
  <2>1. work' \in [Handlers -> Work]
    BY <1>6, <1>0, WorkTypes DEF Undo, Return, To, HandlerSteps
  <2>2. request' \in UpdateRuns
    BY <1>6 DEF Undo, UpdateRuns
  <2>3. QED
    BY <1>6, <2>1, <2>2 DEF Undo, world, ghosts
<1>7. ASSUME NEW c \in Chains, Due(c)
      PROVE  Typed'
  <2>1. c \in Handlers
    BY DEF Handlers
  <2>2. [work[c] EXCEPT !.step = "claim", !.due = due, !.before = claimed, !.target = newest] \in Work
    BY <2>1 DEF Work, HandlerSteps
  <2>3. work' \in [Handlers -> Work]
    BY <1>7, <1>0, <2>1, <2>2, WorkTypes DEF Due, Return
  <2>4. QED
    BY <1>7, <2>3 DEF Due, updaterRow, world, ghosts
<1>8. ASSUME NEW h \in Handlers, NEW target \in Releases, Asking(h, target)
      PROVE  work' \in [Handlers -> Work]
  <2>1. [work[h] EXCEPT !.step = "settle", !.at = moment, !.target = target] \in Work
    BY DEF Work, HandlerSteps
  <2>2. QED
    BY <1>8, <2>1 DEF Asking
<1>9. ASSUME NEW c \in Chains, Claim(c)
      PROVE  Typed'
  <2>1. c \in Handlers /\ work[c].target \in Releases /\ work[c].due \in Slots
    BY DEF Handlers, Work
  <2>2. work' \in [Handlers -> Work]
    BY <1>0, <1>8, <1>9, <2>1, WorkTypes DEF Claim, AskIfNewer, Return
  <2>3. overtaken' \in BOOLEAN
    BY <1>9 DEF Claim
  <2>4. claimed' \in Slots
    BY <1>9, <2>1 DEF Claim
  <2>5. QED
    BY <1>9, <2>2, <2>3, <2>4 DEF Claim, world
<1>10. ASSUME NEW c \in Chains, GiveBack(c)
       PROVE  Typed'
  <2>1. c \in Handlers /\ work[c].before \in Slots /\ work[c].due \in Slots
    BY DEF Handlers, Work
  <2>2. work' \in [Handlers -> Work]
    BY <1>0, <1>10, <2>1, WorkTypes DEF GiveBack, Return
  <2>3. claimed' \in Slots /\ asked' \in [Slots -> Int]
    BY <1>10, <2>1 DEF GiveBack
  <2>4. QED
    BY <1>10, <2>2, <2>3 DEF GiveBack, world
<1>11. ASSUME NEW c \in Chains, Arm(c) \/ SetTimer(c) \/ Fire(c) \/ Rearm(c)
       PROVE  Typed'
  <2>1. c \in Handlers
    BY DEF Handlers
  <2>2. Rearmed(c) \in [Handlers -> Work]
    BY <1>0, WorkTypes DEF Rearmed
  <2>3. armed' \in BOOLEAN /\ saving' \in BOOLEAN
    BY <1>11, <2>1 DEF Arm, SetTimer, Fire, Rearm, Work, updaterRow
  <2>4. work' \in [Handlers -> Work]
    BY <1>0, <1>11, <2>1, <2>2, RestsInWork, WorkTypes DEF Arm, SetTimer, Fire, Rearm, To, HandlerSteps
  <2>5. QED
    BY <1>11, <2>3, <2>4 DEF Arm, SetTimer, Fire, Rearm, updaterRow, world, ghosts
<1>12. CASE Install
  <2>1. PICK target \in release + 1..newest : Asking("person", target)
    BY <1>12 DEF Install
  <2>2. target \in Releases /\ "person" \in Handlers
    BY <2>1, UpdaterBounds DEF Handlers, Releases
  <2>3. QED
    BY <1>8, <1>12, <2>1, <2>2 DEF Install, updaterRow, world, ghosts
<1>13. CASE Save
  <2>1. due' \in Slots /\ scheduled' \in BOOLEAN
    BY <1>13 DEF Save
  <2>2. QED
    BY <1>13, <2>1 DEF Save, ghosts
<1>14. CASE Instant
  <2>1. due' \in Slots
    BY <1>14, UpdaterBounds DEF Instant, Slots
  <2>2. QED
    BY <1>14, <2>1 DEF Instant, updaterRow, ghosts
<1>15. CASE ScanEnds \/ Publish
  <2>1. tower' \in Releases /\ lastScan' \in Moments
    BY <1>15, UpdaterBounds DEF ScanEnds, Publish, Releases
  <2>2. QED
    BY <1>15, <2>1 DEF ScanEnds, Publish, updaterRow, ghosts
<1>16. CASE Boot \/ Killed \/ Replace
  <2>1. work' \in [Handlers -> Work]
    BY <1>0, <1>16, RestsInWork, WorkTypes DEF Boot, Killed, Replace, Stops, Handlers
  <2>2. armed' \in BOOLEAN /\ saving' \in BOOLEAN /\ up' \in BOOLEAN /\ release' \in Releases
    BY <1>16 DEF Boot, Killed, Replace, Stops, updaterRow
  <2>3. QED
    BY <1>16, <2>1, <2>2 DEF Boot, Killed, Replace, updaterRow, ghosts
<1>17. CASE Age
  <2>1. request' \in UpdateRuns
    BY <1>17 DEF Age, UpdateRuns
  <2>2. UNCHANGED <<scheduled, claimed, saving, due, release, up, tower, lastScan, armed, work, asked, overtaken>>
    BY <1>17 DEF Age, world, ghosts
  <2>3. QED
    BY <2>1, <2>2
<1>18. QED
  BY <1>1, <1>2, <1>3, <1>4, <1>5, <1>6, <1>7, <1>9, <1>10, <1>11, <1>12, <1>13, <1>14, <1>15,
     <1>16, <1>17 DEF UpdaterNext

LEMMA CountsBound ==
  ASSUME NEW n \in Nat, NEW t \in 0..MaxTurns, NEW m \in Nat,
         n <= t + 2, m <= MaxSlots + MaxTurns + 1
  PROVE  n \in Releases /\ m \in Moments
BY UpdaterBounds DEF Releases, Moments

LEMMA UpdaterTypesKept ==
  ASSUME UpdaterTypeOK, Counted, [UpdaterNext]_updaterVars
  PROVE  UpdaterTypeOK' /\ Counted'
<1>1. newest \in Nat /\ turns \in 0..MaxTurns /\ moment \in Nat
  BY CountedTypes
<1>2. Counted' /\ newest' \in Nat /\ turns' \in 0..MaxTurns /\ moment' \in Nat
  BY <1>1, CountedKept
<1>3. newest' \in Releases /\ moment' \in Moments
  BY <1>2, CountsBound DEF Counted
<1>4. Typed /\ newest \in Releases /\ moment \in Moments
  BY DEF UpdaterTypeOK, Typed
<1>5. Typed'
  BY <1>4, TypedKept
<1>6. QED
  BY <1>2, <1>3, <1>5 DEF Typed, UpdaterTypeOK

LEMMA UpdaterStarts == UpdaterInit => UpdaterTypeOK /\ Counted
<1> SUFFICES ASSUME UpdaterInit
             PROVE  UpdaterTypeOK /\ Counted
  OBVIOUS
<1>1. Counted
  BY UpdaterBounds DEF UpdaterInit, Counted
<1>2. newest \in Releases /\ release \in Releases /\ tower \in Releases /\ turns \in 0..MaxTurns
  BY UpdaterBounds DEF UpdaterInit, Releases
<1>3. moment \in Moments /\ lastScan \in Moments /\ due \in Slots /\ claimed \in Slots
  BY UpdaterBounds DEF UpdaterInit, Moments, Slots
<1>4. work \in [Handlers -> Work] /\ request \in UpdateRuns
  BY RestsInWork DEF UpdaterInit
<1>5. asked \in [Slots -> Int]
  BY DEF UpdaterInit
<1>6. up \in BOOLEAN /\ armed \in BOOLEAN /\ scheduled \in BOOLEAN /\ saving \in BOOLEAN /\ overtaken \in BOOLEAN
  BY DEF UpdaterInit
<1>7. QED
  BY <1>1, <1>2, <1>3, <1>4, <1>5, <1>6 DEF UpdaterTypeOK

\* Every variable of Updater keeps its type, and the counters their bounds.
THEOREM UpdaterTypes == UpdaterSpec => []UpdaterTypeOK
<1>1. UpdaterTypeOK /\ Counted /\ [UpdaterNext]_updaterVars => (UpdaterTypeOK /\ Counted)'
  BY UpdaterTypesKept
<1>2. QED
  BY UpdaterStarts, <1>1, PTL DEF UpdaterSpec

----------------------------------------------------------------------------
(* An install fails for a reason of its own                                *)

\* A request that has its number and is not recorded yet.
Preparing(h) == h # "page" /\ work[h].step \in {"settle", "settled", "record"}

\* Numbers are taken in order, and one that is not recorded yet is nobody else's.
AtTheirMoments ==
  /\ moment >= 1 /\ request.at < moment /\ lastScan <= moment
  /\ \A h \in Handlers : work[h].at < moment /\ work[h].seen.at < moment
  /\ \A h \in Handlers : Preparing(h) =>
       /\ work[h].at # 0 /\ work[h].at # request.at
       /\ \A g \in Handlers : work[g].seen.at # work[h].at
       /\ \A g \in Handlers \ {h} : Preparing(g) => work[g].at # work[h].at

\* Whoever looks at the Maintenance tab asks for nothing.
PageReads == work["page"].step \in {"idle", "settled"}

\* What a handler read of a request, and the outcome it drew from it.
ReadTruly == \A h \in Handlers :
  /\ work[h].seen.late /\ work[h].seen.at = request.at /\ request.status = "requested" => request.late
  /\ work[h].outcome = "failed" =>
       work[h].seen.status = "requested" /\ (work[h].seen.late \/ lastScan > work[h].seen.at)

FailInv == UpdaterTypeOK /\ AtTheirMoments /\ PageReads /\ ReadTruly

\* The numbers of a state, as the provers need them.
LEMMA NumbersTyped ==
  ASSUME UpdaterTypeOK
  PROVE  /\ moment \in Nat /\ lastScan \in Nat /\ request.at \in Nat
         /\ \A h \in Handlers : work[h].at \in Nat /\ work[h].seen.at \in Nat
         /\ \A h \in Handlers : work[h] \in Work
         /\ request \in UpdateRuns /\ work \in [Handlers -> Work]
BY UpdaterBounds DEF UpdaterTypeOK, Work, UpdateRuns, Moments

\* A step that takes no number and records nothing.
LEMMA NumbersKept ==
  ASSUME UpdaterTypeOK, AtTheirMoments, request'.at = request.at, UNCHANGED <<moment, lastScan>>,
         \A h \in Handlers :
           /\ Preparing(h)' => Preparing(h) /\ work'[h].at = work[h].at
           /\ work'[h].at \in {0, work[h].at}
           /\ work'[h].seen.at \in {0, work[h].seen.at, request.at}
  PROVE  AtTheirMoments'
<1>1. moment' >= 1 /\ request'.at < moment' /\ lastScan' <= moment'
  BY DEF AtTheirMoments
<1>2. \A h \in Handlers : work'[h].at < moment' /\ work'[h].seen.at < moment'
  BY NumbersTyped DEF AtTheirMoments
<1>3. ASSUME NEW h \in Handlers, Preparing(h)'
      PROVE  /\ work'[h].at # 0 /\ work'[h].at # request'.at
             /\ \A g \in Handlers : work'[g].seen.at # work'[h].at
             /\ \A g \in Handlers \ {h} : Preparing(g)' => work'[g].at # work'[h].at
  BY <1>3 DEF AtTheirMoments
<1>4. QED
  BY <1>1, <1>2, <1>3 DEF AtTheirMoments

LEMMA AtRestFields ==
  /\ AtRest.at = 0 /\ AtRest.seen = NoRequest /\ AtRest.outcome = "none" /\ AtRest.step = "idle"
  /\ Fired.at = 0 /\ Fired.seen = NoRequest /\ Fired.outcome = "none" /\ Fired.step = "due"
  /\ Arming.at = 0 /\ Arming.seen = NoRequest /\ Arming.outcome = "none" /\ Arming.step = "arm"
  /\ NoRequest.at = 0 /\ ~NoRequest.late
  /\ \A h \in Handlers : /\ Returned(h).at = 0 /\ Returned(h).seen = NoRequest /\ Returned(h).outcome = "none"
                         /\ Returned(h).step = IF h \in Chains THEN "arm" ELSE "idle"
BY DEF AtRest, Fired, Arming, NoRequest, Returned

\* A step that reads nothing either, but goes on, or lets go of what it held.
LEMMA FailKept ==
  ASSUME UpdaterTypeOK, AtTheirMoments, ReadTruly, UNCHANGED <<moment, lastScan>>,
         request'.at = request.at, request.late => request'.late,
         request'.status = "requested" => request.status = "requested",
         \A h \in Handlers :
           \/ /\ work'[h].at = work[h].at /\ work'[h].seen = work[h].seen
              /\ work'[h].outcome = work[h].outcome
              /\ Preparing(h)' => Preparing(h)
           \/ /\ work'[h].at = 0 /\ work'[h].seen = NoRequest /\ work'[h].outcome = "none"
              /\ ~Preparing(h)'
  PROVE  (AtTheirMoments /\ ReadTruly)'
<1>1. AtTheirMoments'
  BY NumbersKept, AtRestFields
<1>2. ASSUME NEW h \in Handlers
      PROVE  /\ work'[h].seen.late /\ work'[h].seen.at = request'.at /\ request'.status = "requested" => request'.late
             /\ work'[h].outcome = "failed" =>
                  work'[h].seen.status = "requested" /\ (work'[h].seen.late \/ lastScan' > work'[h].seen.at)
  BY AtRestFields DEF ReadTruly
<1>3. QED
  BY <1>1, <1>2 DEF ReadTruly

LEMMA NumberTaken ==
  ASSUME UpdaterTypeOK, AtTheirMoments, ReadTruly, NEW h \in Handlers, NEW target, h # "page",
         ~Preparing(h), Asking(h, target), UNCHANGED <<request, lastScan>>
  PROVE  (AtTheirMoments /\ ReadTruly)'
<1>1. /\ work'[h].at = moment /\ work'[h].seen = work[h].seen /\ work'[h].outcome = work[h].outcome
      /\ moment' = moment + 1
      /\ \A g \in Handlers \ {h} : work'[g] = work[g]
  BY NumbersTyped DEF Asking, Work
<1>2. moment' >= 1 /\ request'.at < moment' /\ lastScan' <= moment'
  BY <1>1, NumbersTyped DEF AtTheirMoments
<1>3. \A g \in Handlers : work'[g].at < moment' /\ work'[g].seen.at < moment'
  BY <1>1, NumbersTyped DEF AtTheirMoments
<1>4. \A g \in Handlers : work'[g].seen = work[g].seen
  BY <1>1
<1>5. ASSUME NEW k \in Handlers, Preparing(k)'
      PROVE  /\ work'[k].at # 0 /\ work'[k].at # request'.at
             /\ \A g \in Handlers : work'[g].seen.at # work'[k].at
             /\ \A g \in Handlers \ {k} : Preparing(g)' => work'[g].at # work'[k].at
  <2>1. CASE k = h
    BY <1>1, <1>4, <2>1, NumbersTyped DEF AtTheirMoments
  <2>2. CASE k # h
    <3>1. Preparing(k) /\ work'[k].at = work[k].at
      BY <1>1, <1>5, <2>2 DEF Preparing
    <3>2. \A g \in Handlers \ {h} : Preparing(g)' => Preparing(g) /\ work'[g].at = work[g].at
      BY <1>1 DEF Preparing
    <3>3. work'[h].at # work[k].at
      BY <1>1, <2>2, NumbersTyped DEF AtTheirMoments
    <3>4. QED
      BY <1>4, <3>1, <3>2, <3>3 DEF AtTheirMoments
  <2>3. QED
    BY <2>1, <2>2
<1>6. ReadTruly'
  BY <1>1, <1>4 DEF ReadTruly
<1>7. QED
  BY <1>2, <1>3, <1>5, <1>6 DEF AtTheirMoments

LEMMA PageReadsKept ==
  ASSUME UpdaterTypeOK, PageReads, [UpdaterNext]_updaterVars
  PROVE  PageReads'
<1> USE DEF PageReads
<1>0. /\ "page" \in Handlers /\ "page" \notin Chains
      /\ work \in [Handlers -> Work] /\ \A h \in Handlers : work[h] \in Work
  BY UpdaterAssumption, NumbersTyped DEF Handlers
<1>1. CASE UNCHANGED work
  BY <1>1
<1>2. ASSUME NEW h \in Handlers, Settle(h)
      PROVE  PageReads'
  <2>1. PICK o \in Outcomes(request) :
          work' = [work EXCEPT ![h] = [@ EXCEPT !.step = "settled", !.seen = request, !.outcome = o]]
    BY <1>2 DEF Settle
  <2>2. QED
    BY <1>0, <2>1 DEF Work
<1>3. ASSUME NEW h \in Handlers, Settled(h)
      PROVE  PageReads'
  BY <1>0, <1>3, AtRestFields DEF Settled, Return
<1>4. ASSUME NEW h \in Handlers, Record(h) \/ Post(h) \/ Undo(h)
      PROVE  PageReads'
  BY <1>0, <1>4 DEF Record, Post, Undo, Return, To, Handling
<1>5. ASSUME NEW c \in Chains, Due(c) \/ Claim(c) \/ GiveBack(c) \/ Arm(c) \/ SetTimer(c) \/ Fire(c)
      PROVE  PageReads'
  BY <1>0, <1>5 DEF Due, Claim, AskIfNewer, Asking, GiveBack, Arm, SetTimer, Fire, Return, To
<1>6. ASSUME NEW c \in Chains, Rearm(c)
      PROVE  PageReads'
  BY <1>0, <1>6 DEF Rearm, Rearmed, Work
<1>7. CASE Install
  <2>1. "person" # "page"
    OBVIOUS
  <2>2. QED
    BY <1>0, <1>7, <2>1 DEF Install, Asking
<1>8. CASE Boot \/ Killed \/ Replace
  BY <1>0, <1>8, AtRestFields DEF Boot, Killed, Replace, Stops
<1>9. CASE Save \/ ScanEnds \/ Publish \/ Instant \/ Age
  BY <1>1, <1>9 DEF Save, ScanEnds, Publish, Instant, Age
<1>10. QED
  BY <1>1, <1>2, <1>3, <1>4, <1>5, <1>6, <1>7, <1>8, <1>9 DEF UpdaterNext, updaterVars

LEMMA FailInvKept ==
  ASSUME FailInv, Counted, [UpdaterNext]_updaterVars
  PROVE  (AtTheirMoments /\ ReadTruly)'
<1> USE DEF FailInv
<1>0. /\ \A c \in Chains : c \in Handlers /\ c # "page"
      /\ "person" \in Handlers /\ "page" \notin Chains /\ "person" # "page"
      /\ work \in [Handlers -> Work] /\ \A h \in Handlers : work[h] \in Work
  BY UpdaterAssumption, NumbersTyped DEF Handlers
<1>1. CASE UNCHANGED updaterVars
  BY <1>1 DEF updaterVars, updaterRow, world, AtTheirMoments, ReadTruly, Preparing
<1>2. ASSUME NEW h \in Handlers, Settle(h)
      PROVE  (AtTheirMoments /\ ReadTruly)'
  <2>1. PICK o \in Outcomes(request) :
          work' = [work EXCEPT ![h] = [@ EXCEPT !.step = "settled", !.seen = request, !.outcome = o]]
    BY <1>2 DEF Settle
  <2>2. /\ work'[h].seen = request /\ work'[h].outcome = o /\ work'[h].at = work[h].at
        /\ \A g \in Handlers \ {h} : work'[g] = work[g]
        /\ Preparing(h)' => Preparing(h)
    BY <1>0, <1>2, <2>1 DEF Work, Settle, Preparing, Handling
  <2>3. o = "failed" => request.status = "requested" /\ (request.late \/ lastScan > request.at)
    BY <2>1 DEF Outcomes
  <2>4. UNCHANGED <<request, moment, lastScan>>
    BY <1>2 DEF Settle, updaterRow, world
  <2>5. \A g \in Handlers \ {h} : Preparing(g)' => Preparing(g)
    BY <2>2 DEF Preparing
  <2>6. AtTheirMoments'
    BY <2>2, <2>4, <2>5, NumbersKept
  <2>7. ReadTruly'
    BY <2>2, <2>3, <2>4 DEF ReadTruly
  <2>8. QED
    BY <2>6, <2>7
<1>3. ASSUME NEW h \in Handlers, Settled(h)
      PROVE  (AtTheirMoments /\ ReadTruly)'
  <2>1. /\ request'.at = request.at /\ request'.late = request.late
        /\ request'.status = "requested" => request.status = "requested"
        /\ UNCHANGED <<moment, lastScan>>
    BY <1>0, <1>3, NumbersTyped DEF Settled, UpdateRuns, Work, world
  <2>2. /\ work'[h].seen = NoRequest /\ work'[h].outcome = "none"
        /\ Preparing(h)' => Preparing(h) /\ work'[h].at = work[h].at
        /\ work'[h].at \in {0, work[h].at}
        /\ \A g \in Handlers \ {h} : work'[g] = work[g]
    BY <1>0, <1>3, AtRestFields DEF Settled, Return, Work, Preparing, Handling
  <2>3. \A g \in Handlers \ {h} : Preparing(g)' => Preparing(g)
    BY <2>2 DEF Preparing
  <2>4. AtTheirMoments'
    BY <2>1, <2>2, <2>3, NumbersKept, AtRestFields
  <2>5. ReadTruly'
    BY <2>1, <2>2, AtRestFields DEF ReadTruly
  <2>6. QED
    BY <2>4, <2>5
<1>4. ASSUME NEW h \in Handlers, Record(h)
      PROVE  (AtTheirMoments /\ ReadTruly)'
  <2>1. CASE request.status = "requested"
    <3>1. /\ UNCHANGED <<request, moment, lastScan>> /\ work' = [work EXCEPT ![h] = Returned(h)]
      BY <1>4, <2>1 DEF Record, Return, world
    <3>2. /\ work'[h].at = 0 /\ work'[h].seen = NoRequest /\ work'[h].outcome = "none" /\ ~Preparing(h)'
          /\ \A g \in Handlers \ {h} : work'[g] = work[g]
      BY <1>0, <3>1, AtRestFields DEF Preparing
    <3>3. \A g \in Handlers \ {h} : Preparing(g)' => Preparing(g)
      BY <3>2 DEF Preparing
    <3>4. QED
      BY <3>1, <3>2, <3>3, FailKept
  <2>2. CASE request.status # "requested"
    <3>1. /\ request'.at = work[h].at /\ ~request'.late /\ UNCHANGED <<moment, lastScan>>
          /\ To(h, "post")
      BY <1>4, <2>2 DEF Record, world
    <3>2. /\ work'[h].at = work[h].at /\ work'[h].seen = work[h].seen /\ work'[h].outcome = work[h].outcome
          /\ ~Preparing(h)'
          /\ \A g \in Handlers \ {h} : work'[g] = work[g]
      BY <1>0, <3>1 DEF To, Preparing, Work
    <3>3. h # "page" => Preparing(h)
      BY <1>4 DEF Record, Handling, Preparing
    <3>4. h # "page"
      BY <1>4 DEF Record, Handling, PageReads
    <3>5. \A g \in Handlers : work'[g].seen = work[g].seen /\ work'[g].at = work[g].at
                              /\ work'[g].outcome = work[g].outcome
                              /\ (Preparing(g)' => Preparing(g) /\ g # h)
      BY <3>2 DEF Preparing
    <3>6. moment' >= 1 /\ request'.at < moment' /\ lastScan' <= moment'
      BY <3>1 DEF AtTheirMoments
    <3>7. \A g \in Handlers : work'[g].at < moment' /\ work'[g].seen.at < moment'
      BY <3>1, <3>5 DEF AtTheirMoments
    <3>8. ASSUME NEW k \in Handlers, Preparing(k)'
          PROVE  /\ work'[k].at # 0 /\ work'[k].at # request'.at
                 /\ \A g \in Handlers : work'[g].seen.at # work'[k].at
                 /\ \A g \in Handlers \ {k} : Preparing(g)' => work'[g].at # work'[k].at
      BY <3>1, <3>3, <3>4, <3>5, <3>8 DEF AtTheirMoments
    <3>9. ReadTruly'
      BY <3>1, <3>3, <3>4, <3>5 DEF ReadTruly, AtTheirMoments
    <3>10. QED
      BY <3>6, <3>7, <3>8, <3>9 DEF AtTheirMoments
  <2>3. QED
    BY <2>1, <2>2
<1>5. ASSUME NEW h \in Handlers, Post(h) \/ Undo(h)
      PROVE  (AtTheirMoments /\ ReadTruly)'
  <2>1. h # "page" /\ work[h].step \in {"post", "undo"}
    BY <1>5 DEF Post, Undo, Handling, PageReads
  <2>2. \/ work' = [work EXCEPT ![h] = Returned(h)]
        \/ \E step \in {"undo", "giveback"} : work' = [work EXCEPT ![h] = [@ EXCEPT !.step = step]]
    BY <1>5 DEF Post, Undo, Return, To
  <2>3. /\ \A g \in Handlers \ {h} : work'[g] = work[g]
        /\ \/ /\ work'[h].at = 0 /\ work'[h].seen = NoRequest /\ work'[h].outcome = "none"
              /\ ~Preparing(h)'
           \/ /\ work'[h].at = work[h].at /\ work'[h].seen = work[h].seen
              /\ work'[h].outcome = work[h].outcome /\ ~Preparing(h)'
    <3>1. CASE work' = [work EXCEPT ![h] = Returned(h)]
      BY <1>0, <3>1, AtRestFields DEF Preparing
    <3>2. ASSUME NEW step \in {"undo", "giveback"}, work' = [work EXCEPT ![h] = [@ EXCEPT !.step = step]]
          PROVE  /\ \A g \in Handlers \ {h} : work'[g] = work[g]
                 /\ work'[h].at = work[h].at /\ work'[h].seen = work[h].seen
                 /\ work'[h].outcome = work[h].outcome /\ ~Preparing(h)'
      BY <1>0, <3>2 DEF Preparing, Work
    <3>3. QED
      BY <2>2, <3>1, <3>2
  <2>4. /\ request'.at = request.at /\ request'.late = request.late
        /\ request'.status = "requested" => request.status = "requested"
        /\ UNCHANGED <<moment, lastScan>>
    BY <1>5, NumbersTyped DEF Post, Undo, UpdateRuns, updaterRow, world
  <2>5. \A g \in Handlers \ {h} : Preparing(g)' => Preparing(g)
    BY <2>3 DEF Preparing
  <2>6. QED
    BY <2>3, <2>4, <2>5, FailKept
<1>6. ASSUME NEW c \in Chains,
             Due(c) \/ GiveBack(c) \/ Arm(c) \/ SetTimer(c) \/ Fire(c)
      PROVE  (AtTheirMoments /\ ReadTruly)'
  <2>1. UNCHANGED <<request, moment, lastScan>>
    BY <1>6 DEF Due, GiveBack, Arm, SetTimer, Fire, updaterRow, world
  <2>2. \/ work' = [work EXCEPT ![c].step = "claim", ![c].due = due, ![c].before = claimed, ![c].target = newest]
        \/ work' = [work EXCEPT ![c].step = "set"]
        \/ \E w \in {Returned(c), AtRest, Fired} : work' = [work EXCEPT ![c] = w]
    BY <1>6 DEF Due, GiveBack, Arm, SetTimer, Fire, Return, To
  <2>3. /\ \A g \in Handlers \ {c} : work'[g] = work[g]
        /\ ~Preparing(c)'
        /\ \/ work'[c].at = work[c].at /\ work'[c].seen = work[c].seen /\ work'[c].outcome = work[c].outcome
           \/ work'[c].at = 0 /\ work'[c].seen = NoRequest /\ work'[c].outcome = "none"
    <3>1. CASE work' = [work EXCEPT ![c].step = "claim", ![c].due = due, ![c].before = claimed, ![c].target = newest]
      BY <1>0, <3>1 DEF Preparing, Work
    <3>2. CASE work' = [work EXCEPT ![c].step = "set"]
      BY <1>0, <3>2 DEF Preparing, Work
    <3>3. CASE \E w \in {Returned(c), AtRest, Fired} : work' = [work EXCEPT ![c] = w]
      BY <1>0, <3>3, AtRestFields DEF Preparing
    <3>4. QED
      BY <2>2, <3>1, <3>2, <3>3
  <2>4. \A g \in Handlers \ {c} : Preparing(g)' => Preparing(g)
    BY <2>3 DEF Preparing
  <2>5. QED
    BY <2>1, <2>3, <2>4, FailKept
<1>7. ASSUME NEW c \in Chains, Claim(c)
      PROVE  (AtTheirMoments /\ ReadTruly)'
  <2>1. UNCHANGED <<request, lastScan>> /\ ~Preparing(c)
    BY <1>7 DEF Claim, world, Handling, Preparing
  <2>2. CASE Asking(c, work[c].target)
    BY <1>0, <2>1, <2>2, NumberTaken
  <2>3. CASE ~Asking(c, work[c].target)
    <3>1. UNCHANGED moment /\ work' = [work EXCEPT ![c] = Returned(c)]
      BY <1>7, <2>3 DEF Claim, AskIfNewer, Return
    <3>2. /\ \A g \in Handlers \ {c} : work'[g] = work[g]
          /\ ~Preparing(c)' /\ work'[c].at = 0 /\ work'[c].seen = NoRequest /\ work'[c].outcome = "none"
      BY <1>0, <3>1, AtRestFields DEF Preparing
    <3>3. \A g \in Handlers \ {c} : Preparing(g)' => Preparing(g)
      BY <3>2 DEF Preparing
    <3>4. QED
      BY <2>1, <3>1, <3>2, <3>3, FailKept
  <2>4. QED
    BY <2>2, <2>3
<1>8. ASSUME NEW c \in Chains, Rearm(c)
      PROVE  (AtTheirMoments /\ ReadTruly)'
  <2>1. UNCHANGED <<request, moment, lastScan>> /\ work' = Rearmed(c)
    BY <1>8 DEF Rearm, world
  <2>2. \A g \in Handlers \ {c} : /\ work'[g].at = work[g].at /\ work'[g].seen = work[g].seen
                                 /\ work'[g].outcome = work[g].outcome /\ work'[g].step = work[g].step
    BY <1>0, <2>1 DEF Rearmed, Work
  <2>3. ~Preparing(c)' /\ work'[c].at = 0 /\ work'[c].seen = NoRequest /\ work'[c].outcome = "none"
    BY <1>0, <2>1, AtRestFields DEF Rearmed, Preparing
  <2>4. \A g \in Handlers \ {c} : Preparing(g)' => Preparing(g)
    BY <2>2 DEF Preparing
  <2>5. QED
    BY <2>1, <2>2, <2>3, <2>4, FailKept
<1>9. CASE Install
  <2>1. PICK target \in release + 1..newest : Asking("person", target)
    BY <1>9 DEF Install
  <2>2. UNCHANGED <<request, lastScan>> /\ ~Preparing("person")
    BY <1>9 DEF Install, updaterRow, world, Handling, Preparing
  <2>3. QED
    BY <1>0, <2>1, <2>2, NumberTaken
<1>10. CASE Boot \/ Killed \/ Replace
  <2>1. UNCHANGED <<request, moment, lastScan>>
    BY <1>10 DEF Boot, Killed, Replace, updaterRow
  <2>2. \A g \in Handlers : \/ work'[g] = AtRest \/ work'[g] = work[g]
                            \/ g \in Chains /\ work'[g] = Fired
    BY <1>0, <1>10 DEF Boot, Killed, Replace, Stops
  <2>3. ASSUME NEW g \in Handlers
        PROVE  \/ work'[g] = work[g] /\ (Preparing(g)' => Preparing(g))
               \/ /\ work'[g].at = 0 /\ work'[g].seen = NoRequest /\ work'[g].outcome = "none"
                  /\ ~Preparing(g)'
    BY <2>2, AtRestFields DEF Preparing
  <2>4. QED
    BY <2>1, <2>3, FailKept
<1>11. CASE ScanEnds
  <2>1. UNCHANGED <<request, work, moment>> /\ lastScan' = moment
    BY <1>11 DEF ScanEnds, updaterRow
  <2>2. QED
    BY <2>1, NumbersTyped DEF AtTheirMoments, ReadTruly, Preparing
<1>12. CASE Save \/ Publish \/ Instant
  <2>1. UNCHANGED <<request, work, moment, lastScan>>
    BY <1>12 DEF Save, Publish, Instant, updaterRow
  <2>2. QED
    BY <2>1 DEF AtTheirMoments, ReadTruly, Preparing
<1>13. CASE Age
  <2>1. /\ request'.at = request.at /\ request'.status = request.status /\ request'.late
        /\ UNCHANGED <<work, moment, lastScan>>
    BY <1>13, NumbersTyped DEF Age, UpdateRuns, world
  <2>2. QED
    BY <2>1 DEF AtTheirMoments, ReadTruly, Preparing
<1>14. QED
  BY <1>1, <1>2, <1>3, <1>4, <1>5, <1>6, <1>7, <1>8, <1>9, <1>10, <1>11, <1>12, <1>13 DEF UpdaterNext

LEMMA FailStep ==
  ASSUME FailInv, [UpdaterNext]_updaterVars, request.status = "requested", request'.status = "failed"
  PROVE  \/ lastScan > request.at \/ request.late
         \/ \E h \in Handlers : Handling(h, "undo") /\ work[h].at = request.at
<1>1. CASE UNCHANGED request
  BY <1>1
<1>2. ASSUME NEW h \in Handlers, Settled(h)
      PROVE  lastScan > request.at \/ request.late
  <2>1. work[h].outcome = "failed" /\ SettlesRead(work[h].seen)
    BY <1>2, NumbersTyped DEF FailInv, Settled, UpdateRuns
  <2>2. QED
    BY <2>1 DEF FailInv, ReadTruly, SettlesRead
<1>3. ASSUME NEW h \in Handlers, Undo(h)
      PROVE  Handling(h, "undo") /\ work[h].at = request.at
  BY <1>3 DEF Undo
<1>4. ASSUME NEW h \in Handlers, Record(h)
      PROVE  FALSE
  BY <1>4 DEF Record
<1>5. CASE Age
  BY <1>5, NumbersTyped DEF FailInv, Age, UpdateRuns
<1>6. ASSUME NEW h \in Handlers, Settle(h) \/ Post(h)
      PROVE  UNCHANGED request
  BY <1>6 DEF Settle, Post, updaterRow
<1>7. ASSUME NEW c \in Chains, Due(c) \/ Claim(c) \/ GiveBack(c) \/ Arm(c) \/ SetTimer(c) \/ Fire(c) \/ Rearm(c)
      PROVE  UNCHANGED request
  BY <1>7 DEF Due, Claim, GiveBack, Arm, SetTimer, Fire, Rearm, updaterRow
<1>8. CASE Install \/ Save \/ Boot \/ Killed \/ Replace \/ ScanEnds \/ Publish \/ Instant
  BY <1>1, <1>8 DEF Install, Save, Boot, Killed, Replace, ScanEnds, Publish, Instant, updaterRow
<1>9. QED
  BY <1>1, <1>2, <1>3, <1>4, <1>5, <1>6, <1>7, <1>8 DEF UpdaterNext, updaterVars, updaterRow

\* A request is called failed only for a reason of its own, for any number of
\* chains and instants, whatever people save, publish or kill meanwhile.
THEOREM RequestsFailForThemselves == UpdaterSpec => FailsForItself
<1>1. UpdaterInit => FailInv /\ Counted
  <2>1. UpdaterInit => \A h \in Handlers : work[h] = AtRest
    BY DEF UpdaterInit
  <2>2. UpdaterInit => PageReads
    BY <2>1, AtRestFields DEF PageReads, Handlers
  <2>3. UpdaterInit => AtTheirMoments
    BY <2>1, AtRestFields DEF UpdaterInit, AtTheirMoments, Preparing
  <2>4. UpdaterInit => ReadTruly
    BY <2>1, AtRestFields DEF ReadTruly
  <2>5. QED
    BY <2>2, <2>3, <2>4, UpdaterStarts DEF FailInv
<1>2. FailInv /\ Counted /\ [UpdaterNext]_updaterVars => (FailInv /\ Counted)'
  BY FailInvKept, PageReadsKept, UpdaterTypesKept DEF FailInv
<1>3. FailInv /\ [UpdaterNext]_updaterVars =>
        [request.status = "requested" /\ request'.status = "failed" =>
           \/ lastScan > request.at \/ request.late
           \/ \E h \in Handlers : Handling(h, "undo") /\ work[h].at = request.at]_updaterVars
  BY FailStep
<1>4. QED
  BY <1>1, <1>2, <1>3, PTL DEF UpdaterSpec, FailsForItself

----------------------------------------------------------------------------
(* The timer follows the schedule                                          *)

\* A process that is not up holds nothing.
NothingHeld == ~up => ~armed /\ ~saving /\ \A c \in Chains : work[c].step = "idle"

\* The chain that is to set the timer is under way.
CurrentGoOn == \A c \in Chains : work[c].current => work[c].step # "idle"

\* Unless a save is still to re-arm, the timer, and a chain about to set it, are
\* the schedule's; and if neither is there, a chain will see to it.
TimerCared ==
  up /\ ~saving =>
    /\ armed => scheduled
    /\ \A c \in Chains : work[c].step = "set" /\ work[c].current => scheduled
    /\ scheduled => armed \/ \E c \in Chains : work[c].current

TimerInv == NothingHeld /\ CurrentGoOn /\ TimerCared

\* A step of a chain that stays what it was to the timer.
LEMMA TimerKept ==
  ASSUME TimerInv, up, UNCHANGED <<up, armed, saving, scheduled>>,
         \A c \in Chains :
           /\ work'[c].current = work[c].current
           /\ work'[c].step = "idle" => ~work[c].current
           /\ work'[c].step = "set" => work[c].step = "set"
  PROVE  TimerInv'
BY DEF TimerInv, NothingHeld, CurrentGoOn, TimerCared

\* What a step makes of its handler's work, and of the others'.
LEMMA OthersWork ==
  ASSUME NEW h \in Handlers, work \in [Handlers -> Work]
  PROVE  /\ Return(h) => work'[h] = Returned(h) /\ \A g \in Handlers \ {h} : work'[g] = work[g]
         /\ \A step \in HandlerSteps : To(h, step) =>
              /\ work'[h].step = step /\ work'[h].current = work[h].current
              /\ work'[h].due = work[h].due /\ work'[h].before = work[h].before
              /\ \A g \in Handlers \ {h} : work'[g] = work[g]
         /\ \A target : Asking(h, target) =>
              /\ work'[h].step = "settle" /\ work'[h].current = work[h].current
              /\ work'[h].due = work[h].due /\ work'[h].before = work[h].before
              /\ \A g \in Handlers \ {h} : work'[g] = work[g]
<1>0. work[h] \in Work
  OBVIOUS
<1>1. Return(h) => work'[h] = Returned(h) /\ \A g \in Handlers \ {h} : work'[g] = work[g]
  BY DEF Return
<1>2. ASSUME NEW step \in HandlerSteps, To(h, step)
      PROVE  /\ work'[h].step = step /\ work'[h].current = work[h].current
             /\ work'[h].due = work[h].due /\ work'[h].before = work[h].before
             /\ \A g \in Handlers \ {h} : work'[g] = work[g]
  BY <1>0, <1>2 DEF To, Work
<1>3. ASSUME NEW target, Asking(h, target)
      PROVE  /\ work'[h].step = "settle" /\ work'[h].current = work[h].current
             /\ work'[h].due = work[h].due /\ work'[h].before = work[h].before
             /\ \A g \in Handlers \ {h} : work'[g] = work[g]
  BY <1>0, <1>3 DEF Asking, Work
<1>4. QED
  BY <1>1, <1>2, <1>3

LEMMA ReturnedFields ==
  ASSUME NEW c \in Chains
  PROVE  /\ Returned(c).step = "arm" /\ Returned(c).current = work[c].current
         /\ AtRest.step = "idle" /\ AtRest.current = FALSE
         /\ Fired.step = "due" /\ Fired.current = TRUE
         /\ Arming.step = "arm" /\ Arming.current = TRUE
BY DEF Returned, AtRest, Fired, Arming

LEMMA TimerInvKept ==
  ASSUME UpdaterTypeOK, TimerInv, [UpdaterNext]_updaterVars
  PROVE  TimerInv'
<1> USE DEF TimerInv
<1>0. /\ \A c \in Chains : c \in Handlers /\ c # "person" /\ c # "page"
      /\ "person" \in Handlers /\ "page" \in Handlers
      /\ work \in [Handlers -> Work] /\ (\A h \in Handlers : work[h] \in Work)
  BY UpdaterAssumption, NumbersTyped DEF Handlers
<1>1. CASE UNCHANGED updaterVars
  BY <1>1 DEF updaterVars, updaterRow, world, NothingHeld, CurrentGoOn, TimerCared
<1>2. ASSUME NEW h \in Handlers, Settle(h) \/ Settled(h) \/ Record(h) \/ Post(h) \/ Undo(h)
      PROVE  TimerInv'
  <2>1. up /\ UNCHANGED <<up, armed, saving, scheduled>>
    BY <1>2 DEF Settle, Settled, Record, Post, Undo, Handling, updaterRow, world
  <2>2. h \in Chains => work[h].step # "idle"
    BY <1>2, <1>0 DEF Settle, Settled, Record, Post, Undo, Handling
  <2>3. \/ work'[h] = Returned(h)
        \/ work'[h].current = work[h].current /\ work'[h].step \notin {"idle", "set"}
    <3>1. CASE Settle(h)
      BY <1>0, <3>1 DEF Settle, Work
    <3>2. CASE Settled(h)
      <4>1. CASE h = "page"
        BY <1>0, <3>2, <4>1, OthersWork DEF Settled
      <4>2. CASE h # "page"
        BY <1>0, <3>2, <4>2 DEF Settled, Work
      <4>3. QED
        BY <4>1, <4>2
    <3>3. CASE Record(h) \/ Post(h) \/ Undo(h)
      <4>1. Return(h) \/ \E step \in {"post", "undo", "giveback"} : To(h, step)
        BY <3>3 DEF Record, Post, Undo
      <4>2. QED
        BY <1>0, <4>1, OthersWork DEF HandlerSteps
    <3>4. QED
      BY <1>2, <3>1, <3>2, <3>3
  <2>4. \A g \in Handlers \ {h} : work'[g] = work[g]
    BY <1>0, <1>2, OthersWork DEF Settle, Settled, Record, Post, Undo, HandlerSteps
  <2>5. ASSUME NEW c \in Chains
        PROVE  /\ work'[c].current = work[c].current
               /\ work'[c].step = "idle" => ~work[c].current
               /\ work'[c].step = "set" => work[c].step = "set"
    BY <1>0, <2>2, <2>3, <2>4, ReturnedFields DEF CurrentGoOn
  <2>6. QED
    BY <2>1, <2>5, TimerKept
<1>3. ASSUME NEW c \in Chains, Due(c) \/ Claim(c) \/ GiveBack(c)
      PROVE  TimerInv'
  <2>1. up /\ UNCHANGED <<up, armed, saving, scheduled>>
    BY <1>3 DEF Due, Claim, GiveBack, Handling, updaterRow, world
  <2>2. \/ work'[c] = Returned(c)
        \/ work'[c].current = work[c].current /\ work'[c].step \notin {"idle", "set"}
    <3>1. CASE Due(c)
      <4>1. \/ Return(c)
            \/ work' = [work EXCEPT ![c].step = "claim", ![c].due = due, ![c].before = claimed, ![c].target = newest]
        BY <3>1 DEF Due
      <4>2. QED
        BY <1>0, <4>1, OthersWork DEF Work
    <3>2. CASE Claim(c) \/ GiveBack(c)
      <4>1. Return(c) \/ Asking(c, work[c].target)
        BY <3>2 DEF Claim, GiveBack, AskIfNewer
      <4>2. QED
        BY <1>0, <4>1, OthersWork
    <3>3. QED
      BY <1>3, <3>1, <3>2
  <2>3. \A g \in Handlers \ {c} : work'[g] = work[g]
    BY <1>0, <1>3, OthersWork DEF Due, Claim, GiveBack, AskIfNewer
  <2>4. work[c].step # "idle"
    BY <1>3 DEF Due, Claim, GiveBack, Handling
  <2>5. ASSUME NEW d \in Chains
        PROVE  /\ work'[d].current = work[d].current
               /\ work'[d].step = "idle" => ~work[d].current
               /\ work'[d].step = "set" => work[d].step = "set"
    BY <1>0, <2>2, <2>3, <2>4, ReturnedFields DEF CurrentGoOn
  <2>6. QED
    BY <2>1, <2>5, TimerKept
<1>4. ASSUME NEW c \in Chains, Arm(c)
      PROVE  TimerInv'
  <2>1. up /\ UNCHANGED <<up, armed, saving, scheduled>>
    BY <1>4 DEF Arm, Handling, updaterRow, world
  <2>2. \A g \in Chains \ {c} : work'[g] = work[g]
    BY <1>0, <1>4, OthersWork DEF Arm, HandlerSteps
  <2>3. IF scheduled THEN work'[c].step = "set" /\ work'[c].current = work[c].current
                     ELSE work'[c].step = "idle" /\ work'[c].current = FALSE
    <3>1. CASE scheduled
      <4>1. To(c, "set")
        BY <1>4, <3>1 DEF Arm
      <4>2. QED
        BY <1>0, <3>1, <4>1, OthersWork DEF HandlerSteps
    <3>2. CASE ~scheduled
      BY <1>0, <1>4, <3>2, ReturnedFields DEF Arm
    <3>3. QED
      BY <3>1, <3>2
  <2>4. QED
    BY <2>1, <2>2, <2>3 DEF NothingHeld, CurrentGoOn, TimerCared
<1>5. ASSUME NEW c \in Chains, SetTimer(c)
      PROVE  TimerInv'
  <2>1. /\ up /\ UNCHANGED <<up, saving, scheduled>> /\ armed' = (armed \/ work[c].current)
        /\ work[c].step = "set"
    BY <1>5 DEF SetTimer, Handling, updaterRow, world
  <2>2. work'[c].step = "idle" /\ ~work'[c].current /\ \A g \in Chains \ {c} : work'[g] = work[g]
    BY <1>0, <1>5, ReturnedFields DEF SetTimer
  <2>3. QED
    BY <2>1, <2>2 DEF NothingHeld, CurrentGoOn, TimerCared
<1>6. ASSUME NEW c \in Chains, Fire(c)
      PROVE  TimerInv'
  <2>1. /\ up /\ UNCHANGED <<up, saving, scheduled>> /\ armed /\ ~armed'
        /\ work'[c].step = "due" /\ work'[c].current /\ \A g \in Chains \ {c} : work'[g] = work[g]
    BY <1>0, <1>6, ReturnedFields DEF Fire, Handling, updaterRow, world
  <2>2. QED
    BY <2>1 DEF NothingHeld, CurrentGoOn, TimerCared
<1>7. ASSUME NEW c \in Chains, Rearm(c)
      PROVE  TimerInv'
  <2>1. up /\ UNCHANGED <<up, scheduled>> /\ ~armed' /\ work' = Rearmed(c)
    BY <1>7 DEF Rearm, Handling, world
  <2>2. /\ work'[c].step = "arm" /\ work'[c].current
        /\ \A g \in Chains \ {c} : ~work'[g].current
    BY <1>0, <2>1, ReturnedFields DEF Rearmed, Work
  <2>3. QED
    BY <2>1, <2>2 DEF NothingHeld, CurrentGoOn, TimerCared
<1>8. CASE Install
  <2>1. PICK target \in release + 1..newest : Asking("person", target)
    BY <1>8 DEF Install
  <2>2. \A c \in Chains : work'[c] = work[c]
    BY <1>0, <2>1, OthersWork
  <2>3. up /\ UNCHANGED <<up, armed, saving, scheduled>>
    BY <1>8 DEF Install, Handling, updaterRow, world
  <2>4. QED
    BY <2>2, <2>3, TimerKept DEF CurrentGoOn
<1>9. CASE Save
  BY <1>9 DEF Save, NothingHeld, CurrentGoOn, TimerCared
<1>10. CASE Boot
  <2>1. PICK c \in Chains : work' = [work EXCEPT ![c] = Fired]
    BY <1>10 DEF Boot
  <2>2. /\ work'[c].step = "due" /\ work'[c].current /\ \A g \in Chains \ {c} : work'[g] = work[g]
        /\ ~up /\ up' /\ UNCHANGED <<armed, saving, scheduled>>
    BY <1>0, <1>10, <2>1, ReturnedFields DEF Boot, updaterRow
  <2>3. QED
    BY <2>2 DEF NothingHeld, CurrentGoOn, TimerCared
<1>11. CASE Killed \/ Replace
  <2>1. ~up' /\ ~armed' /\ ~saving' /\ \A c \in Chains : work'[c] = AtRest
    BY <1>0, <1>11 DEF Killed, Replace, Stops
  <2>2. QED
    BY <2>1, AtRestFields DEF NothingHeld, CurrentGoOn, TimerCared, AtRest
<1>12. CASE ScanEnds \/ Publish \/ Instant \/ Age
  <2>1. UNCHANGED <<up, armed, saving, scheduled, work>>
    BY <1>12 DEF ScanEnds, Publish, Instant, Age, updaterRow, world
  <2>2. QED
    BY <2>1 DEF NothingHeld, CurrentGoOn, TimerCared
<1>13. QED
  BY <1>1, <1>2, <1>3, <1>4, <1>5, <1>6, <1>7, <1>8, <1>9, <1>10, <1>11, <1>12 DEF UpdaterNext

\* At rest the timer is set exactly when the schedule is on, however many
\* chains, saves and restarts fall between.
THEOREM TimerIsTheSchedules == UpdaterSpec => []TimerFollowsSchedule
<1>1. UpdaterInit => TimerInv
  BY AtRestFields, UpdaterAssumption
     DEF UpdaterInit, TimerInv, NothingHeld, CurrentGoOn, TimerCared, Handlers, AtRest
<1>2. UpdaterTypeOK /\ TimerInv /\ [UpdaterNext]_updaterVars => TimerInv'
  BY TimerInvKept
<1>3. TimerInv => TimerFollowsSchedule
  BY DEF TimerInv, CurrentGoOn, TimerCared, TimerFollowsSchedule
<1>4. QED
  BY <1>1, <1>2, <1>3, UpdaterTypes, PTL DEF UpdaterSpec

----------------------------------------------------------------------------
(* The schedule asks once for an instant                                   *)

\* A chain that claimed an instant and may still give it back, before its
\* request is recorded and after.
Holds(c)  == work[c].step \in {"settle", "settled", "record"}
Asked(c)  == work[c].step \in {"post", "undo", "giveback"}
Holder(c) == Holds(c) \/ Asked(c)

\* What is asked for is claimed, once.
ClaimedAsked == \A s \in Slots : asked[s] \in {0, 1} /\ (asked[s] = 1 => s <= claimed)

\* What a chain holds is claimed, after what it would give back; an instant
\* between the two was neither asked for nor is it held.
HeldApart == \A c \in Chains : Holder(c) =>
  /\ work[c].due <= claimed /\ work[c].before < work[c].due
  /\ asked[work[c].due] = IF Asked(c) THEN 1 ELSE 0
  /\ \A s \in Slots : work[c].before < s /\ s < work[c].due => asked[s] = 0
  /\ \A d \in Chains \ {c} : Holder(d) =>
       work[d].due # work[c].due /\ ~(work[c].before < work[d].due /\ work[d].due < work[c].due)

OnceInv == ~overtaken => ClaimedAsked /\ HeldApart

\* The instants of a state, as the provers need them.
LEMMA InstantsTyped ==
  ASSUME UpdaterTypeOK
  PROVE  /\ claimed \in Slots /\ due \in Slots /\ Slots \subseteq Nat
         /\ asked \in [Slots -> Int]
         /\ work \in [Handlers -> Work]
         /\ \A c \in Chains : c \in Handlers /\ work[c].due \in Slots /\ work[c].before \in Slots
BY UpdaterBounds DEF UpdaterTypeOK, Work, Slots, Handlers

\* A step that neither claims nor asks: a chain goes on with what it holds, or lets go.
LEMMA OnceKept ==
  ASSUME OnceInv, UNCHANGED <<claimed, asked, overtaken>>,
         \A c \in Chains :
           \/ ~Holder(c)'
           \/ /\ work'[c].due = work[c].due /\ work'[c].before = work[c].before
              /\ (Holds(c)' <=> Holds(c)) /\ (Asked(c)' <=> Asked(c))
  PROVE  OnceInv'
<1>1. CASE overtaken
  BY <1>1 DEF OnceInv
<1>2. CASE ~overtaken
  <2>1. ClaimedAsked'
    BY <1>2 DEF OnceInv, ClaimedAsked
  <2>2. ASSUME NEW c \in Chains, Holder(c)'
        PROVE  /\ Holder(c) /\ (Asked(c)' <=> Asked(c))
               /\ work'[c].due = work[c].due /\ work'[c].before = work[c].before
    BY <2>2 DEF Holder
  <2>3. HeldApart
    BY <1>2 DEF OnceInv
  <2>4. HeldApart'
    BY <2>2, <2>3 DEF HeldApart
  <2>5. QED
    BY <2>1, <2>4 DEF OnceInv
<1>3. QED
  BY <1>1, <1>2

\* An instant later than any claimed is claimed by a chain that read the last claim.
LEMMA ClaimOnce ==
  ASSUME UpdaterTypeOK, OnceInv, NEW c \in Chains, Claim(c)
  PROVE  OnceInv'
<1>0. /\ c \in Handlers /\ work \in [Handlers -> Work] /\ work[c].step = "claim"
      /\ claimed \in Nat /\ work[c].due \in Nat /\ work[c].before \in Nat
      /\ work[c].due \in Slots /\ work[c].before \in Slots
      /\ Slots \subseteq Nat /\ Chains \subseteq Handlers
      /\ UNCHANGED asked
      /\ \A d \in Chains : work[d].due \in Nat /\ work[d].before \in Nat
  BY InstantsTyped DEF Claim, Handling
<1>1. \A d \in Chains \ {c} : work'[d] = work[d]
  BY <1>0, OthersWork DEF Claim, AskIfNewer
<1>2. CASE ~(claimed < work[c].due)
  <2>1. UNCHANGED <<claimed, asked, overtaken>> /\ work'[c] = Returned(c)
    BY <1>0, <1>2, OthersWork DEF Claim
  <2>2. ~Holder(c)'
    BY <2>1, ReturnedFields DEF Holder, Holds, Asked
  <2>3. QED
    BY <1>1, <2>1, <2>2, OnceKept DEF Holder, Holds, Asked
<1>3. CASE claimed < work[c].due /\ overtaken'
  BY <1>3 DEF OnceInv
<1>4. CASE claimed < work[c].due /\ ~overtaken'
  <2>1. claimed' = work[c].due /\ ~overtaken /\ claimed = work[c].before /\ ClaimedAsked /\ HeldApart
    BY <1>4 DEF Claim, OnceInv
  <2>2. work'[c] = Returned(c) \/ (work'[c].step = "settle" /\ work'[c].due = work[c].due
                                   /\ work'[c].before = work[c].before)
    BY <1>0, <1>4, OthersWork DEF Claim, AskIfNewer
  <2>3. ~Asked(c)' /\ (Holder(c)' => work'[c].due = claimed' /\ work'[c].before = claimed)
    BY <2>1, <2>2, ReturnedFields DEF Holder, Holds, Asked
  <2>4. \A d \in Chains \ {c} : (Holder(d)' <=> Holder(d)) /\ (Asked(d)' <=> Asked(d))
    BY <1>1 DEF Holder, Holds, Asked
  <2>5. ClaimedAsked'
    BY <1>0, <1>4, <2>1 DEF ClaimedAsked
  <2>6. \A s \in Slots : claimed < s => asked[s] = 0
    BY <1>0, <2>1 DEF ClaimedAsked
  <2>7. \A d \in Chains \ {c} : Holder(d)' => Holder(d) /\ work'[d].due <= claimed
    BY <1>1, <2>1, <2>4 DEF HeldApart
  <2>8. ASSUME NEW d \in Chains, Holder(d)'
        PROVE  /\ work'[d].due <= claimed' /\ work'[d].before < work'[d].due
               /\ asked'[work'[d].due] = IF Asked(d)' THEN 1 ELSE 0
               /\ \A s \in Slots : work'[d].before < s /\ s < work'[d].due => asked'[s] = 0
               /\ \A e \in Chains \ {d} : Holder(e)' =>
                    /\ work'[e].due # work'[d].due
                    /\ ~(work'[d].before < work'[e].due /\ work'[e].due < work'[d].due)
    <3>1. CASE d = c
      <4>1. work'[d].due = claimed' /\ work'[d].before = claimed /\ claimed < claimed' /\ ~Asked(d)'
        BY <1>4, <2>1, <2>3, <2>8, <3>1
      <4>2. asked'[work'[d].due] = 0 /\ \A s \in Slots : claimed < s => asked'[s] = 0
        BY <1>0, <1>4, <2>1, <2>6, <4>1
      <4>3. \A e \in Chains \ {d} : Holder(e)' => work'[e].due <= claimed /\ work'[e].due \in Nat
        BY <1>0, <1>1, <2>7, <3>1
      <4>4. QED
        BY <1>0, <1>4, <2>1, <4>1, <4>2, <4>3
    <3>2. CASE d # c
      <4>1. work'[d] = work[d] /\ Holder(d) /\ (Asked(d)' <=> Asked(d)) /\ work[d].due <= claimed
        BY <1>1, <2>4, <2>7, <2>8, <3>2
      <4>2. /\ work[d].before < work[d].due
            /\ asked[work[d].due] = IF Asked(d) THEN 1 ELSE 0
            /\ \A s \in Slots : work[d].before < s /\ s < work[d].due => asked[s] = 0
            /\ \A e \in Chains \ {d} : Holder(e) =>
                 /\ work[e].due # work[d].due
                 /\ ~(work[d].before < work[e].due /\ work[e].due < work[d].due)
        BY <2>1, <4>1 DEF HeldApart
      <4>3. ASSUME NEW e \in Chains \ {d}, Holder(e)'
            PROVE  /\ work'[e].due # work[d].due
                   /\ ~(work[d].before < work'[e].due /\ work'[e].due < work[d].due)
        <5>1. CASE e = c
          BY <1>0, <1>4, <2>1, <2>3, <4>1, <4>3, <5>1
        <5>2. CASE e # c
          BY <1>1, <2>7, <4>2, <4>3, <5>2
        <5>3. QED
          BY <5>1, <5>2
      <4>4. work[d].due <= claimed'
        BY <1>0, <1>4, <2>1, <4>1
      <4>5. QED
        BY <1>0, <4>1, <4>2, <4>3, <4>4
    <3>3. QED
      BY <3>1, <3>2
  <2>9. HeldApart'
    BY <2>8 DEF HeldApart
  <2>10. QED
    BY <2>5, <2>9 DEF OnceInv
<1>5. QED
  BY <1>2, <1>3, <1>4

\* Its request is recorded, or one is under way and it asks for nothing.
LEMMA RecordOnce ==
  ASSUME UpdaterTypeOK, OnceInv, NEW h \in Handlers, Record(h)
  PROVE  OnceInv'
<1>0. /\ work \in [Handlers -> Work] /\ Chains \subseteq Handlers /\ work[h].step = "record"
      /\ asked \in [Slots -> Int] /\ UNCHANGED <<claimed, overtaken>>
      /\ \A d \in Chains : work[d].due \in Slots
  BY InstantsTyped DEF Record, Handling
<1>1. \A d \in Chains \ {h} : work'[d] = work[d]
  BY <1>0, OthersWork DEF Record, HandlerSteps
<1>2. CASE UNCHANGED asked /\ (h \in Chains => ~Holder(h)')
  BY <1>0, <1>1, <1>2, OnceKept DEF Holder, Holds, Asked
<1>3. CASE request.status = "requested"
  <2>1. UNCHANGED asked /\ work'[h] = Returned(h)
    BY <1>0, <1>3, OthersWork DEF Record
  <2>2. QED
    BY <1>2, <2>1, ReturnedFields DEF Holder, Holds, Asked
<1>4. CASE h \notin Chains
  BY <1>1, <1>2, <1>4 DEF Record, Made
<1>5. CASE overtaken
  BY <1>0, <1>5 DEF OnceInv
<1>6. CASE request.status # "requested" /\ h \in Chains /\ ~overtaken
  <2>0. ClaimedAsked /\ HeldApart
    BY <1>6 DEF OnceInv
  <2>1. /\ asked' = [asked EXCEPT ![work[h].due] = @ + 1] /\ work'[h].step = "post"
        /\ work'[h].due = work[h].due /\ work'[h].before = work[h].before
    BY <1>0, <1>6, OthersWork DEF Record, Made, HandlerSteps
  <2>2. Holder(h) /\ ~Asked(h) /\ Holder(h)' /\ Asked(h)'
    BY <1>0, <2>1 DEF Holder, Holds, Asked
  <2>3. asked[work[h].due] = 0 /\ work[h].due \in Slots /\ work[h].due <= claimed
    BY <1>0, <1>6, <2>0, <2>2 DEF HeldApart
  <2>4. asked'[work[h].due] = 1 /\ \A s \in Slots \ {work[h].due} : asked'[s] = asked[s]
    BY <1>0, <2>1, <2>3
  <2>5. ClaimedAsked'
    BY <1>0, <2>0, <2>3, <2>4 DEF ClaimedAsked
  <2>6. \A d \in Chains : /\ Holder(d)' <=> Holder(d)
                          /\ d # h => (Asked(d)' <=> Asked(d))
                          /\ work'[d].due = work[d].due /\ work'[d].before = work[d].before
    BY <1>1, <2>1, <2>2 DEF Holder, Holds, Asked
  <2>7. ASSUME NEW d \in Chains, Holder(d)
        PROVE  /\ asked'[work[d].due] = IF Asked(d)' THEN 1 ELSE 0
               /\ \A s \in Slots : work[d].before < s /\ s < work[d].due => asked'[s] = 0
    <3>1. CASE d = h
      BY <1>6, <2>0, <2>2, <2>4, <2>7, <3>1, InstantsTyped DEF HeldApart
    <3>2. CASE d # h
      <4>1. work[h].due # work[d].due /\ ~(work[d].before < work[h].due /\ work[h].due < work[d].due)
        BY <1>6, <2>0, <2>2, <2>7, <3>2 DEF HeldApart
      <4>2. /\ asked[work[d].due] = IF Asked(d) THEN 1 ELSE 0
            /\ \A s \in Slots : work[d].before < s /\ s < work[d].due => asked[s] = 0
        BY <2>0, <2>7 DEF HeldApart
      <4>3. QED
        BY <1>0, <2>4, <2>6, <3>2, <4>1, <4>2
    <3>3. QED
      BY <3>1, <3>2
  <2>8. HeldApart'
    BY <1>0, <2>0, <2>6, <2>7 DEF HeldApart
  <2>9. QED
    BY <2>5, <2>8 DEF OnceInv
<1>7. QED
  BY <1>3, <1>4, <1>5, <1>6

\* An instant is given back to the claim before it.
LEMMA GiveBackOnce ==
  ASSUME UpdaterTypeOK, OnceInv, NEW c \in Chains, GiveBack(c)
  PROVE  OnceInv'
<1>0. /\ c \in Handlers /\ work \in [Handlers -> Work] /\ Chains \subseteq Handlers
      /\ work[c].step = "giveback" /\ asked \in [Slots -> Int] /\ UNCHANGED overtaken
      /\ work[c].due \in Slots /\ \A s \in Slots : s \in Nat
      /\ work[c].due \in Nat /\ work[c].before \in Nat /\ claimed \in Nat
      /\ \A d \in Chains : work[d].due \in Nat /\ work[d].due \in Slots
  BY InstantsTyped DEF GiveBack, Handling
<1>1. work'[c] = Returned(c) /\ \A d \in Chains \ {c} : work'[d] = work[d]
  BY <1>0, OthersWork DEF GiveBack
<1>2. ~Holder(c)' /\ Holder(c) /\ Asked(c)
  BY <1>0, <1>1, ReturnedFields DEF Holder, Holds, Asked
<1>3. CASE overtaken
  BY <1>0, <1>3 DEF OnceInv
<1>4. CASE claimed # work[c].due
  BY <1>0, <1>1, <1>2, <1>4, OnceKept DEF GiveBack, Holder, Holds, Asked
<1>5. CASE claimed = work[c].due /\ ~overtaken
  <2>0. ClaimedAsked /\ HeldApart
    BY <1>5 DEF OnceInv
  <2>1. claimed' = work[c].before /\ asked' = [asked EXCEPT ![work[c].due] = @ - 1]
    BY <1>5 DEF GiveBack
  <2>2. /\ asked[work[c].due] = 1 /\ work[c].before < work[c].due
        /\ \A s \in Slots : work[c].before < s /\ s < work[c].due => asked[s] = 0
        /\ \A d \in Chains \ {c} : Holder(d) =>
             work[d].due # work[c].due /\ ~(work[c].before < work[d].due /\ work[d].due < work[c].due)
    BY <1>2, <2>0 DEF HeldApart
  <2>3. asked'[work[c].due] = 0 /\ \A s \in Slots \ {work[c].due} : asked'[s] = asked[s]
    BY <1>0, <2>1, <2>2
  <2>4. ClaimedAsked'
    <3>1. ASSUME NEW s \in Slots
          PROVE  asked'[s] \in {0, 1} /\ (asked'[s] = 1 => s # work[c].due /\ asked[s] = 1 /\ s <= claimed)
      BY <2>0, <2>3 DEF ClaimedAsked
    <3>2. ASSUME NEW s \in Slots, asked'[s] = 1
          PROVE  s <= claimed'
      <4>1. s \in Nat /\ s <= work[c].due /\ s # work[c].due
        BY <1>0, <1>5, <3>1, <3>2
      <4>2. ~(work[c].before < s /\ s < work[c].due)
        BY <2>2, <3>1, <3>2
      <4>3. QED
        BY <1>0, <2>1, <4>1, <4>2
    <3>3. QED
      BY <3>1, <3>2 DEF ClaimedAsked
  <2>5. \A d \in Chains : Holder(d)' =>
          d # c /\ Holder(d) /\ work'[d] = work[d] /\ (Asked(d)' <=> Asked(d))
    BY <1>1, <1>2 DEF Holder, Holds, Asked
  <2>6. ASSUME NEW d \in Chains, d # c, Holder(d)
        PROVE  /\ work[d].due <= claimed' /\ work[d].before < work[d].due
               /\ asked'[work[d].due] = IF Asked(d) THEN 1 ELSE 0
               /\ \A s \in Slots : work[d].before < s /\ s < work[d].due => asked'[s] = 0
    <3>1. /\ work[d].due <= claimed /\ work[d].before < work[d].due
          /\ asked[work[d].due] = IF Asked(d) THEN 1 ELSE 0
          /\ \A s \in Slots : work[d].before < s /\ s < work[d].due => asked[s] = 0
      BY <2>0, <2>6 DEF HeldApart
    <3>2. work[d].due # work[c].due /\ ~(work[c].before < work[d].due /\ work[d].due < work[c].due)
      BY <2>2, <2>6
    <3>3. work[d].due <= claimed'
      <4>1. work[d].due \in Nat /\ work[d].due <= work[c].due
        BY <1>0, <1>5, <3>1
      <4>2. QED
        BY <1>0, <2>1, <3>2, <4>1
    <3>4. \A s \in Slots : s < work[d].due => s # work[c].due
      <4>1. work[d].due \in Nat /\ work[d].due <= work[c].due
        BY <1>0, <1>5, <3>1
      <4>2. QED
        BY <1>0, <4>1
    <3>5. QED
      BY <1>0, <2>3, <3>1, <3>2, <3>3, <3>4
  <2>7. \A d, e \in Chains : d # e /\ Holder(d) /\ Holder(e) =>
          work[e].due # work[d].due /\ ~(work[d].before < work[e].due /\ work[e].due < work[d].due)
    BY <2>0 DEF HeldApart
  <2>8. HeldApart'
    BY <2>5, <2>6, <2>7 DEF HeldApart
  <2>9. QED
    BY <2>4, <2>8 DEF OnceInv
<1>6. QED
  BY <1>3, <1>4, <1>5

LEMMA OnceInvKept ==
  ASSUME UpdaterTypeOK, OnceInv, [UpdaterNext]_updaterVars
  PROVE  OnceInv'
<1>0. /\ \A c \in Chains : c \in Handlers /\ c # "person" /\ c # "page"
      /\ "person" \in Handlers /\ "page" \in Handlers
      /\ work \in [Handlers -> Work] /\ (\A h \in Handlers : work[h] \in Work)
  BY UpdaterAssumption, NumbersTyped DEF Handlers
<1>1. CASE UNCHANGED <<claimed, asked, overtaken, work>>
  BY <1>1, OnceKept DEF Holder, Holds, Asked
<1>2. ASSUME NEW h \in Handlers, Settle(h) \/ Settled(h) \/ Post(h) \/ Undo(h)
      PROVE  OnceInv'
  <2>1. UNCHANGED <<claimed, asked, overtaken>> /\ \A g \in Handlers \ {h} : work'[g] = work[g]
    BY <1>0, <1>2, OthersWork DEF Settle, Settled, Post, Undo, updaterRow, ghosts, HandlerSteps
  <2>2. h \in Chains => \/ ~Holder(h)'
                        \/ /\ work'[h].due = work[h].due /\ work'[h].before = work[h].before
                           /\ (Holds(h)' <=> Holds(h)) /\ (Asked(h)' <=> Asked(h))
    <3>1. CASE Settle(h)
      BY <1>0, <3>1 DEF Settle, Handling, Work, Holds, Asked
    <3>2. CASE Settled(h)
      BY <1>0, <3>2 DEF Settled, Handling, Work, Holds, Asked
    <3>3. CASE Post(h) \/ Undo(h)
      <4>1. Return(h) \/ \E step \in {"undo", "giveback"} : To(h, step)
        BY <3>3 DEF Post, Undo
      <4>2. Asked(h) /\ ~Holds(h)
        BY <3>3 DEF Post, Undo, Handling, Asked, Holds
      <4>3. QED
        BY <1>0, <4>1, <4>2, OthersWork, ReturnedFields DEF HandlerSteps, Holder, Holds, Asked
    <3>4. QED
      BY <1>2, <3>1, <3>2, <3>3
  <2>3. QED
    BY <1>0, <2>1, <2>2, OnceKept DEF Holder, Holds, Asked
<1>3. ASSUME NEW c \in Chains, Due(c) \/ Arm(c) \/ SetTimer(c) \/ Fire(c)
      PROVE  OnceInv'
  <2>1. UNCHANGED <<claimed, asked, overtaken>>
    BY <1>3 DEF Due, Arm, SetTimer, Fire, updaterRow, ghosts
  <2>2. /\ \A d \in Chains \ {c} : work'[d] = work[d]
        /\ work'[c].step \in {"claim", "arm", "set", "idle", "due"}
    <3>1. CASE Due(c)
      <4>1. \/ Return(c)
            \/ work' = [work EXCEPT ![c].step = "claim", ![c].due = due, ![c].before = claimed, ![c].target = newest]
        BY <3>1 DEF Due
      <4>2. CASE Return(c)
        BY <1>0, <4>2, OthersWork, ReturnedFields
      <4>3. CASE ~Return(c)
        BY <1>0, <4>1, <4>3 DEF Work
      <4>4. QED
        BY <4>2, <4>3
    <3>2. CASE Arm(c) \/ SetTimer(c) \/ Fire(c)
      <4>1. \/ To(c, "set") \/ work' = [work EXCEPT ![c] = AtRest] \/ work' = [work EXCEPT ![c] = Fired]
        BY <3>2 DEF Arm, SetTimer, Fire
      <4>2. QED
        BY <1>0, <4>1, OthersWork, ReturnedFields DEF HandlerSteps
    <3>3. QED
      BY <1>3, <3>1, <3>2
  <2>3. ~Holder(c)'
    BY <2>2 DEF Holder, Holds, Asked
  <2>4. QED
    BY <2>1, <2>2, <2>3, OnceKept DEF Holder, Holds, Asked
<1>4. ASSUME NEW c \in Chains, Rearm(c)
      PROVE  OnceInv'
  <2>1. UNCHANGED <<claimed, asked, overtaken>> /\ work' = Rearmed(c)
    BY <1>4 DEF Rearm, ghosts
  <2>2. \A d \in Chains : \/ work'[d].step = "arm"
                          \/ /\ work'[d].step = work[d].step
                             /\ work'[d].due = work[d].due /\ work'[d].before = work[d].before
    BY <1>0, <2>1, ReturnedFields DEF Rearmed, Work
  <2>3. QED
    BY <2>1, <2>2, OnceKept DEF Holder, Holds, Asked
<1>5. CASE Install
  <2>1. PICK target \in release + 1..newest : Asking("person", target)
    BY <1>5 DEF Install
  <2>2. \A c \in Chains : work'[c] = work[c]
    BY <1>0, <2>1, OthersWork
  <2>3. QED
    BY <1>5, <2>2, OnceKept DEF Install, updaterRow, ghosts, Holder, Holds, Asked
<1>6. CASE Boot \/ Killed \/ Replace
  <2>1. UNCHANGED <<claimed, asked, overtaken>>
    BY <1>6 DEF Boot, Killed, Replace, updaterRow, ghosts
  <2>2. \A c \in Chains : work'[c] = work[c] \/ work'[c] = AtRest \/ work'[c] = Fired
    BY <1>0, <1>6 DEF Boot, Killed, Replace, Stops
  <2>3. QED
    BY <2>1, <2>2, OnceKept, ReturnedFields DEF Holder, Holds, Asked
<1>7. CASE Save \/ ScanEnds \/ Publish \/ Instant \/ Age
  BY <1>1, <1>7 DEF Save, ScanEnds, Publish, Instant, Age, updaterRow, ghosts
<1>8. QED
  BY <1>1, <1>2, <1>3, <1>4, <1>5, <1>6, <1>7, RecordOnce, ClaimOnce, GiveBackOnce
     DEF UpdaterNext, updaterVars, updaterRow, ghosts

\* The schedule asks once for an instant, whatever the chains, the saves and the
\* restarts did to each other, as long as no chain claims over another's claim.
THEOREM OncePerInstant == UpdaterSpec => []AskedOnce
<1>1. UpdaterInit => OnceInv
  BY UpdaterAssumption DEF UpdaterInit, OnceInv, ClaimedAsked, HeldApart, Holder, Holds, Asked, Handlers, AtRest
<1>2. UpdaterTypeOK /\ OnceInv /\ [UpdaterNext]_updaterVars => OnceInv'
  BY OnceInvKept
<1>3. OnceInv => AskedOnce
  BY DEF OnceInv, ClaimedAsked, AskedOnce
<1>4. QED
  BY <1>1, <1>2, <1>3, UpdaterTypes, PTL DEF UpdaterSpec

===============================================================================
