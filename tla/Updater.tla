------------------------------ MODULE Updater ------------------------------
(***************************************************************************)
(* Installing a newer release (src/src/server/updater.ts): FamilyFi asks   *)
(* Watchtower to replace its own container, so the process that asks is    *)
(* usually the one being replaced.  The request is written on the          *)
(* household row first, and settled by whichever process reads it next.    *)
(*                                                                         *)
(* UpdateRuns come from a person and from a weekly schedule, whose timer is  *)
(* armed by a chain of promises: a chain fires, claims the instant that is *)
(* due, asks, and arms the next.  A save of the schedule re-arms, and bumps*)
(* a generation by which an older chain knows not to; a chain is current   *)
(* when its generation is the newest.                                      *)
(*                                                                         *)
(* An instant of the schedule is a number, and due the latest that has     *)
(* passed.  A moment counts the requests begun: it tells requests apart,   *)
(* and the scans that ended before each.                                   *)
(***************************************************************************)
EXTENDS Integers

CONSTANTS
  Chains,        \* bound: chains under way at once
  MaxSlots,      \* bound: instants of the schedule
  MaxTurns       \* bound: people's requests, calls Watchtower fails, releases published,
                 \* saves of the schedule, and restarts that no install causes

ASSUME UpdaterAssumption ==
  /\ "person" \notin Chains /\ "page" \notin Chains
  /\ {MaxSlots, MaxTurns} \subseteq Nat

VARIABLES
  request,             \* the household row's latest request
  scheduled, claimed,    \* its schedule, and updateScheduleLastRunAt
  saving,              \* a save is written and has not re-armed yet
  due,                 \* the schedule's latest instant
  newest, release, up, \* the newest release out, the one running, and whether it is
  tower, lastScan,     \* Watchtower's install under way, and when it last ended one
  armed,               \* the timer is set
  work,                \* what each handler is doing
  moment,              \* the next moment
  asked,               \* ghost: requests the schedule made for each instant, less those given back
  overtaken,           \* ghost: a chain claimed although another had claimed since it read
  turns                \* how much of the bound is used up

updaterRow == <<request, scheduled, claimed, saving>>
world      == <<due, newest, release, up, tower, lastScan>>
ghosts     == <<asked, overtaken>>
updaterVars == <<updaterRow, world, armed, work, moment, ghosts, turns>>

Handlers == Chains \cup {"person", "page"}
Moments  == 0..MaxSlots + MaxTurns + 2
Releases == 0..MaxTurns + 2
Slots    == 0..MaxSlots
UpdateRuns == [at : Moments, target : Releases, status : {"none", "requested", "succeeded", "failed"},
             late : BOOLEAN]
NoRequest == [at |-> 0, target |-> 0, status |-> "none", late |-> FALSE]

HandlerSteps == {"idle", "due", "claim", "settle", "settled", "record", "post", "undo", "giveback", "arm", "set"}
Work  == [step : HandlerSteps, current : BOOLEAN, due : Slots, before : Slots, at : Moments,
          target : Releases, seen : UpdateRuns, outcome : {"none", "succeeded", "failed"}]
AtRest == [step |-> "idle", current |-> FALSE, due |-> 0, before |-> 0, at |-> 0, target |-> 0,
           seen |-> NoRequest, outcome |-> "none"]
Fired  == [AtRest EXCEPT !.step = "due", !.current = TRUE]
Arming == [AtRest EXCEPT !.step = "arm", !.current = TRUE]

\* FamilyFi is to start, with a newer release out.
UpdaterInit ==
  /\ request = NoRequest
  /\ scheduled = TRUE /\ claimed = 0 /\ saving = FALSE
  /\ due = 0
  /\ newest = 2 /\ release = 1 /\ up = FALSE
  /\ tower = 0 /\ lastScan = 0
  /\ armed = FALSE
  /\ work = [h \in Handlers |-> AtRest]
  /\ moment = 1
  /\ asked = [s \in Slots |-> 0] /\ overtaken = FALSE
  /\ turns = 0

UpdaterTypeOK ==
  /\ request \in UpdateRuns
  /\ scheduled \in BOOLEAN /\ claimed \in Slots /\ saving \in BOOLEAN
  /\ due \in Slots
  /\ newest \in Releases /\ release \in Releases /\ up \in BOOLEAN 
  /\ tower \in Releases /\ lastScan \in Moments
  /\ armed \in BOOLEAN
  /\ work \in [Handlers -> Work]
  /\ moment \in Moments
  /\ asked \in [Slots -> Int] /\ overtaken \in BOOLEAN
  /\ turns \in 0..MaxTurns

Handling(h, step) == up /\ work[h].step = step

To(h, step) == work' = [work EXCEPT ![h].step = step]

Turn == turns < MaxTurns /\ turns' = turns + 1

\* requestUpdate returns to its caller: a chain goes on to arm the timer.
Returned(h) == IF h \in Chains THEN [AtRest EXCEPT !.step = "arm", !.current = work[h].current]
                               ELSE AtRest
Return(h) == work' = [work EXCEPT ![h] = Returned(h)]

----------------------------------------------------------------------------
(* Settling                                                                *)

\* updateOutcome on the row as it was read: the running release settles it
\* first, then a scan that ended since, then the time limit.
Reached(r) == r.target <= release

\* updateOutcome of an open request only.
OutcomesOnce(r) ==
  IF r.status # "requested" THEN {"none"}
  ELSE IF Reached(r) THEN {"succeeded"}
  ELSE IF r.late THEN {"failed"}
  ELSE IF lastScan > r.at THEN {"failed", "none"}
  ELSE {"none"}

\* updateOutcome with every scan Watchtower remembers.
OutcomesAnyScan(r) ==
  IF r.status = "requested"
    THEN IF Reached(r) THEN {"succeeded"}
         ELSE IF lastScan > 0 \/ r.late THEN {"failed"}
         ELSE {"none"}
    ELSE IF r.status = "failed" /\ r.target = release THEN {"succeeded"}
    ELSE {"none"}

\* Watchtower may not answer: its history then says nothing.
Outcomes(r) ==
  IF r.status = "requested"
    THEN IF Reached(r) THEN {"succeeded"}
         ELSE IF r.late THEN {"failed"}
         ELSE IF lastScan > r.at THEN {"failed", "none"}
         ELSE {"none"}
    ELSE IF r.status = "failed" /\ r.target = release THEN {"succeeded"}
    ELSE {"none"}

\* settleUpdateRun reads the row and the history, for a request to come or
\* for whoever looks at the Maintenance tab.
Settle(h) ==
  /\ Handling(h, IF h = "page" THEN "idle" ELSE "settle")
  /\ \E outcome \in Outcomes(request) :
       work' = [work EXCEPT ![h].step = "settled", ![h].seen = request, ![h].outcome = outcome]
  /\ UNCHANGED <<updaterRow, world, armed, moment, ghosts, turns>>

\* finishRun: only the very request, in the very state that was read.
SettlesRead(seen) == request.status = seen.status /\ request.at = seen.at

Settled(h) ==
  /\ Handling(h, "settled")
  /\ LET w == work[h] IN
       request' = IF w.outcome # "none" /\ SettlesRead(w.seen)
                    THEN [request EXCEPT !.status = w.outcome] ELSE request
  /\ IF h = "page" THEN Return(h)
     ELSE work' = [work EXCEPT ![h].step = "record", ![h].seen = NoRequest, ![h].outcome = "none"]
  /\ UNCHANGED <<scheduled, claimed, saving, world, armed, moment, ghosts, turns>>

----------------------------------------------------------------------------
(* requestUpdate                                                           *)

\* The work a request begins with, once Watchtower answers to its name.
Asking(h, target) ==
  /\ moment <= MaxSlots + MaxTurns /\ moment' = moment + 1
  /\ work' = [work EXCEPT ![h].step = "settle", ![h].at = moment, ![h].target = target]

\* A person asks for the newest release this process has heard of.
Install ==
  /\ Handling("person", "idle")
  /\ Turn
  /\ \E target \in release + 1..newest : Asking("person", target)
  /\ UNCHANGED <<updaterRow, world, armed, ghosts>>

Made(h) == IF h \in Chains THEN [asked EXCEPT ![work[h].due] = @ + 1] ELSE asked

\* The request is recorded, unless one is under way.
Record(h) ==
  /\ Handling(h, "record")
  /\ IF request.status = "requested"
       THEN Return(h) /\ UNCHANGED <<request, asked>>
       ELSE /\ request' = [at |-> work[h].at, target |-> work[h].target,
                           status |-> "requested", late |-> FALSE]
            /\ asked' = Made(h)
            /\ To(h, "post")
  /\ UNCHANGED <<scheduled, claimed, saving, world, armed, moment, overtaken, turns>>

\* Watchtower begins to install the newest image, or is installing one.
Taken == tower' = IF tower = 0 THEN newest ELSE tower

\* It takes the request, or it does and its answer is lost, or it does not.
Post(h) ==
  /\ Handling(h, "post")
  /\ \/ Taken /\ Return(h) /\ UNCHANGED turns
     \/ (Taken \/ UNCHANGED tower) /\ To(h, "undo") /\ Turn
  /\ UNCHANGED <<updaterRow, due, newest, release, up, lastScan, armed, moment, ghosts>>

\* finishRun: the request failed.  A chain then gives its instant back.
Undo(h) ==
  /\ Handling(h, "undo")
  /\ request' = IF request.status = "requested" /\ request.at = work[h].at
                  THEN [request EXCEPT !.status = "failed"] ELSE request
  /\ IF h \in Chains THEN To(h, "giveback") ELSE Return(h)
  /\ UNCHANGED <<scheduled, claimed, saving, world, armed, moment, ghosts, turns>>

----------------------------------------------------------------------------
(* The schedule                                                            *)

\* claimAndInstallIfDue reads what is due, and goes on if it is of the last
\* hour, and once the release check and Watchtower answer.
Due(c) ==
  /\ Handling(c, "due")
  /\ \/ /\ scheduled /\ claimed < due
        /\ work' = [work EXCEPT ![c].step = "claim", ![c].due = due, ![c].before = claimed,
                                ![c].target = newest]
     \/ Return(c)
  /\ UNCHANGED <<updaterRow, world, armed, moment, ghosts, turns>>

\* Asks for the release the check found, if it is newer and Watchtower still answers.
AskIfNewer(c) ==
  \/ work[c].target > release /\ Asking(c, work[c].target)
  \/ Return(c) /\ UNCHANGED moment

\* The claim read, and not written.
ClaimUnwritten(c) ==
  /\ Handling(c, "claim")
  /\ IF claimed < work[c].due THEN AskIfNewer(c) ELSE Return(c) /\ UNCHANGED moment
  /\ UNCHANGED <<updaterRow, world, armed, ghosts, turns>>

\* A conditional update: of the chains that read one instant as due, one.
Claim(c) ==
  /\ Handling(c, "claim")
  /\ IF claimed < work[c].due
       THEN /\ claimed' = work[c].due /\ AskIfNewer(c)
            /\ overtaken' = (overtaken \/ claimed # work[c].before)
       ELSE Return(c) /\ UNCHANGED <<claimed, moment, overtaken>>
  /\ UNCHANGED <<request, scheduled, saving, world, armed, asked, turns>>

GiveBack(c) ==
  /\ Handling(c, "giveback")
  /\ IF claimed = work[c].due
       THEN claimed' = work[c].before /\ asked' = [asked EXCEPT ![work[c].due] = @ - 1]
       ELSE UNCHANGED <<claimed, asked>>
  /\ Return(c)
  /\ UNCHANGED <<request, scheduled, saving, world, armed, moment, overtaken, turns>>

\* arm reads whether the schedule is on.
Arm(c) ==
  /\ Handling(c, "arm")
  /\ IF scheduled THEN To(c, "set") ELSE work' = [work EXCEPT ![c] = AtRest]
  /\ UNCHANGED <<updaterRow, world, armed, moment, ghosts, turns>>

\* setTimer without its generation.
SetTimerAnyway(c) ==
  /\ Handling(c, "set")
  /\ armed' = TRUE
  /\ work' = [work EXCEPT ![c] = AtRest]
  /\ UNCHANGED <<updaterRow, world, moment, ghosts, turns>>

\* setTimer: an older chain sets no timer.
SetTimer(c) ==
  /\ Handling(c, "set")
  /\ armed' = (armed \/ work[c].current)
  /\ work' = [work EXCEPT ![c] = AtRest]
  /\ UNCHANGED <<updaterRow, world, moment, ghosts, turns>>

\* The timer fires.
Fire(c) ==
  /\ armed /\ Handling(c, "idle")
  /\ armed' = FALSE
  /\ work' = [work EXCEPT ![c] = Fired]
  /\ UNCHANGED <<updaterRow, world, moment, ghosts, turns>>

\* The schedule is saved: switched, or moved to another time.
Save ==
  /\ up /\ ~saving /\ Turn
  /\ saving' = TRUE
  /\ \/ scheduled' = ~scheduled /\ UNCHANGED due
     \/ /\ due' \in {due - 1, due + 1} \cap Slots
        /\ UNCHANGED scheduled
  /\ UNCHANGED <<request, claimed, newest, release, up, tower, lastScan, armed, work, moment, ghosts>>

\* rescheduleAutoUpdate: no chain before this one is current.
Rearmed(c) == [h \in Handlers |-> IF h = c THEN Arming ELSE [work[h] EXCEPT !.current = FALSE]]

Rearm(c) ==
  /\ saving /\ Handling(c, "idle")
  /\ saving' = FALSE /\ armed' = FALSE
  /\ work' = Rearmed(c)
  /\ UNCHANGED <<request, scheduled, claimed, world, moment, ghosts, turns>>

----------------------------------------------------------------------------
(* Processes, Watchtower and time                                          *)

\* startAutoUpdate catches up.
Boot ==
  /\ ~up /\ up' = TRUE
  /\ \E c \in Chains : work' = [work EXCEPT ![c] = Fired]
  /\ UNCHANGED <<updaterRow, due, newest, release, tower, lastScan, armed, moment, ghosts, turns>>

\* What a process held goes with it.
Stops ==
  /\ up' = FALSE
  /\ work' = [h \in Handlers |-> AtRest]
  /\ armed' = FALSE /\ saving' = FALSE

Killed ==
  /\ up /\ Turn
  /\ Stops
  /\ UNCHANGED <<request, scheduled, claimed, due, newest, release, tower, lastScan, moment, ghosts>>

\* Watchtower replaces the container, whatever its process is doing.
Replace ==
  /\ tower > release
  /\ Stops
  /\ release' = tower
  /\ UNCHANGED <<request, scheduled, claimed, due, newest, tower, lastScan, moment, ghosts, turns>>

\* The scan ends, having replaced the container or not.
ScanEnds ==
  /\ tower # 0
  /\ tower' = 0 /\ lastScan' = moment
  /\ UNCHANGED <<updaterRow, due, newest, release, up, armed, work, moment, ghosts, turns>>

Publish ==
  /\ Turn /\ newest' = newest + 1
  /\ UNCHANGED <<updaterRow, due, release, up, tower, lastScan, armed, work, moment, ghosts>>

\* An instant of the schedule passes.
Instant ==
  /\ due < MaxSlots /\ due' = due + 1
  /\ UNCHANGED <<updaterRow, newest, release, up, tower, lastScan, armed, work, moment, ghosts, turns>>

\* The request is half an hour old.
Age ==
  /\ request.status = "requested" /\ ~request.late
  /\ request' = [request EXCEPT !.late = TRUE]
  /\ UNCHANGED <<scheduled, claimed, saving, world, armed, work, moment, ghosts, turns>>

HandlerStep(h) == Settle(h) \/ Settled(h) \/ Record(h) \/ Post(h) \/ Undo(h)
ChainStep(c)   == Due(c) \/ Claim(c) \/ GiveBack(c) \/ Arm(c) \/ SetTimer(c) \/ Rearm(c)

UpdaterNext ==
  \/ \E h \in Handlers : Settle(h)
  \/ \E h \in Handlers : Settled(h)
  \/ \E h \in Handlers : Record(h)
  \/ \E h \in Handlers : Post(h)
  \/ \E h \in Handlers : Undo(h)
  \/ \E c \in Chains : Due(c)
  \/ \E c \in Chains : Claim(c)
  \/ \E c \in Chains : GiveBack(c)
  \/ \E c \in Chains : Arm(c)
  \/ \E c \in Chains : SetTimer(c)
  \/ \E c \in Chains : Fire(c)
  \/ \E c \in Chains : Rearm(c)
  \/ Install
  \/ Save
  \/ Boot
  \/ Killed
  \/ Replace
  \/ ScanEnds
  \/ Publish
  \/ Instant
  \/ Age

\* A process that stopped is started again, promises go on, Watchtower ends
\* its scans, half an hour passes, and someone looks at the tab now and then.
UpdaterFairness ==
  /\ WF_updaterVars(Boot) /\ WF_updaterVars(Age)
  /\ WF_updaterVars(Replace \/ ScanEnds)
  /\ \A h \in Handlers : WF_updaterVars(HandlerStep(h))
  /\ \A c \in Chains : WF_updaterVars(ChainStep(c))

UpdaterSpec == UpdaterInit /\ [][UpdaterNext]_updaterVars /\ UpdaterFairness

----------------------------------------------------------------------------
(* Properties                                                              *)

\* However the chains, saves and restarts fall, the one an install causes
\* included, the schedule asks for at most one install per instant, those
\* it gave back because Watchtower could not be asked aside; as long as no
\* chain claims over a claim made since it read what it would give back.
AskedOnce == ~overtaken => \A s \in Slots : asked[s] <= 1

\* A request is called failed only for a reason of its own: a scan that ended
\* after it was made, its half hour, or its own call to Watchtower.
FailsForItself ==
  [][request.status = "requested" /\ request'.status = "failed" =>
       \/ lastScan > request.at \/ request.late
       \/ \E h \in Handlers : Handling(h, "undo") /\ work[h].at = request.at]_updaterVars

\* At rest the timer is set exactly when the schedule is on, whatever a save,
\* a chain under way and a restart did to each other.
TimerFollowsSchedule ==
  up /\ ~saving /\ (\A c \in Chains : work[c].step = "idle") => (armed <=> scheduled)

\* Every request is settled in the end, by this process or the next, and one
\* whose release runs is said to have succeeded though it was given up before.
SettledTruly ==
  <>[](/\ request.status # "requested"
       /\ request.status = "failed" => request.target # release)
=============================================================================
