---------------------------- MODULE RemoteAccess ----------------------------
(* The route FamilyFi publishes for phones away from home, and the         *)
(* cloudflared tunnel one process runs for it                              *)
(* (src/src/server/tunnel/remote-access.ts).                               *)
(*                                                                         *)
(* What a call does between two of its awaits is one step.  A quick        *)
(* tunnel's address is the number of its process.  The other processes on  *)
(* the database only take the lease and let it go.  cloudflared is         *)
(* installed and the database answers; what a setup does in Cloudflare,    *)
(* the messages and what is known of a household's own route are left out. *)
EXTENDS Integers, FiniteSets

CONSTANTS
  Jobs,        \* numbers of the calls under way at once
  Tunnels,     \* numbers of cloudflared processes
  Nothing,
  Overlapping, \* whether calls that publish and launch may overlap each other
  MaxChoices,  \* bound: changes of what is chosen
  MaxTroubles  \* bound: tunnels that stop, leases that run out or that others take, deaths

ASSUME RemoteAccessAssumption ==
  /\ Jobs \subseteq Nat /\ Tunnels \subseteq Nat \ {0} /\ Overlapping \in BOOLEAN
  /\ {MaxChoices, MaxTroubles} \subseteq Nat
  /\ Nothing \notin Nat \cup {"quick", "domain", "own"} \cup [n : Tunnels, kind : {"quick", "domain"}]

VARIABLES
  runtime,  \* the process's runtime
  db,       \* the published route, the routes on file, those turned on, the quick route's address
  lease,    \* who holds the tunnel lease: "ours", "other" or, if it ran out or was released, "free"
  tunnels,  \* the cloudflared processes that run
  jobs,     \* where each call is
  read,     \* the state being read, if any
  left      \* what remains of the bounds, and whether the lease was ever lost to another

remoteVars == <<runtime, db, lease, tunnels, jobs, read, left>>

Routes == {"quick", "domain", "own"}
Tunnel(n, kind) == [n |-> n, kind |-> kind]
Address(t) == IF t.kind = "quick" THEN t.n ELSE 0

\* The runtime a process starts with.  timer is the restart timer it knows of,
\* lost those it set and no longer knows.
NewRuntime ==
  [wanted |-> Nothing, status |-> "off", url |-> Nothing, child |-> Nothing, setup |-> Nothing, forgetting |-> FALSE,
   timer |-> FALSE, lost |-> 0, leaseTimer |-> FALSE]

Idle == [at |-> "idle", to |-> Nothing, of |-> Nothing]
Free(j) == jobs[j] = Idle /\ \A i \in Jobs : i < j => jobs[i] # Idle
Goes(j, at, of) == jobs' = [jobs EXCEPT ![j].at = at, ![j].of = of]
Ends(j) == jobs' = [jobs EXCEPT ![j] = Idle]
Starts(j, at, to, of) == Free(j) /\ jobs' = [jobs EXCEPT ![j] = [at |-> at, to |-> to, of |-> of]]
Spent(what) == left[what] > 0 /\ left' = [left EXCEPT ![what] = @ - 1]

\* What a read has seen before the database answers; none is running.
NoRead == [at |-> "none", running |-> FALSE, route |-> Nothing, switched |-> FALSE]

RemoteInit ==
  /\ runtime = NewRuntime
  /\ db \in {[published |-> Nothing, routes |-> {"own"}, on |-> {}, address |-> Nothing],
             [published |-> Nothing, routes |-> Routes, on |-> {}, address |-> Nothing]}
  /\ lease \in {"free", "other"} /\ tunnels = {}
  /\ jobs = [j \in Jobs |-> Idle] /\ read = NoRead
  /\ left = [choices |-> MaxChoices, troubles |-> MaxTroubles, ousted |-> FALSE]

\* publish: the one route on file, every other turned off.
Published(route, enable) ==
  [db EXCEPT !.published = route, !.on = IF enable THEN {route} \ {Nothing} ELSE {}]

\* stopAll
Stopped ==
  [runtime EXCEPT !.timer = FALSE, !.setup = Nothing, !.forgetting = FALSE, !.child = Nothing, !.url = Nothing,
                  !.status = "starting"]

----------------------------------------------------------------------------
(* setRemoteAccess                                                         *)

Choices == {"off", "forget", "own", "quick", "domain", "hostname"}

\* A sign-in lasts minutes and a tunnel seconds; the rest of a call does not.
\* Pair Device asks for one change at a time (RemoteAccessCard.tsx:264).
Lasting == {"idle", "connecting", "connected", "forgetting"}
Adopting == {"checks", "saves", "reports"}
InTurn == Overlapping \/ \A i \in Jobs : jobs[i].at \in Lasting \cup Adopting

\* namedTarget: Automatic runs the domain there is, or sets up a hostname.
Chosen(j, to) ==
  /\ InTurn
  /\ to = "domain" => "domain" \in db.routes
  /\ Starts(j, "stops", to, Nothing) /\ Spent("choices")
  /\ UNCHANGED <<runtime, db, lease, tunnels, read>>

\* switches: a read under way can tell.
Switched == [read EXCEPT !.switched = read # NoRead]

Stops(j) ==
  /\ jobs[j].at = "stops"
  /\ tunnels' = tunnels \ {runtime.child}
  /\ \/ /\ jobs[j].to \in {"off", "forget", "own"}
        /\ runtime' = [Stopped EXCEPT !.wanted = Nothing, !.status = "off", !.leaseTimer = FALSE]
        /\ Goes(j, "releases", Nothing)
     \/ /\ jobs[j].to \in {"quick", "domain"}
        /\ runtime' = [Stopped EXCEPT !.wanted = jobs[j].to]
        /\ Goes(j, IF jobs[j].to = "quick" THEN "looks" ELSE "publishes", "domain")
     \/ /\ jobs[j].to = "hostname"
        /\ runtime' = Stopped
        /\ Goes(j, "looks", Nothing)
  /\ read' = Switched
  /\ UNCHANGED <<db, lease, left>>

\* releaseLease
Releases(j) ==
  /\ jobs[j].at = "releases"
  /\ lease' = IF lease = "ours" THEN "free" ELSE lease
  /\ Goes(j, "publishes", IF jobs[j].to = "own" THEN "own" ELSE Nothing)
  /\ UNCHANGED <<runtime, db, tunnels, read, left>>

Looks(j) ==
  /\ jobs[j].at = "looks"
  /\ \/ jobs[j].to = "quick" /\ Goes(j, "publishes", IF "quick" \in db.routes THEN "quick" ELSE Nothing)
     \/ jobs[j].to = "hostname" /\ Goes(j, "unpublishes", db.published)
  /\ UNCHANGED <<runtime, db, lease, tunnels, read, left>>

\* The transaction fails if the domain was forgotten meanwhile.
Publishes(j) ==
  LET to == jobs[j].to
      route == jobs[j].of
      missing == route \notin db.routes \cup {Nothing}
      next == CASE to = "forget" /\ "domain" \in db.routes -> "forgotten"
                [] to = "setup" \/ (to \in {"quick", "domain"} /\ ~missing) -> "leases"
                [] OTHER -> "idle"
  IN
    /\ jobs[j].at = "publishes"
    /\ db' = IF missing THEN db
             ELSE [Published(route, to = "own") EXCEPT !.routes = IF to = "forget" THEN @ \ {"domain"} ELSE @]
    /\ IF next = "idle" THEN Ends(j) ELSE Goes(j, next, Nothing)
    /\ UNCHANGED <<runtime, lease, tunnels, read, left>>

\* forget: one more sign-in, in the background; it ends by itself or is kept.
Forgets(j) ==
  /\ jobs[j].at = "forgotten"
  /\ runtime' = [runtime EXCEPT !.setup = j, !.forgetting = TRUE, !.status = "signing-in"]
  /\ Goes(j, "forgetting", Nothing)
  /\ UNCHANGED <<db, lease, tunnels, read, left>>

Forgotten(j) ==
  /\ jobs[j].at = "forgetting"
  /\ runtime' = IF runtime.setup # j THEN runtime
                ELSE [runtime EXCEPT !.setup = Nothing, !.forgetting = FALSE, !.status = "off"]
  /\ Ends(j) /\ UNCHANGED <<db, lease, tunnels, read, left>>

\* A new hostname: nothing is published while it is set up in the background.
Unpublishes(j) ==
  /\ jobs[j].at = "unpublishes"
  /\ db' = Published(Nothing, FALSE)
  /\ Goes(j, "begins", jobs[j].of)
  /\ UNCHANGED <<runtime, lease, tunnels, read, left>>

Begins(j) ==
  /\ jobs[j].at = "begins"
  /\ runtime' = [runtime EXCEPT !.wanted = "domain", !.setup = j, !.status = "signing-in"]
  /\ jobs' = [jobs EXCEPT ![j].at = "connecting", ![j].to = "setup"]
  /\ UNCHANGED <<db, lease, tunnels, read, left>>

\* saveDomainRoute: also if the setup was given up after the domain was routed.
Connects(j) ==
  /\ jobs[j].at = "connecting"
  /\ db' = [db EXCEPT !.routes = @ \cup {"domain"}]
  /\ Goes(j, "connected", Nothing)
  /\ UNCHANGED <<runtime, lease, tunnels, read, left>>

Connected(j) ==
  /\ jobs[j].at = "connected" /\ InTurn
  /\ IF runtime.setup # j THEN Ends(j) /\ UNCHANGED runtime
     ELSE runtime' = [runtime EXCEPT !.setup = Nothing] /\ Goes(j, "publishes", "domain")
  /\ UNCHANGED <<db, lease, tunnels, read, left>>

\* The domain that was published before is run again.
ConnectFails(j) ==
  /\ jobs[j].at = "connecting" /\ InTurn
  /\ \/ runtime.setup # j /\ Ends(j) /\ UNCHANGED runtime
     \/ /\ runtime.setup = j /\ jobs[j].of = "domain" /\ "domain" \in db.routes
        /\ runtime' = [runtime EXCEPT !.setup = Nothing] /\ Goes(j, "publishes", "domain")
     \/ /\ runtime.setup = j /\ ~(jobs[j].of = "domain" /\ "domain" \in db.routes)
        /\ runtime' = [runtime EXCEPT !.setup = Nothing, !.wanted = Nothing, !.status = "error"]
        /\ Ends(j)
  /\ UNCHANGED <<db, lease, tunnels, read, left>>

----------------------------------------------------------------------------
(* launch and what it starts                                               *)

Armed(r) == [r EXCEPT !.timer = TRUE, !.lost = IF r.timer THEN @ + 1 ELSE @]

\* acquireLease
Leases(j) ==
  /\ jobs[j].at = "leases"
  /\ lease' = IF lease = "other" THEN lease ELSE "ours"
  /\ Goes(j, IF lease = "other" THEN "refused" ELSE "leased", Nothing)
  /\ UNCHANGED <<runtime, db, tunnels, read, left>>

\* Without another try.
LeaseRefusedForGood(j) ==
  /\ jobs[j].at = "refused"
  /\ runtime' = [runtime EXCEPT !.status = "error"] /\ Ends(j)
  /\ UNCHANGED <<db, lease, tunnels, read, left>>

\* Another process holds the lease: try again when it may have run out.
LeaseRefused(j) ==
  /\ jobs[j].at = "refused"
  /\ runtime' = Armed([runtime EXCEPT !.status = "error"]) /\ Ends(j)
  /\ UNCHANGED <<db, lease, tunnels, read, left>>

\* Numbers nothing speaks of any more.
FreeTunnels ==
  {n \in Tunnels : /\ \A t \in tunnels : t.n # n
                   /\ n # db.address /\ n # runtime.url
                   /\ \A j \in Jobs : jobs[j].at \in Adopting => jobs[j].of.n # n}

\* supervise: a tunnel the process ran before is no longer known.
Spawned(r, kind) ==
  /\ FreeTunnels # {}
  /\ LET t == Tunnel(CHOOSE n \in FreeTunnels : TRUE, kind)
     IN tunnels' = tunnels \cup {t} /\ runtime' = [r EXCEPT !.child = t]

Launches(j) ==
  /\ jobs[j].at = "leased"
  /\ LET r == [runtime EXCEPT !.leaseTimer = TRUE, !.status = "starting"] IN
       \/ runtime.wanted = "quick" /\ Spawned(r, "quick") /\ Ends(j)
       \/ runtime.wanted # "quick" /\ runtime' = r /\ Goes(j, "named", Nothing) /\ UNCHANGED tunnels
  /\ UNCHANGED <<db, lease, read, left>>

LaunchesNamed(j) ==
  /\ jobs[j].at = "named"
  /\ IF "domain" \in db.routes THEN Spawned(runtime, "domain")
     ELSE runtime' = [runtime EXCEPT !.status = "error"] /\ UNCHANGED tunnels
  /\ Ends(j) /\ UNCHANGED <<db, lease, read, left>>

Fires(j) ==
  /\ InTurn /\ Starts(j, "leases", "retry", Nothing)
  /\ runtime' \in {r \in {[runtime EXCEPT !.timer = FALSE], [runtime EXCEPT !.lost = @ - 1]} :
                   r # runtime /\ r.lost >= 0}
  /\ UNCHANGED <<db, lease, tunnels, read, left>>

\* goLive, from the current tunnel's output.
\* It takes seconds to come up: what began before it is over.
Announces(j) ==
  /\ \A i \in Jobs : jobs[i].at \in Lasting
  /\ runtime.child \in tunnels /\ runtime.url # Address(runtime.child)
  /\ runtime' = [runtime EXCEPT !.url = Address(runtime.child)]
  /\ Starts(j, "checks", runtime.child.kind, runtime.child)
  /\ UNCHANGED <<db, lease, tunnels, read, left>>

\* adoptWhileWanted
Checks(j) ==
  /\ jobs[j].at = "checks"
  /\ IF runtime.wanted = jobs[j].to THEN Goes(j, "saves", jobs[j].of) ELSE Ends(j)
  /\ UNCHANGED <<runtime, db, lease, tunnels, read, left>>

\* adoptQuickUrl, adoptDomainRoute
Saves(j) ==
  /\ jobs[j].at = "saves"
  /\ \/ /\ jobs[j].to = "quick"
        /\ db' = [Published("quick", TRUE) EXCEPT !.routes = @ \cup {"quick"}, !.address = jobs[j].of.n]
        /\ Goes(j, "reports", jobs[j].of) /\ UNCHANGED runtime
     \/ /\ jobs[j].to = "domain" /\ "domain" \in db.routes
        /\ db' = Published("domain", TRUE)
        /\ Goes(j, "reports", jobs[j].of) /\ UNCHANGED runtime
     \/ /\ jobs[j].to = "domain" /\ "domain" \notin db.routes
        /\ runtime' = [runtime EXCEPT !.status = "error"]
        /\ Ends(j) /\ UNCHANGED db
  /\ UNCHANGED <<lease, tunnels, read, left>>

\* Whatever runs by now.
ReportsAnyway(j) ==
  /\ jobs[j].at = "reports"
  /\ runtime' = [runtime EXCEPT !.status = "running"]
  /\ Ends(j) /\ UNCHANGED <<db, lease, tunnels, read, left>>

Reports(j) ==
  /\ jobs[j].at = "reports"
  /\ runtime' = IF runtime.url = Address(jobs[j].of) THEN [runtime EXCEPT !.status = "running"] ELSE runtime
  /\ Ends(j) /\ UNCHANGED <<db, lease, tunnels, read, left>>

\* A tunnel stops by itself: the current one is started again while one is wanted.
Exits(t) ==
  /\ t \in tunnels /\ Spent("troubles")
  /\ tunnels' = tunnels \ {t}
  /\ runtime' = CASE runtime.child # t -> runtime
                  [] runtime.child = t /\ runtime.wanted = Nothing -> [runtime EXCEPT !.child = Nothing, !.url = Nothing]
                  [] OTHER -> Armed([runtime EXCEPT !.child = Nothing, !.url = Nothing, !.status = "error"])
  /\ UNCHANGED <<db, lease, jobs, read>>

----------------------------------------------------------------------------
(* The lease and the other processes                                       *)

\* keepLease, when the lease is another's and a tunnel is wanted.
Ousted ==
  /\ runtime.leaseTimer /\ lease = "other" /\ runtime.wanted # Nothing
  /\ runtime' = [runtime EXCEPT !.child = Nothing, !.url = Nothing, !.status = "error"]
  /\ tunnels' = tunnels \ {runtime.child}
  /\ left' = [left EXCEPT !.ousted = TRUE]
  /\ UNCHANGED <<db, lease, jobs, read>>

\* keepLease, otherwise: the lease is renewed, or taken again.
Renews ==
  /\ runtime.leaseTimer /\ lease = "free"
  /\ lease' = "ours" /\ UNCHANGED <<runtime, db, tunnels, jobs, read, left>>

\* It runs out: nobody renews it, or the database could not be reached.
Lapses ==
  /\ lease = "ours"
  /\ Spent("troubles")
  /\ lease' = "free" /\ UNCHANGED <<runtime, db, tunnels, jobs, read>>

OtherTakes == lease = "free" /\ Spent("troubles") /\ lease' = "other" /\ UNCHANGED <<runtime, db, tunnels, jobs, read>>
OtherStops == lease = "other" /\ lease' = "free" /\ UNCHANGED <<runtime, db, tunnels, jobs, read, left>>

\* The process dies, its tunnel with it, and starts anew under another name:
\* the lease it held is another's until it runs out.
Restarts(j) ==
  /\ Spent("troubles")
  /\ runtime' = NewRuntime /\ tunnels' = {}
  /\ lease' = IF lease = "ours" THEN "other" ELSE lease
  /\ jobs' = [i \in Jobs |-> IF i = j THEN [at |-> "boots", to |-> "boot", of |-> Nothing] ELSE Idle]
  /\ read' = NoRead /\ UNCHANGED db

\* resumeRemoteAccess
Boots(j) ==
  /\ jobs[j].at = "boots"
  /\ IF db.published \in {"quick", "domain"} THEN Goes(j, "resumes", db.published) ELSE Ends(j)
  /\ UNCHANGED <<runtime, db, lease, tunnels, read, left>>

Resumes(j) ==
  /\ jobs[j].at = "resumes"
  /\ runtime' = [runtime EXCEPT !.wanted = jobs[j].of]
  /\ IF runtime.child = Nothing THEN Goes(j, "leases", Nothing) ELSE Ends(j)
  /\ UNCHANGED <<db, lease, tunnels, read, left>>

----------------------------------------------------------------------------
(* remoteAccessState                                                       *)

Reads ==
  /\ read = NoRead
  /\ read' = [NoRead EXCEPT !.at = "asks", !.running = runtime.status = "running"]
  /\ UNCHANGED <<runtime, db, lease, tunnels, jobs, left>>

ReadsRoute ==
  /\ read.at = "asks"
  /\ read' = [read EXCEPT !.at = "answers", !.route = db.published]
  /\ UNCHANGED <<runtime, db, lease, tunnels, jobs, left>>

\* Whether it tells that the tunnel runs.
TellsRunning == runtime.status = "running" /\ read.running /\ ~read.switched

Answers ==
  /\ read.at = "answers"
  /\ read' = NoRead
  /\ UNCHANGED <<runtime, db, lease, tunnels, jobs, left>>

----------------------------------------------------------------------------
JobStep(j) ==
  \/ Stops(j) \/ Releases(j) \/ Looks(j) \/ Publishes(j) \/ Forgets(j) \/ Forgotten(j)
  \/ Unpublishes(j) \/ Begins(j) \/ Connects(j) \/ Connected(j) \/ ConnectFails(j)
  \/ Leases(j) \/ LeaseRefused(j) \/ Launches(j) \/ LaunchesNamed(j) \/ Checks(j) \/ Saves(j) \/ Reports(j)
  \/ Boots(j) \/ Resumes(j)

\* The interval that renews the lease.
KeepsLease == Ousted \/ Renews

RemoteNext ==
  \/ \E j \in Jobs : JobStep(j) \/ Fires(j) \/ Announces(j) \/ Restarts(j)
  \/ \E j \in Jobs, to \in Choices : Chosen(j, to)
  \/ \E t \in tunnels : Exits(t)
  \/ Reads \/ ReadsRoute \/ Answers
  \/ Ousted \/ Renews \/ Lapses \/ OtherTakes \/ OtherStops

RemoteSpec ==
  /\ RemoteInit /\ [][RemoteNext]_remoteVars
  /\ \A j \in Jobs : WF_remoteVars(JobStep(j))
  /\ WF_remoteVars(\E j \in Jobs : Fires(j)) /\ WF_remoteVars(\E j \in Jobs : Announces(j))
  /\ WF_remoteVars(KeepsLease) /\ WF_remoteVars(OtherStops)

----------------------------------------------------------------------------
(* Properties                                                              *)

\* A client told that the tunnel runs is told of the route that tunnel
\* published, at the address it has: however the choice changed, tunnels
\* stopped and came back and leases were lost while the state was read.
RunningTruly ==
  read.at = "answers" /\ read.route # "own" /\ TellsRunning =>
    /\ runtime.child # Nothing /\ runtime.child.kind = read.route
    /\ runtime.url = IF read.route = "quick" THEN db.address ELSE 0

\* A tunnel that is wanted comes to run, whoever held the lease when it was
\* asked for, whatever stopped or restarted since and however a setup ended,
\* unless another process took the lease while this one kept it.
ComesUp == []<>(runtime.wanted = Nothing \/ runtime.status = "running" \/ left.ousted)

\* What the message of ANOTHER_PROCESS promises: this process takes over once
\* the other has stopped, also if it ran the tunnel before.
TakesOver == runtime.wanted # Nothing ~> runtime.status = "running" \/ runtime.wanted = Nothing
=============================================================================
