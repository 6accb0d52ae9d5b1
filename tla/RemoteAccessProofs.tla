------------------------- MODULE RemoteAccessProofs -------------------------
(***************************************************************************)
(* For any calls under way at once, tunnels, choices and troubles, as long *)
(* as calls that publish or launch take turns: the types, and that a       *)
(* client told that the tunnel runs is told the route and the address that *)
(* tunnel has.  The state is read twice around a read of the database, so  *)
(* the invariant follows a tunnel from its choice to what is read of it.   *)
(***************************************************************************)
EXTENDS RemoteAccess, TLAPS

----------------------------------------------------------------------------
(* The invariant                                                           *)

Kinds     == {"quick", "domain"}
Tuns      == [n : Tunnels, kind : Kinds]
Acts      == {"stops", "releases", "looks", "publishes", "forgotten", "unpublishes", "begins",
              "leases", "leased", "refused", "named", "boots", "resumes"}
Launching == {"leases", "leased", "refused", "named"}
Stages    == Lasting \cup Adopting \cup Acts
Aims      == Choices \cup {"setup", "retry", "boot", Nothing}
Ofs       == Tuns \cup Routes \cup {Nothing}
Runtimes ==
  [wanted : Kinds \cup {Nothing}, status : {"off", "starting", "signing-in", "running", "error"},
   url : Nat \cup {Nothing}, child : Tuns \cup {Nothing}, setup : Jobs \cup {Nothing},
   forgetting : BOOLEAN, timer : BOOLEAN, lost : Nat, leaseTimer : BOOLEAN]
Bases     == [published : Routes \cup {Nothing}, routes : SUBSET Routes,
              on : SUBSET Routes, address : Nat \cup {Nothing}]
JobRecs   == [at : Stages, to : Aims, of : Ofs]
Readings  == [at : {"none", "asks", "answers"}, running : BOOLEAN,
              route : Routes \cup {Nothing}, switched : BOOLEAN]

RemoteTypeOK ==
  /\ runtime \in Runtimes /\ db \in Bases /\ lease \in {"ours", "other", "free"}
  /\ tunnels \subseteq Tuns /\ jobs \in [Jobs -> JobRecs] /\ read \in Readings
  /\ left \in [choices : Nat, troubles : Nat, ousted : BOOLEAN]

\* One call at a time publishes or launches, and one tunnel is adopted.
Turns ==
  /\ \A i, j \in Jobs : jobs[i].at \in Acts /\ jobs[j].at \in Acts => i = j
  /\ \A i, j \in Jobs : jobs[i].at \in Adopting /\ jobs[j].at \in Adopting => i = j

\* A tunnel, a restart timer and a setup exclude each other, and each is for
\* what is wanted.
OneAtWork ==
  /\ runtime.lost = 0
  /\ runtime.child # Nothing =>
       runtime.wanted = runtime.child.kind /\ ~runtime.timer /\ runtime.setup = Nothing
  /\ runtime.url # Nothing => runtime.child # Nothing /\ runtime.url = Address(runtime.child)
  /\ runtime.timer => runtime.wanted # Nothing /\ runtime.setup = Nothing
  /\ \A j \in Jobs : runtime.setup = j =>
       \/ jobs[j].at = "forgetting"
       \/ jobs[j].at \in {"connecting", "connected"} /\ runtime.wanted = "domain"

\* A call that acts found everything stopped, and goes by what is wanted.
Act(j) ==
  /\ jobs[j].at \in Acts \ {"stops"} =>
       runtime.child = Nothing /\ ~runtime.timer /\ runtime.setup = Nothing
  /\ jobs[j].at \in Launching => runtime.wanted # Nothing
  /\ jobs[j].at = "named" => runtime.wanted = "domain"
  /\ jobs[j].at \in {"looks", "publishes"} /\ jobs[j].to \in Kinds => runtime.wanted = jobs[j].to
  /\ jobs[j].at = "publishes" /\ jobs[j].to = "setup" => runtime.wanted = "domain"
  /\ jobs[j].at \in {"connecting", "connected"} => jobs[j].to = "setup"
  /\ jobs[j].at = "releases" => jobs[j].to \notin Kinds \cup {"setup"}
  /\ jobs[j].at = "resumes" => jobs[j].of \in Kinds

\* What is adopted is the tunnel that runs, unless that stopped since.
Adopt(j) ==
  jobs[j].at \in Adopting =>
    /\ runtime.status # "running"
    /\ jobs[j].of \in Tuns /\ jobs[j].to = jobs[j].of.kind
    /\ runtime.url # Nothing => runtime.child = jobs[j].of
    /\ jobs[j].at = "reports" /\ runtime.url # Nothing =>
         /\ db.published = jobs[j].of.kind
         /\ jobs[j].of.kind = "quick" => db.address = jobs[j].of.n

\* What is called running is published, at the address it has.
RunsPublished ==
  runtime.status = "running" =>
    /\ runtime.url # Nothing
    /\ db.published = runtime.child.kind
    /\ runtime.child.kind = "quick" => db.address = runtime.child.n

\* Since a read that found the tunnel running, and while nobody chose anew, the
\* route stays published: what stops is launched and adopted for it again.
ReadStays ==
  /\ read.at = "none" => read = NoRead
  /\ read.at # "none" /\ read.running /\ ~read.switched =>
       /\ runtime.wanted # Nothing /\ db.published = runtime.wanted /\ runtime.setup = Nothing
       /\ \A j \in Jobs : /\ jobs[j].at \in Lasting \cup Adopting \cup Launching \cup {"stops"}
                          /\ jobs[j].at \in Adopting => jobs[j].to = runtime.wanted
       /\ read.at = "answers" => read.route = db.published

\* All of it.
RunInv ==
  /\ ~Overlapping /\ RemoteTypeOK /\ Turns /\ OneAtWork
  /\ (\A j \in Jobs : Act(j)) /\ (\A j \in Jobs : Adopt(j)) /\ RunsPublished /\ ReadStays

----------------------------------------------------------------------------
(* Calls                                                                   *)

\* The call j, and no other, comes to be there.
Moved(j, at, to, of) ==
  /\ jobs' \in [Jobs -> JobRecs]
  /\ jobs'[j].at = at /\ jobs'[j].to = to /\ jobs'[j].of = of
  /\ \A i \in Jobs \ {j} : jobs'[i] = jobs[i]

USE DEF Kinds, Lasting, Adopting, Acts, Launching

\* What moves a call to a stage, ends it or starts it does so.
LEMMA Moves ==
  ASSUME RemoteTypeOK, NEW j \in Jobs
  PROVE  /\ \A at \in Stages, of \in Ofs : Goes(j, at, of) => Moved(j, at, jobs[j].to, of)
         /\ Ends(j) => Moved(j, "idle", Nothing, Nothing)
         /\ \A at \in Stages, to \in Aims, of \in Ofs :
              Starts(j, at, to, of) => Moved(j, at, to, of) /\ jobs[j].at = "idle"
         /\ \A at \in Stages, to \in Aims :
              jobs' = [jobs EXCEPT ![j].at = at, ![j].to = to] => Moved(j, at, to, jobs[j].of)
<1>1. jobs \in [Jobs -> JobRecs]
  BY DEF RemoteTypeOK
<1>2. Idle \in JobRecs /\ Idle.at = "idle" /\ Idle.to = Nothing /\ Idle.of = Nothing
  BY DEF Idle, Stages, Aims, Ofs, JobRecs
<1>3. ASSUME NEW at \in Stages, NEW of \in Ofs, Goes(j, at, of) PROVE Moved(j, at, jobs[j].to, of)
  BY <1>1, <1>3 DEF Goes, Moved, JobRecs
<1>4. ASSUME Ends(j) PROVE Moved(j, "idle", Nothing, Nothing)
  BY <1>1, <1>2, <1>4 DEF Ends, Moved, JobRecs
<1>5. ASSUME NEW at \in Stages, NEW to \in Aims, NEW of \in Ofs, Starts(j, at, to, of)
      PROVE  Moved(j, at, to, of) /\ jobs[j].at = "idle"
  BY <1>1, <1>2, <1>5 DEF Starts, Free, Moved, JobRecs
<1>6. ASSUME NEW at \in Stages, NEW to \in Aims, jobs' = [jobs EXCEPT ![j].at = at, ![j].to = to]
      PROVE  Moved(j, at, to, jobs[j].of)
  BY <1>1, <1>6 DEF Moved, JobRecs
<1>7. QED
  BY <1>3, <1>4, <1>5, <1>6

\* Nothing is none of what it stands in for, and a tunnel has these parts.
LEMMA NothingApart ==
  /\ Nothing \notin Kinds /\ Nothing # "own" /\ Nothing \notin Nat /\ Nothing \notin Tuns
       /\ Nothing \notin Jobs
  /\ \A t \in Tuns : t.kind \in Kinds /\ t.n \in Nat /\ t.n # 0 /\ Address(t) \in Nat
BY RemoteAccessAssumption DEF Tuns, Address

\* What a publication writes is a database.
LEMMA PublishedBase ==
  ASSUME db \in Bases, NEW route \in Routes \cup {Nothing}, NEW enable \in BOOLEAN
  PROVE  Published(route, enable) \in Bases /\ Published(route, enable).published = route
BY DEF Bases, Published

\* Who waits for a turn finds nobody acting.
LEMMA NobodyActs ==
  ASSUME RunInv, InTurn
  PROVE  \A i \in Jobs : jobs[i].at \notin Acts
BY DEF RunInv, InTurn

\* A call takes its turn from itself, or when nobody has it.
LEMMA TurnsKept ==
  ASSUME RunInv, NEW j \in Jobs, NEW at \in Stages, NEW to, NEW of, Moved(j, at, to, of),
         at \in Acts => jobs[j].at \in Acts \/ \A i \in Jobs : jobs[i].at \notin Acts,
         at \in Adopting => jobs[j].at \in Adopting \/ \A i \in Jobs : jobs[i].at \in Lasting
  PROVE  Turns'
BY DEF RunInv, Turns, Moved, Stages

\* A tunnel that is started is the current one, of the kind it was asked for.
LEMMA SpawnedOne ==
  ASSUME NEW r \in Runtimes, NEW kind \in Kinds, tunnels \subseteq Tuns, Spawned(r, kind)
  PROVE  \E t \in Tuns : t.kind = kind /\ tunnels' \subseteq Tuns /\ runtime' = [r EXCEPT !.child = t]
<1> DEFINE n == CHOOSE n \in FreeTunnels : TRUE
<1>1. n \in Tunnels
  BY DEF Spawned, FreeTunnels
<1>2. Tunnel(n, kind) \in Tuns /\ Tunnel(n, kind).kind = kind
  BY <1>1 DEF Tunnel, Tuns
<1>3. QED
  BY <1>2 DEF Spawned

----------------------------------------------------------------------------
(* The lease                                                               *)

\* What changes the lease alone, or nothing, keeps the invariant.
LEMMA LeaseGood ==
  ASSUME RunInv, UNCHANGED <<runtime, db, tunnels, jobs, read>>, lease' \in {"ours", "other", "free"},
         left' \in [choices : Nat, troubles : Nat, ousted : BOOLEAN]
  PROVE  RunInv'
<1>1. RemoteTypeOK
  BY DEF RunInv
<1>2. Turns'
  BY DEF RunInv, Turns
<1>3. RemoteTypeOK'
  BY <1>1 DEF RemoteTypeOK
<1>4. OneAtWork'
  BY DEF RunInv, OneAtWork
<1>5. \A i \in Jobs : Act(i)'
  BY DEF RunInv, Act
<1>6. \A i \in Jobs : Adopt(i)'
  BY DEF RunInv, Adopt
<1>7. RunsPublished'
  BY DEF RunInv, RunsPublished
<1>8. ReadStays'
  BY DEF RunInv, ReadStays
<1>9. QED
  BY <1>2, <1>3, <1>4, <1>5, <1>6, <1>7, <1>8 DEF RunInv

----------------------------------------------------------------------------
(* setRemoteAccess                                                         *)

\* Every step of a choice keeps the invariant.
LEMMA ChosenGood ==
  ASSUME RunInv, NEW j \in Jobs, NEW to \in Choices, Chosen(j, to)
  PROVE  RunInv'
<1>1. RemoteTypeOK
  BY DEF RunInv
<1>2. Moved(j, "stops", to, Nothing) /\ jobs[j].at = "idle"
  BY <1>1, Moves DEF Chosen, Stages, Ofs, Aims
<1>3. UNCHANGED <<runtime, db, lease, tunnels, read>> /\ InTurn
  BY DEF Chosen
<1>4. lease' \in {"ours", "other", "free"}
        /\ left' \in [choices : Nat, troubles : Nat, ousted : BOOLEAN]
  BY <1>1 DEF RemoteTypeOK, Chosen, Spent
<1>5. Turns'
  BY <1>2, <1>3, TurnsKept, NobodyActs DEF Stages
<1>6. RemoteTypeOK'
  BY <1>1, <1>2, <1>3, <1>4 DEF RemoteTypeOK, Moved
<1>7. OneAtWork'
  BY <1>2, <1>3 DEF RunInv, OneAtWork, Moved
<1>8. \A i \in Jobs : Act(i)'
  BY <1>2, <1>3 DEF RunInv, Act, Moved
<1>9. \A i \in Jobs : Adopt(i)'
  BY <1>2, <1>3 DEF RunInv, Adopt, Moved
<1>10. RunsPublished'
  BY <1>3 DEF RunInv, RunsPublished
<1>11. ReadStays'
  BY <1>2, <1>3 DEF RunInv, ReadStays, Moved
<1>12. QED
  BY <1>5, <1>6, <1>7, <1>8, <1>9, <1>10, <1>11 DEF RunInv

LEMMA StopsGood ==
  ASSUME RunInv, NEW j \in Jobs, Stops(j)
  PROVE  RunInv'
<1>1. RemoteTypeOK
  BY DEF RunInv
<1>2. PICK at \in {"releases", "looks", "publishes"}, of \in Ofs : Moved(j, at, jobs[j].to, of) /\ (
       \/ jobs[j].to \in {"off", "forget", "own"} /\ at = "releases"
            /\ runtime' = [Stopped EXCEPT !.wanted = Nothing, !.status = "off", !.leaseTimer = FALSE]
       \/ jobs[j].to \in Kinds /\ at \in {"looks", "publishes"}
            /\ runtime' = [Stopped EXCEPT !.wanted = jobs[j].to]
       \/ jobs[j].to = "hostname" /\ at = "looks" /\ runtime' = Stopped)
  BY <1>1, Moves DEF Stops, Routes, Stages, Ofs
<1>3. jobs[j].at = "stops" /\ UNCHANGED <<db, lease, left>> /\ tunnels' \subseteq Tuns
  BY <1>1 DEF RemoteTypeOK, Stops
<1>4. Stopped \in Runtimes /\ Stopped.url = Nothing /\ Stopped.child = Nothing
        /\ Stopped.setup = Nothing
     /\ ~Stopped.timer /\ Stopped.lost = runtime.lost /\ Stopped.status = "starting"
  BY <1>1 DEF RemoteTypeOK, Stopped, Runtimes
<1>5. runtime' \in Runtimes
  BY <1>2, <1>4 DEF Runtimes
<1>6. runtime'.url = Nothing /\ runtime'.child = Nothing /\ runtime'.setup = Nothing /\ ~runtime'.timer
     /\ runtime'.lost = runtime.lost /\ runtime'.status # "running"
  BY <1>2, <1>4 DEF Runtimes
<1>7. \/ jobs[j].to \notin Kinds /\ jobs[j].to # "setup" /\ jobs'[j].at \in {"releases", "looks"}
      \/ jobs[j].to \in Kinds /\ jobs'[j].at \in {"looks", "publishes"} /\ runtime'.wanted = jobs[j].to
  BY <1>2, <1>4 DEF Moved, Runtimes
<1>8. NoRead \in Readings /\ NoRead.at = "none" /\ ~NoRead.switched
  BY DEF NoRead, Readings
<1>9. read' \in Readings /\ read'.at = read.at /\ (read.at # "none" => read'.switched)
  BY <1>1, <1>8 DEF RemoteTypeOK, Stops, Switched, Readings
<1>10. [NoRead EXCEPT !.switched = FALSE] = NoRead
  BY <1>8 DEF Readings
<1>11. ASSUME read.at = "none" PROVE read' = NoRead
  BY <1>11, <1>10 DEF RunInv, ReadStays, Stops, Switched
<1>12. Turns'
  BY <1>2, <1>3, TurnsKept DEF Stages
<1>13. RemoteTypeOK'
  BY <1>1, <1>2, <1>3, <1>5, <1>9 DEF RemoteTypeOK, Moved
<1>14. OneAtWork'
  BY <1>6, NothingApart DEF RunInv, OneAtWork
<1>15. \A i \in Jobs : Act(i)'
  BY <1>2, <1>3, <1>6, <1>7 DEF RunInv, Turns, Act, Moved
<1>16. \A i \in Jobs : Adopt(i)'
  BY <1>2, <1>6 DEF RunInv, Adopt, Moved
<1>17. RunsPublished'
  BY <1>6 DEF RunsPublished
<1>18. ReadStays'
  BY <1>9, <1>11 DEF ReadStays
<1>19. QED
  BY <1>12, <1>13, <1>14, <1>15, <1>16, <1>17, <1>18 DEF RunInv

LEMMA ReleasesGood ==
  ASSUME RunInv, NEW j \in Jobs, Releases(j)
  PROVE  RunInv'
<1>1. RemoteTypeOK
  BY DEF RunInv
<1>2. PICK of \in Ofs : Moved(j, "publishes", jobs[j].to, of)
  BY <1>1, Moves DEF Releases, Routes, Stages, Ofs
<1>3. jobs[j].at = "releases" /\ UNCHANGED <<runtime, db, tunnels, read, left>>
  BY DEF Releases
<1>4. lease' \in {"ours", "other", "free"}
  BY <1>1 DEF RemoteTypeOK, Releases
<1>5. Turns'
  BY <1>2, <1>3, TurnsKept DEF Stages
<1>6. RemoteTypeOK'
  BY <1>1, <1>2, <1>3, <1>4 DEF RemoteTypeOK, Moved
<1>7. OneAtWork'
  BY <1>2, <1>3 DEF RunInv, OneAtWork, Moved
<1>8. \A i \in Jobs : Act(i)'
  BY <1>2, <1>3 DEF RunInv, Act, Moved
<1>9. \A i \in Jobs : Adopt(i)'
  BY <1>2, <1>3 DEF RunInv, Adopt, Moved
<1>10. RunsPublished'
  BY <1>3 DEF RunInv, RunsPublished
<1>11. ReadStays'
  BY <1>3 DEF RunInv, ReadStays
<1>12. QED
  BY <1>5, <1>6, <1>7, <1>8, <1>9, <1>10, <1>11 DEF RunInv

LEMMA LooksGood ==
  ASSUME RunInv, NEW j \in Jobs, Looks(j)
  PROVE  RunInv'
<1>1. RemoteTypeOK
  BY DEF RunInv
<1>2. PICK at \in {"publishes", "unpublishes"}, of \in Ofs : Moved(j, at, jobs[j].to, of)
        /\ (jobs[j].to = "quick" \/ at = "unpublishes")
  BY <1>1, Moves DEF RemoteTypeOK, Looks, Stages, Ofs, Bases
<1>3. jobs[j].at = "looks" /\ jobs[j].to # "setup"
        /\ UNCHANGED <<runtime, db, lease, tunnels, read, left>>
  BY DEF Looks
<1>4. Turns'
  BY <1>2, <1>3, TurnsKept DEF Stages
<1>5. RemoteTypeOK'
  BY <1>1, <1>2, <1>3 DEF RemoteTypeOK, Moved
<1>6. OneAtWork'
  BY <1>2, <1>3 DEF RunInv, OneAtWork, Moved
<1>7. \A i \in Jobs : Act(i)'
  BY <1>2, <1>3 DEF RunInv, Act, Moved
<1>8. \A i \in Jobs : Adopt(i)'
  BY <1>2, <1>3 DEF RunInv, Adopt, Moved
<1>9. RunsPublished'
  BY <1>3 DEF RunInv, RunsPublished
<1>10. ReadStays'
  BY <1>3 DEF RunInv, ReadStays
<1>11. QED
  BY <1>4, <1>5, <1>6, <1>7, <1>8, <1>9, <1>10 DEF RunInv

LEMMA PublishesGood ==
  ASSUME RunInv, NEW j \in Jobs, Publishes(j)
  PROVE  RunInv'
<1>1. RemoteTypeOK
  BY DEF RunInv
<1>2. PICK next \in {"forgotten", "leases", "idle"} :
       /\ next = "leases" => jobs[j].to = "setup" \/ jobs[j].to \in Kinds
       /\ IF next = "idle" THEN Ends(j) ELSE Goes(j, next, Nothing)
  BY DEF Publishes
<1>3. \/ Moved(j, "idle", Nothing, Nothing)
      \/ Moved(j, "forgotten", jobs[j].to, Nothing)
      \/ Moved(j, "leases", jobs[j].to, Nothing) /\ (jobs[j].to = "setup" \/ jobs[j].to \in Kinds)
  BY <1>1, <1>2, Moves DEF Stages, Ofs
<1>4. jobs[j].at = "publishes" /\ UNCHANGED <<runtime, lease, tunnels, read, left>>
  BY DEF Publishes
<1>5. db \in Bases /\ db.routes \in SUBSET Routes
  BY <1>1 DEF RemoteTypeOK, Bases
<1>6. \A route \in db.routes \cup {Nothing}, enable \in BOOLEAN :
       Published(route, enable) \in Bases /\ Published(route, enable).routes = db.routes
  BY <1>5 DEF Published, Bases
<1>7. PICK enable \in BOOLEAN, given \in SUBSET Routes :
       \/ UNCHANGED db
       \/ \E route \in db.routes \cup {Nothing} :
            db' = [Published(route, enable) EXCEPT !.routes = given]
  BY <1>5, <1>6 DEF Publishes
<1>8. db' \in Bases
  BY <1>5, <1>6, <1>7 DEF Bases
<1>9. Turns'
  BY <1>3, <1>4, TurnsKept DEF Stages
<1>10. RemoteTypeOK'
  BY <1>1, <1>3, <1>4, <1>8 DEF RemoteTypeOK, Moved
<1>11. OneAtWork'
  BY <1>3, <1>4 DEF RunInv, OneAtWork, Moved
<1>12. \A i \in Jobs : Act(i)'
  BY <1>3, <1>4, NothingApart DEF RunInv, Act, Moved
<1>13. \A i \in Jobs : Adopt(i)'
  BY <1>3, <1>4, NothingApart DEF RunInv, Act, Adopt, Moved
<1>14. RunsPublished'
  BY <1>4 DEF RunInv, OneAtWork, Act, RunsPublished
<1>15. ReadStays'
  BY <1>4 DEF RunInv, ReadStays
<1>16. QED
  BY <1>9, <1>10, <1>11, <1>12, <1>13, <1>14, <1>15 DEF RunInv

LEMMA ForgetsGood ==
  ASSUME RunInv, NEW j \in Jobs, Forgets(j)
  PROVE  RunInv'
<1>1. RemoteTypeOK
  BY DEF RunInv
<1>2. Moved(j, "forgetting", jobs[j].to, Nothing)
  BY <1>1, Moves DEF Forgets, Stages, Ofs
<1>3. jobs[j].at = "forgotten" /\ UNCHANGED <<db, lease, tunnels, read, left>>
  BY DEF Forgets
<1>4. runtime' \in Runtimes /\ runtime'.wanted = runtime.wanted /\ runtime'.status = "signing-in"
        /\ runtime'.url = runtime.url /\ runtime'.child = runtime.child /\ runtime'.setup = j
        /\ runtime'.timer = runtime.timer /\ runtime'.lost = runtime.lost
  BY <1>1 DEF RemoteTypeOK, Runtimes, Forgets
<1>5. Turns'
  BY <1>2, TurnsKept DEF Stages
<1>6. RemoteTypeOK'
  BY <1>1, <1>2, <1>3, <1>4 DEF RemoteTypeOK, Moved
<1>7. OneAtWork'
  BY <1>2, <1>3, <1>4 DEF RunInv, OneAtWork, Act, Moved
<1>8. \A i \in Jobs : Act(i)'
  BY <1>2, <1>3 DEF RunInv, Turns, Act, Moved
<1>9. \A i \in Jobs : Adopt(i)'
  BY <1>2, <1>3, <1>4 DEF RunInv, Adopt, Moved
<1>10. RunsPublished'
  BY <1>4 DEF RunsPublished
<1>11. ReadStays'
  BY <1>3 DEF RunInv, ReadStays
<1>12. QED
  BY <1>5, <1>6, <1>7, <1>8, <1>9, <1>10, <1>11 DEF RunInv

LEMMA ForgottenGood ==
  ASSUME RunInv, NEW j \in Jobs, Forgotten(j)
  PROVE  RunInv'
<1>1. RemoteTypeOK
  BY DEF RunInv
<1>2. Moved(j, "idle", Nothing, Nothing)
  BY <1>1, Moves DEF Forgotten
<1>3. jobs[j].at = "forgetting" /\ UNCHANGED <<db, lease, tunnels, read, left>>
  BY DEF Forgotten
<1>4. \/ runtime' = runtime /\ runtime.setup # j
      \/ runtime.setup = j /\ runtime' \in Runtimes /\ runtime'.wanted = runtime.wanted
           /\ runtime'.status = "off" /\ runtime'.url = runtime.url /\ runtime'.child = runtime.child
           /\ runtime'.setup = Nothing /\ runtime'.timer = runtime.timer /\ runtime'.lost = runtime.lost
  BY <1>1 DEF RemoteTypeOK, Runtimes, Forgotten
<1>5. Turns'
  BY <1>2, TurnsKept DEF Stages
<1>6. RemoteTypeOK'
  BY <1>1, <1>2, <1>3, <1>4 DEF RemoteTypeOK, Moved
<1>7. OneAtWork'
  BY <1>2, <1>4, NothingApart DEF RunInv, OneAtWork, Moved
<1>8. \A i \in Jobs : Act(i)'
  BY <1>2, <1>4 DEF RunInv, Act, Moved
<1>9. \A i \in Jobs : Adopt(i)'
  BY <1>2, <1>3, <1>4 DEF RunInv, Adopt, Moved
<1>10. RunsPublished'
  BY <1>3, <1>4 DEF RunInv, RunsPublished
<1>11. ReadStays'
  BY <1>2, <1>3, <1>4 DEF RunInv, ReadStays, Moved
<1>12. QED
  BY <1>5, <1>6, <1>7, <1>8, <1>9, <1>10, <1>11 DEF RunInv

LEMMA UnpublishesGood ==
  ASSUME RunInv, NEW j \in Jobs, Unpublishes(j)
  PROVE  RunInv'
<1>1. RemoteTypeOK
  BY DEF RunInv
<1>2. Moved(j, "begins", jobs[j].to, jobs[j].of)
  BY <1>1, Moves DEF RemoteTypeOK, Unpublishes, Stages, JobRecs
<1>3. jobs[j].at = "unpublishes" /\ UNCHANGED <<runtime, lease, tunnels, read, left>>
  BY DEF Unpublishes
<1>4. db' \in Bases
  BY <1>1, PublishedBase DEF RemoteTypeOK, Unpublishes
<1>5. Turns'
  BY <1>2, <1>3, TurnsKept DEF Stages
<1>6. RemoteTypeOK'
  BY <1>1, <1>2, <1>3, <1>4 DEF RemoteTypeOK, Moved
<1>7. OneAtWork'
  BY <1>2, <1>3 DEF RunInv, OneAtWork, Moved
<1>8. \A i \in Jobs : Act(i)'
  BY <1>2, <1>3 DEF RunInv, Act, Moved
<1>9. \A i \in Jobs : Adopt(i)'
  BY <1>2, <1>3, NothingApart DEF RunInv, Act, Adopt, Moved
<1>10. RunsPublished'
  BY <1>3 DEF RunInv, OneAtWork, Act, RunsPublished
<1>11. ReadStays'
  BY <1>3 DEF RunInv, ReadStays
<1>12. QED
  BY <1>5, <1>6, <1>7, <1>8, <1>9, <1>10, <1>11 DEF RunInv

LEMMA BeginsGood ==
  ASSUME RunInv, NEW j \in Jobs, Begins(j)
  PROVE  RunInv'
<1>1. RemoteTypeOK
  BY DEF RunInv
<1>2. Moved(j, "connecting", "setup", jobs[j].of)
  BY <1>1, Moves DEF Begins, Stages, Aims
<1>3. jobs[j].at = "begins" /\ UNCHANGED <<db, lease, tunnels, read, left>>
  BY DEF Begins
<1>4. runtime' \in Runtimes /\ runtime'.wanted = "domain" /\ runtime'.status = "signing-in"
        /\ runtime'.url = runtime.url /\ runtime'.child = runtime.child /\ runtime'.setup = j
        /\ runtime'.timer = runtime.timer /\ runtime'.lost = runtime.lost
  BY <1>1 DEF RemoteTypeOK, Runtimes, Begins
<1>5. Turns'
  BY <1>2, TurnsKept DEF Stages
<1>6. RemoteTypeOK'
  BY <1>1, <1>2, <1>3, <1>4 DEF RemoteTypeOK, Moved
<1>7. OneAtWork'
  BY <1>2, <1>3, <1>4 DEF RunInv, OneAtWork, Act, Moved
<1>8. \A i \in Jobs : Act(i)'
  BY <1>2, <1>3 DEF RunInv, Turns, Act, Moved
<1>9. \A i \in Jobs : Adopt(i)'
  BY <1>2, <1>3, <1>4 DEF RunInv, Adopt, Moved
<1>10. RunsPublished'
  BY <1>4 DEF RunsPublished
<1>11. ReadStays'
  BY <1>3 DEF RunInv, ReadStays
<1>12. QED
  BY <1>5, <1>6, <1>7, <1>8, <1>9, <1>10, <1>11 DEF RunInv

LEMMA ConnectsGood ==
  ASSUME RunInv, NEW j \in Jobs, Connects(j)
  PROVE  RunInv'
<1>1. RemoteTypeOK
  BY DEF RunInv
<1>2. Moved(j, "connected", jobs[j].to, Nothing)
  BY <1>1, Moves DEF Connects, Stages, Ofs
<1>3. jobs[j].at = "connecting" /\ UNCHANGED <<runtime, lease, tunnels, read, left>>
  BY DEF Connects
<1>4. db' \in Bases /\ db'.published = db.published /\ db'.address = db.address
  BY <1>1 DEF RemoteTypeOK, Connects, Bases, Routes
<1>5. Turns'
  BY <1>2, TurnsKept DEF Stages
<1>6. RemoteTypeOK'
  BY <1>1, <1>2, <1>3, <1>4 DEF RemoteTypeOK, Moved
<1>7. OneAtWork'
  BY <1>2, <1>3 DEF RunInv, OneAtWork, Moved
<1>8. \A i \in Jobs : Act(i)'
  BY <1>2, <1>3 DEF RunInv, Act, Moved
<1>9. \A i \in Jobs : Adopt(i)'
  BY <1>2, <1>3, <1>4 DEF RunInv, Adopt, Moved
<1>10. RunsPublished'
  BY <1>3, <1>4 DEF RunInv, RunsPublished
<1>11. ReadStays'
  BY <1>2, <1>3, <1>4 DEF RunInv, ReadStays, Moved
<1>12. QED
  BY <1>5, <1>6, <1>7, <1>8, <1>9, <1>10, <1>11 DEF RunInv

LEMMA ConnectedGood ==
  ASSUME RunInv, NEW j \in Jobs, Connected(j)
  PROVE  RunInv'
<1>1. RemoteTypeOK
  BY DEF RunInv
<1>2. \/ runtime.setup # j /\ UNCHANGED runtime /\ Moved(j, "idle", Nothing, Nothing)
      \/ runtime.setup = j /\ runtime' = [runtime EXCEPT !.setup = Nothing]
           /\ Moved(j, "publishes", jobs[j].to, "domain")
  BY <1>1, Moves DEF Connected, Routes, Stages, Ofs
<1>3. jobs[j].at = "connected" /\ InTurn /\ UNCHANGED <<db, lease, tunnels, read, left>>
  BY DEF Connected
<1>4. \/ UNCHANGED runtime /\ Moved(j, "idle", Nothing, Nothing)
      \/ runtime.setup = j /\ Moved(j, "publishes", jobs[j].to, "domain") /\ runtime' \in Runtimes
           /\ runtime'.wanted = runtime.wanted /\ runtime'.status = runtime.status
           /\ runtime'.url = runtime.url /\ runtime'.child = runtime.child /\ runtime'.setup = Nothing
           /\ runtime'.timer = runtime.timer /\ runtime'.lost = runtime.lost
  BY <1>1, <1>2 DEF RemoteTypeOK, Runtimes
<1>5. Turns'
  BY <1>2, <1>3, TurnsKept, NobodyActs DEF Stages
<1>6. RemoteTypeOK'
  BY <1>1, <1>3, <1>4 DEF RemoteTypeOK, Moved
<1>7. OneAtWork'
  BY <1>2, <1>4, NothingApart DEF RunInv, OneAtWork, Moved
<1>8. \A i \in Jobs : Act(i)'
  BY <1>3, <1>4, NothingApart DEF RunInv, OneAtWork, Act, Moved
<1>9. \A i \in Jobs : Adopt(i)'
  BY <1>3, <1>4 DEF RunInv, Adopt, Moved
<1>10. RunsPublished'
  BY <1>3, <1>4 DEF RunInv, RunsPublished
<1>11. ReadStays'
  BY <1>2, <1>3, NothingApart DEF RunInv, ReadStays, Moved
<1>12. QED
  BY <1>5, <1>6, <1>7, <1>8, <1>9, <1>10, <1>11 DEF RunInv

LEMMA ConnectFailsGood ==
  ASSUME RunInv, NEW j \in Jobs, ConnectFails(j)
  PROVE  RunInv'
<1>1. RemoteTypeOK
  BY DEF RunInv
<1>2. \/ runtime.setup # j /\ UNCHANGED runtime /\ Moved(j, "idle", Nothing, Nothing)
      \/ runtime.setup = j /\ runtime' = [runtime EXCEPT !.setup = Nothing]
           /\ Moved(j, "publishes", jobs[j].to, "domain")
      \/ runtime.setup = j
           /\ runtime' = [runtime EXCEPT !.setup = Nothing, !.wanted = Nothing, !.status = "error"]
           /\ Moved(j, "idle", Nothing, Nothing)
  BY <1>1, Moves DEF ConnectFails, Routes, Stages, Ofs
<1>3. jobs[j].at = "connecting" /\ InTurn /\ UNCHANGED <<db, lease, tunnels, read, left>>
  BY DEF ConnectFails
<1>4. [runtime EXCEPT !.setup = Nothing] \in Runtimes
     /\ [runtime EXCEPT !.setup = Nothing, !.wanted = Nothing, !.status = "error"] \in Runtimes
  BY <1>1 DEF RemoteTypeOK, Runtimes
<1>5. \/ runtime.setup # j /\ UNCHANGED runtime /\ Moved(j, "idle", Nothing, Nothing)
      \/ runtime.setup = j /\ Moved(j, "publishes", jobs[j].to, "domain") /\ runtime' \in Runtimes
           /\ runtime'.wanted = runtime.wanted /\ runtime'.status = runtime.status
           /\ runtime'.url = runtime.url /\ runtime'.child = runtime.child /\ runtime'.setup = Nothing
           /\ runtime'.timer = runtime.timer /\ runtime'.lost = runtime.lost
      \/ runtime.setup = j /\ Moved(j, "idle", Nothing, Nothing) /\ runtime' \in Runtimes
           /\ runtime'.wanted = Nothing /\ runtime'.status = "error" /\ runtime'.url = runtime.url
           /\ runtime'.child = runtime.child /\ runtime'.setup = Nothing
           /\ runtime'.timer = runtime.timer /\ runtime'.lost = runtime.lost
  BY <1>2, <1>4 DEF Runtimes
<1>6. runtime.setup = j => runtime.child = Nothing /\ ~runtime.timer
  BY NothingApart DEF RunInv, OneAtWork
<1>7. runtime'.lost = 0
        /\ (runtime'.child # Nothing =>
              runtime'.wanted = runtime'.child.kind /\ ~runtime'.timer /\ runtime'.setup = Nothing)
  BY <1>5, <1>6 DEF RunInv, OneAtWork
<1>8. (runtime'.url # Nothing => runtime'.child # Nothing /\ runtime'.url = Address(runtime'.child))
        /\ (runtime'.timer => runtime'.wanted # Nothing /\ runtime'.setup = Nothing)
  BY <1>5, <1>6 DEF RunInv, OneAtWork
<1>9. ASSUME NEW i \in Jobs, runtime'.setup = i
      PROVE  \/ jobs'[i].at = "forgetting"
             \/ jobs'[i].at \in {"connecting", "connected"} /\ runtime'.wanted = "domain"
  BY <1>5, <1>9, NothingApart DEF RunInv, OneAtWork, Moved
<1>10. Turns'
  BY <1>2, <1>3, TurnsKept, NobodyActs DEF Stages
<1>11. RemoteTypeOK'
  BY <1>1, <1>2, <1>3, <1>4 DEF RemoteTypeOK, Moved
<1>12. OneAtWork'
  BY <1>7, <1>8, <1>9 DEF OneAtWork
<1>13. \A i \in Jobs : Act(i)'
  BY <1>3, <1>5, <1>9 DEF RunInv, OneAtWork, Act, Moved
<1>14. \A i \in Jobs : Adopt(i)'
  BY <1>3, <1>5 DEF RunInv, Adopt, Moved
<1>15. RunsPublished'
  BY <1>3, <1>5 DEF RunInv, RunsPublished
<1>16. ReadStays'
  BY <1>3, <1>5, <1>9 DEF RunInv, ReadStays, Moved
<1>17. QED
  BY <1>10, <1>11, <1>12, <1>13, <1>14, <1>15, <1>16 DEF RunInv

----------------------------------------------------------------------------
(* Launches, adoption and what stops a tunnel                              *)

\* So does every step of a launch.
LEMMA LeasesGood ==
  ASSUME RunInv, NEW j \in Jobs, Leases(j)
  PROVE  RunInv'
<1>1. RemoteTypeOK
  BY DEF RunInv
<1>2. PICK at \in {"refused", "leased"} : Moved(j, at, jobs[j].to, Nothing)
  BY <1>1, Moves DEF Leases, Stages, Ofs
<1>3. jobs[j].at = "leases" /\ UNCHANGED <<runtime, db, tunnels, read, left>>
        /\ lease' \in {"ours", "other", "free"}
  BY DEF Leases
<1>4. Turns'
  BY <1>2, <1>3, TurnsKept DEF Stages
<1>5. RemoteTypeOK'
  BY <1>1, <1>2, <1>3 DEF RemoteTypeOK, Moved
<1>6. OneAtWork'
  BY <1>2, <1>3 DEF RunInv, OneAtWork, Moved
<1>7. \A i \in Jobs : Act(i)'
  BY <1>2, <1>3 DEF RunInv, Act, Moved
<1>8. \A i \in Jobs : Adopt(i)'
  BY <1>2, <1>3 DEF RunInv, Adopt, Moved
<1>9. RunsPublished'
  BY <1>3 DEF RunInv, RunsPublished
<1>10. ReadStays'
  BY <1>2, <1>3 DEF RunInv, ReadStays, Moved
<1>11. QED
  BY <1>4, <1>5, <1>6, <1>7, <1>8, <1>9, <1>10 DEF RunInv

LEMMA LeaseRefusedGood ==
  ASSUME RunInv, NEW j \in Jobs, LeaseRefused(j)
  PROVE  RunInv'
<1>1. RemoteTypeOK
  BY DEF RunInv
<1>2. Moved(j, "idle", Nothing, Nothing)
  BY <1>1, Moves DEF LeaseRefused
<1>3. jobs[j].at = "refused" /\ UNCHANGED <<db, lease, tunnels, read, left>>
  BY DEF LeaseRefused
<1>4. ~runtime.timer
  BY <1>3 DEF RunInv, Act
<1>5. runtime' \in Runtimes /\ runtime'.wanted = runtime.wanted /\ runtime'.status = "error"
        /\ runtime'.url = runtime.url /\ runtime'.child = runtime.child
        /\ runtime'.setup = runtime.setup /\ runtime'.timer = TRUE /\ runtime'.lost = runtime.lost
  BY <1>1, <1>4 DEF RemoteTypeOK, Runtimes, LeaseRefused, Armed
<1>6. Turns'
  BY <1>2, TurnsKept DEF Stages
<1>7. RemoteTypeOK'
  BY <1>1, <1>2, <1>3, <1>5 DEF RemoteTypeOK, Moved
<1>8. OneAtWork'
  BY <1>3, <1>5, NothingApart DEF RunInv, OneAtWork, Act
<1>9. \A i \in Jobs : Act(i)'
  BY <1>2, <1>3 DEF RunInv, Turns, Act, Moved
<1>10. \A i \in Jobs : Adopt(i)'
  BY <1>2, <1>3, <1>5 DEF RunInv, Adopt, Moved
<1>11. RunsPublished'
  BY <1>5 DEF RunsPublished
<1>12. ReadStays'
  BY <1>2, <1>3, <1>5 DEF RunInv, ReadStays, Moved
<1>13. QED
  BY <1>6, <1>7, <1>8, <1>9, <1>10, <1>11, <1>12 DEF RunInv

LEMMA LaunchesGood ==
  ASSUME RunInv, NEW j \in Jobs, Launches(j)
  PROVE  RunInv'
<1>1. RemoteTypeOK
  BY DEF RunInv
<1>2. jobs[j].at = "leased" /\ UNCHANGED <<db, lease, read, left>>
  BY DEF Launches
<1>3. PICK r \in Runtimes :
       /\ r.wanted = runtime.wanted /\ r.status = "starting" /\ r.url = runtime.url
            /\ r.child = runtime.child
       /\ r.setup = runtime.setup /\ r.timer = runtime.timer /\ r.lost = runtime.lost
       /\ \/ runtime.wanted = "quick" /\ Spawned(r, "quick") /\ Ends(j)
          \/ runtime.wanted # "quick" /\ runtime' = r /\ Goes(j, "named", Nothing) /\ UNCHANGED tunnels
  BY <1>1 DEF RemoteTypeOK, Runtimes, Launches
<1>4. tunnels' \subseteq Tuns
  BY <1>1, <1>3, SpawnedOne DEF RemoteTypeOK
<1>5. \/ Moved(j, "named", jobs[j].to, Nothing) /\ runtime.wanted # "quick" /\ runtime' = r
      \/ /\ Moved(j, "idle", Nothing, Nothing) /\ runtime.wanted = "quick"
         /\ \E t \in Tuns : t.kind = "quick" /\ runtime' = [r EXCEPT !.child = t]
  BY <1>1, <1>3, SpawnedOne, Moves DEF RemoteTypeOK, Stages, Ofs
<1>6. \/ Moved(j, "named", jobs[j].to, Nothing) /\ runtime.wanted # "quick" /\ runtime' \in Runtimes
           /\ runtime'.wanted = runtime.wanted /\ runtime'.status = "starting"
           /\ runtime'.url = runtime.url /\ runtime'.child = runtime.child
           /\ runtime'.setup = runtime.setup /\ runtime'.timer = runtime.timer
           /\ runtime'.lost = runtime.lost
      \/ /\ Moved(j, "idle", Nothing, Nothing) /\ runtime.wanted = "quick"
         /\ \E t \in Tuns : t.kind = "quick" /\ runtime' \in Runtimes
              /\ runtime'.wanted = runtime.wanted /\ runtime'.status = "starting"
              /\ runtime'.url = runtime.url /\ runtime'.child = t /\ runtime'.setup = runtime.setup
              /\ runtime'.timer = runtime.timer /\ runtime'.lost = runtime.lost
  BY <1>3, <1>5 DEF Runtimes
<1>7. Turns'
  BY <1>2, <1>5, TurnsKept DEF Stages
<1>8. RemoteTypeOK'
  BY <1>1, <1>2, <1>4, <1>6 DEF RemoteTypeOK, Moved
<1>9. OneAtWork'
  BY <1>2, <1>6, NothingApart DEF RunInv, OneAtWork, Act
<1>10. \A i \in Jobs : Act(i)'
  BY <1>2, <1>3, <1>5 DEF RunInv, Runtimes, Turns, Act, Moved
<1>11. \A i \in Jobs : Adopt(i)'
  BY <1>2, <1>6, NothingApart DEF RunInv, Act, Adopt, Moved
<1>12. RunsPublished'
  BY <1>6 DEF RunsPublished
<1>13. ReadStays'
  BY <1>2, <1>6 DEF RunInv, ReadStays, Moved
<1>14. QED
  BY <1>7, <1>8, <1>9, <1>10, <1>11, <1>12, <1>13 DEF RunInv

LEMMA LaunchesNamedGood ==
  ASSUME RunInv, NEW j \in Jobs, LaunchesNamed(j)
  PROVE  RunInv'
<1>1. RemoteTypeOK
  BY DEF RunInv
<1>2. Moved(j, "idle", Nothing, Nothing)
  BY <1>1, Moves DEF LaunchesNamed
<1>3. jobs[j].at = "named" /\ UNCHANGED <<db, lease, read, left>>
  BY DEF LaunchesNamed
<1>4. PICK t \in Tuns \cup {runtime.child}, status \in {runtime.status, "error"} :
       /\ runtime' \in Runtimes /\ runtime'.wanted = runtime.wanted /\ runtime'.status = status
            /\ runtime'.url = runtime.url /\ runtime'.child = t /\ runtime'.setup = runtime.setup
            /\ runtime'.timer = runtime.timer /\ runtime'.lost = runtime.lost
       /\ tunnels' \subseteq Tuns
       /\ \/ t \in Tuns /\ t.kind = "domain"
          \/ t = runtime.child
  BY <1>1, SpawnedOne DEF RemoteTypeOK, Runtimes, LaunchesNamed
<1>5. Turns'
  BY <1>2, TurnsKept DEF Stages
<1>6. RemoteTypeOK'
  BY <1>1, <1>2, <1>3, <1>4 DEF RemoteTypeOK, Moved
<1>7. OneAtWork'
  BY <1>3, <1>4, NothingApart DEF RunInv, OneAtWork, Act
<1>8. \A i \in Jobs : Act(i)'
  BY <1>2, <1>3 DEF RunInv, Turns, Act, Moved
<1>9. \A i \in Jobs : Adopt(i)'
  BY <1>2, <1>3, <1>4, NothingApart DEF RunInv, Act, Adopt, Moved
<1>10. RunsPublished'
  BY <1>3, <1>4 DEF RunInv, OneAtWork, Act, RunsPublished
<1>11. ReadStays'
  BY <1>2, <1>3, <1>4 DEF RunInv, ReadStays, Moved
<1>12. QED
  BY <1>5, <1>6, <1>7, <1>8, <1>9, <1>10, <1>11 DEF RunInv

LEMMA FiresGood ==
  ASSUME RunInv, NEW j \in Jobs, Fires(j)
  PROVE  RunInv'
<1>1. RemoteTypeOK
  BY DEF RunInv
<1>2. Moved(j, "leases", "retry", Nothing) /\ jobs[j].at = "idle"
  BY <1>1, Moves DEF Fires, Stages, Ofs, Aims
<1>3. InTurn /\ UNCHANGED <<db, lease, tunnels, read, left>>
  BY DEF Fires
<1>4. runtime.lost = 0
  BY DEF RunInv, OneAtWork
<1>5. [runtime EXCEPT !.lost = @ - 1].lost = -1
  BY <1>4
<1>6. runtime' \in {[runtime EXCEPT !.timer = FALSE], [runtime EXCEPT !.lost = @ - 1]}
        /\ runtime' # runtime /\ runtime'.lost >= 0
  BY DEF Fires
<1>7. ~(-1 >= 0)
  OBVIOUS
<1>8. runtime' = [runtime EXCEPT !.timer = FALSE]
  BY <1>5, <1>6, <1>7
<1>9. ASSUME ~runtime.timer PROVE [runtime EXCEPT !.timer = FALSE] = runtime
  BY <1>1, <1>9 DEF RemoteTypeOK, Runtimes
<1>10. runtime.timer /\ runtime' \in Runtimes /\ runtime'.wanted = runtime.wanted
         /\ runtime'.status = runtime.status /\ runtime'.url = runtime.url
         /\ runtime'.child = runtime.child /\ runtime'.setup = runtime.setup /\ runtime'.timer = FALSE
         /\ runtime'.lost = runtime.lost
  BY <1>1, <1>6, <1>8 DEF RemoteTypeOK, Runtimes
<1>11. Turns'
  BY <1>2, <1>3, TurnsKept, NobodyActs DEF Stages
<1>12. RemoteTypeOK'
  BY <1>1, <1>2, <1>3, <1>10 DEF RemoteTypeOK, Moved
<1>13. OneAtWork'
  BY <1>6, <1>8, <1>9, NothingApart DEF RunInv, OneAtWork
<1>14. \A i \in Jobs : Act(i)'
  BY <1>2, <1>6, <1>8, <1>9 DEF RunInv, OneAtWork, Act, Moved
<1>15. \A i \in Jobs : Adopt(i)'
  BY <1>2, <1>3, <1>8 DEF RunInv, Adopt, Moved
<1>16. RunsPublished'
  BY <1>3, <1>8 DEF RunInv, RunsPublished
<1>17. ReadStays'
  BY <1>2, <1>3, <1>8 DEF RunInv, ReadStays, Moved
<1>18. QED
  BY <1>11, <1>12, <1>13, <1>14, <1>15, <1>16, <1>17 DEF RunInv

\* And of an adoption: it ends with the address of the tunnel that runs.
LEMMA AnnouncesGood ==
  ASSUME RunInv, NEW j \in Jobs, Announces(j)
  PROVE  RunInv'
<1>1. RemoteTypeOK
  BY DEF RunInv
<1>2. Moved(j, "checks", runtime.child.kind, runtime.child) /\ jobs[j].at = "idle"
        /\ runtime.child \in Tuns
  BY <1>1, Moves DEF RemoteTypeOK, Announces, Stages, Ofs, Aims, Tuns, Choices
<1>3. (\A i \in Jobs : jobs[i].at \in Lasting) /\ UNCHANGED <<db, lease, tunnels, read, left>>
  BY DEF Announces
<1>4. runtime.url # Address(runtime.child) /\ runtime' \in Runtimes /\ runtime'.wanted = runtime.wanted
        /\ runtime'.status = runtime.status /\ runtime'.url = Address(runtime.child)
        /\ runtime'.child = runtime.child /\ runtime'.setup = runtime.setup
        /\ runtime'.timer = runtime.timer /\ runtime'.lost = runtime.lost
  BY <1>1, NothingApart DEF RemoteTypeOK, Runtimes, Announces
<1>5. runtime.status # "running"
  BY <1>4 DEF RunInv, RunsPublished, OneAtWork
<1>6. Turns'
  BY <1>2, <1>3, TurnsKept DEF Stages
<1>7. RemoteTypeOK'
  BY <1>1, <1>2, <1>3, <1>4 DEF RemoteTypeOK, Moved
<1>8. OneAtWork'
  BY <1>2, <1>4, NothingApart DEF RunInv, OneAtWork
<1>9. \A i \in Jobs : Act(i)'
  BY <1>2, <1>3 DEF RunInv, Act, Moved
<1>10. \A i \in Jobs : Adopt(i)'
  BY <1>2, <1>3, <1>4, <1>5 DEF Adopt, Moved
<1>11. RunsPublished'
  BY <1>4, <1>5 DEF RunsPublished
<1>12. ReadStays'
  BY <1>2, <1>3, <1>4, NothingApart DEF RunInv, OneAtWork, ReadStays, Moved
<1>13. QED
  BY <1>6, <1>7, <1>8, <1>9, <1>10, <1>11, <1>12 DEF RunInv

LEMMA ChecksGood ==
  ASSUME RunInv, NEW j \in Jobs, Checks(j)
  PROVE  RunInv'
<1>1. RemoteTypeOK
  BY DEF RunInv
<1>2. Moved(j, "saves", jobs[j].to, jobs[j].of) \/ Moved(j, "idle", Nothing, Nothing)
  BY <1>1, Moves DEF RemoteTypeOK, Checks, Stages, JobRecs
<1>3. jobs[j].at = "checks" /\ UNCHANGED <<runtime, db, lease, tunnels, read, left>>
  BY DEF Checks
<1>4. Turns'
  BY <1>2, <1>3, TurnsKept DEF Stages
<1>5. RemoteTypeOK'
  BY <1>1, <1>2, <1>3 DEF RemoteTypeOK, Moved
<1>6. OneAtWork'
  BY <1>2, <1>3 DEF RunInv, OneAtWork, Moved
<1>7. \A i \in Jobs : Act(i)'
  BY <1>2, <1>3 DEF RunInv, Act, Moved
<1>8. \A i \in Jobs : Adopt(i)'
  BY <1>2, <1>3 DEF RunInv, Adopt, Moved
<1>9. RunsPublished'
  BY <1>3 DEF RunInv, RunsPublished
<1>10. ReadStays'
  BY <1>2, <1>3 DEF RunInv, ReadStays, Moved
<1>11. QED
  BY <1>4, <1>5, <1>6, <1>7, <1>8, <1>9, <1>10 DEF RunInv

LEMMA SavesGood ==
  ASSUME RunInv, NEW j \in Jobs, Saves(j)
  PROVE  RunInv'
<1>1. RemoteTypeOK
  BY DEF RunInv
<1>2. \/ /\ Moved(j, "reports", jobs[j].to, jobs[j].of) /\ UNCHANGED runtime
         /\ jobs[j].to = "quick"
              => db' = [Published("quick", TRUE) EXCEPT !.routes = @ \cup {"quick"},
                                                       !.address = jobs[j].of.n]
         /\ jobs[j].to = "domain" => db' = Published("domain", TRUE)
      \/ Moved(j, "idle", Nothing, Nothing) /\ UNCHANGED db
           /\ runtime' = [runtime EXCEPT !.status = "error"]
  BY <1>1, Moves DEF RemoteTypeOK, Saves, Stages, JobRecs
<1>3. jobs[j].at = "saves" /\ UNCHANGED <<lease, tunnels, read, left>>
  BY DEF Saves
<1>4. jobs[j].of \in Tuns /\ jobs[j].to = jobs[j].of.kind /\ runtime.status # "running"
  BY <1>3 DEF RunInv, Adopt
<1>5. jobs[j].to = "quick" \/ jobs[j].to = "domain"
  BY <1>4 DEF Tuns
<1>6. Published("quick", TRUE) \in Bases /\ Published("domain", TRUE) \in Bases
        /\ Published("quick", TRUE).published = "quick"
        /\ Published("domain", TRUE).published = "domain"
  BY <1>1, PublishedBase DEF RemoteTypeOK, Routes
<1>7. jobs[j].of.n \in Nat /\ "quick" \in Routes
  BY <1>4, NothingApart DEF Routes
<1>8. LET next == [Published("quick", TRUE) EXCEPT !.routes = @ \cup {"quick"},
                                                       !.address = jobs[j].of.n]
       IN next \in Bases /\ next.published = "quick" /\ next.address = jobs[j].of.n
  BY <1>6, <1>7 DEF Bases
<1>9. [runtime EXCEPT !.status = "error"] \in Runtimes
  BY <1>1 DEF RemoteTypeOK, Runtimes
<1>10. \/ /\ UNCHANGED runtime /\ Moved(j, "reports", jobs[j].to, jobs[j].of)
          /\ db' \in Bases /\ db'.published = jobs[j].to
               /\ (jobs[j].to = "quick" => db'.address = jobs[j].of.n)
       \/ UNCHANGED db /\ Moved(j, "idle", Nothing, Nothing)
            /\ runtime' = [runtime EXCEPT !.status = "error"]
  BY <1>2, <1>5, <1>6, <1>8
<1>11. \/ UNCHANGED runtime /\ Moved(j, "reports", jobs[j].to, jobs[j].of)
       \/ UNCHANGED db /\ Moved(j, "idle", Nothing, Nothing) /\ runtime' \in Runtimes
            /\ runtime'.wanted = runtime.wanted /\ runtime'.status = "error"
            /\ runtime'.url = runtime.url /\ runtime'.child = runtime.child
            /\ runtime'.setup = runtime.setup /\ runtime'.timer = runtime.timer
            /\ runtime'.lost = runtime.lost
  BY <1>9, <1>10 DEF Runtimes
<1>12. Turns'
  BY <1>2, <1>3, TurnsKept DEF Stages
<1>13. RemoteTypeOK'
  BY <1>1, <1>3, <1>9, <1>10 DEF RemoteTypeOK, Moved
<1>14. OneAtWork'
  BY <1>3, <1>11 DEF RunInv, OneAtWork, Moved
<1>15. \A i \in Jobs : Act(i)'
  BY <1>11 DEF RunInv, Act, Moved
<1>16. \A i \in Jobs : Adopt(i)'
  BY <1>3, <1>10, <1>11 DEF RunInv, Adopt, Moved
<1>17. RunsPublished'
  BY <1>4, <1>11 DEF RunsPublished
<1>18. ReadStays'
  BY <1>3, <1>10, <1>11 DEF RunInv, ReadStays, Moved
<1>19. QED
  BY <1>12, <1>13, <1>14, <1>15, <1>16, <1>17, <1>18 DEF RunInv

LEMMA ReportsGood ==
  ASSUME RunInv, NEW j \in Jobs, Reports(j)
  PROVE  RunInv'
<1>1. RemoteTypeOK
  BY DEF RunInv
<1>2. Moved(j, "idle", Nothing, Nothing)
  BY <1>1, Moves DEF Reports
<1>3. jobs[j].at = "reports" /\ UNCHANGED <<db, lease, tunnels, read, left>>
  BY DEF Reports
<1>4. \/ runtime' = runtime
      \/ runtime.url = Address(jobs[j].of) /\ runtime' \in Runtimes /\ runtime'.wanted = runtime.wanted
           /\ runtime'.status = "running" /\ runtime'.url = runtime.url
           /\ runtime'.child = runtime.child /\ runtime'.setup = runtime.setup
           /\ runtime'.timer = runtime.timer /\ runtime'.lost = runtime.lost
  BY <1>1 DEF RemoteTypeOK, Runtimes, Reports
<1>5. Turns'
  BY <1>2, TurnsKept DEF Stages
<1>6. RemoteTypeOK'
  BY <1>1, <1>2, <1>3, <1>4 DEF RemoteTypeOK, Moved
<1>7. OneAtWork'
  BY <1>2, <1>3, <1>4 DEF RunInv, OneAtWork, Moved
<1>8. \A i \in Jobs : Act(i)'
  BY <1>2, <1>4 DEF RunInv, Act, Moved
<1>9. \A i \in Jobs : Adopt(i)'
  BY <1>2, <1>3 DEF RunInv, Turns, Adopt, Moved
<1>10. RunsPublished'
  BY <1>3, <1>4, NothingApart DEF RunInv, Adopt, RunsPublished
<1>11. ReadStays'
  BY <1>2, <1>3, <1>4 DEF RunInv, ReadStays, Moved
<1>12. QED
  BY <1>5, <1>6, <1>7, <1>8, <1>9, <1>10, <1>11 DEF RunInv

\* A tunnel that stops, is given up with the lease or dies with its process
\* leaves nothing called running.
LEMMA ExitsGood ==
  ASSUME RunInv, NEW t \in tunnels, Exits(t)
  PROVE  RunInv'
<1>1. RemoteTypeOK
  BY DEF RunInv
<1>2. tunnels' \subseteq Tuns /\ t \in Tuns /\ UNCHANGED <<db, lease, jobs, read>>
  BY <1>1 DEF RemoteTypeOK, Exits
<1>3. lease' \in {"ours", "other", "free"}
        /\ left' \in [choices : Nat, troubles : Nat, ousted : BOOLEAN]
  BY <1>1 DEF RemoteTypeOK, Exits, Spent
<1>4. runtime.child = t => runtime.wanted # Nothing /\ ~runtime.timer
  BY <1>2, NothingApart DEF RunInv, OneAtWork
<1>5. \/ runtime' = runtime
      \/ runtime.child = t /\ runtime' \in Runtimes /\ runtime'.wanted = runtime.wanted
           /\ runtime'.status = "error" /\ runtime'.url = Nothing /\ runtime'.child = Nothing
           /\ runtime'.setup = runtime.setup /\ runtime'.timer = TRUE /\ runtime'.lost = runtime.lost
  BY <1>1, <1>4 DEF RemoteTypeOK, Runtimes, Exits, Armed
<1>6. Turns'
  BY <1>2 DEF RunInv, Turns
<1>7. RemoteTypeOK'
  BY <1>1, <1>2, <1>3, <1>5 DEF RemoteTypeOK
<1>8. OneAtWork'
  BY <1>2, <1>5, NothingApart DEF RunInv, OneAtWork
<1>9. \A i \in Jobs : Act(i)'
  BY <1>2, <1>5, NothingApart DEF RunInv, Act
<1>10. \A i \in Jobs : Adopt(i)'
  BY <1>2, <1>5 DEF RunInv, Adopt
<1>11. RunsPublished'
  BY <1>2, <1>5 DEF RunInv, RunsPublished
<1>12. ReadStays'
  BY <1>2, <1>5 DEF RunInv, ReadStays
<1>13. QED
  BY <1>6, <1>7, <1>8, <1>9, <1>10, <1>11, <1>12 DEF RunInv

LEMMA OustedGood ==
  ASSUME RunInv, Ousted
  PROVE  RunInv'
<1>1. RemoteTypeOK
  BY DEF RunInv
<1>2. tunnels' \subseteq Tuns /\ UNCHANGED <<db, lease, jobs, read>>
  BY <1>1 DEF RemoteTypeOK, Ousted
<1>3. lease' \in {"ours", "other", "free"}
        /\ left' \in [choices : Nat, troubles : Nat, ousted : BOOLEAN]
  BY <1>1 DEF RemoteTypeOK, Ousted
<1>4. runtime' \in Runtimes /\ runtime'.wanted = runtime.wanted /\ runtime'.status = "error"
        /\ runtime'.url = Nothing /\ runtime'.child = Nothing /\ runtime'.setup = runtime.setup
        /\ runtime'.timer = runtime.timer /\ runtime'.lost = runtime.lost
  BY <1>1 DEF RemoteTypeOK, Runtimes, Ousted
<1>5. Turns'
  BY <1>2 DEF RunInv, Turns
<1>6. RemoteTypeOK'
  BY <1>1, <1>2, <1>3, <1>4 DEF RemoteTypeOK
<1>7. OneAtWork'
  BY <1>2, <1>4 DEF RunInv, OneAtWork
<1>8. \A i \in Jobs : Act(i)'
  BY <1>2, <1>4 DEF RunInv, Act
<1>9. \A i \in Jobs : Adopt(i)'
  BY <1>2, <1>4 DEF RunInv, Adopt
<1>10. RunsPublished'
  BY <1>4 DEF RunsPublished
<1>11. ReadStays'
  BY <1>2, <1>4 DEF RunInv, ReadStays
<1>12. QED
  BY <1>5, <1>6, <1>7, <1>8, <1>9, <1>10, <1>11 DEF RunInv

LEMMA RestartsGood ==
  ASSUME RunInv, NEW j \in Jobs, Restarts(j)
  PROVE  RunInv'
<1>1. RemoteTypeOK
  BY DEF RunInv
<1>2. jobs' \in [Jobs -> JobRecs] /\ \A i \in Jobs : jobs'[i].at \in {"boots", "idle"}
        /\ (jobs'[i].at = "boots" => i = j)
  BY DEF Restarts, Stages, Ofs, Aims, Idle, JobRecs
<1>3. tunnels' \subseteq Tuns /\ lease' \in {"ours", "other", "free"} /\ UNCHANGED db
  BY <1>1 DEF Restarts, RemoteTypeOK
<1>4. left' \in [choices : Nat, troubles : Nat, ousted : BOOLEAN]
  BY <1>1 DEF RemoteTypeOK, Restarts, Spent
<1>5. read' = NoRead /\ NoRead \in Readings /\ NoRead.at = "none"
  BY DEF Restarts, NoRead, Readings
<1>6. runtime' \in Runtimes /\ runtime'.wanted = Nothing /\ runtime'.status = "off"
        /\ runtime'.url = Nothing /\ runtime'.child = Nothing /\ runtime'.setup = Nothing
        /\ ~runtime'.timer /\ runtime'.lost = 0
  BY DEF Restarts, NewRuntime, Runtimes
<1>7. Turns'
  BY <1>2 DEF Turns
<1>8. RemoteTypeOK'
  BY <1>1, <1>2, <1>3, <1>4, <1>5, <1>6 DEF RemoteTypeOK
<1>9. OneAtWork'
  BY <1>6, NothingApart DEF OneAtWork
<1>10. \A i \in Jobs : Act(i)'
  BY <1>2, <1>6 DEF Act
<1>11. \A i \in Jobs : Adopt(i)'
  BY <1>2 DEF Adopt
<1>12. RunsPublished'
  BY <1>6 DEF RunsPublished
<1>13. ReadStays'
  BY <1>5 DEF ReadStays
<1>14. QED
  BY <1>7, <1>8, <1>9, <1>10, <1>11, <1>12, <1>13 DEF RunInv

\* A process that starts runs what is published.
LEMMA BootsGood ==
  ASSUME RunInv, NEW j \in Jobs, Boots(j)
  PROVE  RunInv'
<1>1. RemoteTypeOK
  BY DEF RunInv
<1>2. PICK of \in Ofs :
        (Moved(j, "resumes", jobs[j].to, of) /\ of \in Kinds) \/ Moved(j, "idle", Nothing, Nothing)
  BY <1>1, Moves DEF Boots, Routes, Stages, Ofs
<1>3. jobs[j].at = "boots" /\ UNCHANGED <<runtime, db, lease, tunnels, read, left>>
  BY DEF Boots
<1>4. Turns'
  BY <1>2, <1>3, TurnsKept DEF Stages
<1>5. RemoteTypeOK'
  BY <1>1, <1>2, <1>3 DEF RemoteTypeOK, Moved
<1>6. OneAtWork'
  BY <1>2, <1>3 DEF RunInv, OneAtWork, Moved
<1>7. \A i \in Jobs : Act(i)'
  BY <1>2, <1>3 DEF RunInv, Act, Moved
<1>8. \A i \in Jobs : Adopt(i)'
  BY <1>2, <1>3 DEF RunInv, Adopt, Moved
<1>9. RunsPublished'
  BY <1>3 DEF RunInv, RunsPublished
<1>10. ReadStays'
  BY <1>3 DEF RunInv, ReadStays
<1>11. QED
  BY <1>4, <1>5, <1>6, <1>7, <1>8, <1>9, <1>10 DEF RunInv

LEMMA ResumesGood ==
  ASSUME RunInv, NEW j \in Jobs, Resumes(j)
  PROVE  RunInv'
<1>1. RemoteTypeOK
  BY DEF RunInv
<1>2. Moved(j, "leases", jobs[j].to, Nothing) \/ Moved(j, "idle", Nothing, Nothing)
  BY <1>1, Moves DEF Resumes, Stages, Ofs
<1>3. jobs[j].at = "resumes" /\ UNCHANGED <<db, lease, tunnels, read, left>>
  BY DEF Resumes
<1>4. jobs[j].of \in Kinds
  BY <1>3 DEF RunInv, Act
<1>5. runtime' \in Runtimes /\ runtime'.wanted = jobs[j].of /\ runtime'.status = runtime.status
        /\ runtime'.url = runtime.url /\ runtime'.child = runtime.child
        /\ runtime'.setup = runtime.setup /\ runtime'.timer = runtime.timer
        /\ runtime'.lost = runtime.lost
  BY <1>1, <1>4 DEF RemoteTypeOK, Runtimes, Resumes
<1>6. Turns'
  BY <1>2, <1>3, TurnsKept DEF Stages
<1>7. RemoteTypeOK'
  BY <1>1, <1>2, <1>3, <1>5 DEF RemoteTypeOK, Moved
<1>8. OneAtWork'
  BY <1>3, <1>5, NothingApart DEF RunInv, OneAtWork, Act
<1>9. \A i \in Jobs : Act(i)'
  BY <1>2, <1>3, <1>5, NothingApart DEF RunInv, Turns, Act, Moved
<1>10. \A i \in Jobs : Adopt(i)'
  BY <1>2, <1>3, <1>5 DEF RunInv, Adopt, Moved
<1>11. RunsPublished'
  BY <1>3, <1>5 DEF RunInv, RunsPublished
<1>12. ReadStays'
  BY <1>3 DEF RunInv, ReadStays
<1>13. QED
  BY <1>6, <1>7, <1>8, <1>9, <1>10, <1>11, <1>12 DEF RunInv

----------------------------------------------------------------------------
(* remoteAccessState                                                       *)

\* A read that begins while the tunnel runs finds its route published; while
\* nobody chooses it stays so.
LEMMA ReadsGood ==
  ASSUME RunInv, Reads
  PROVE  RunInv'
<1>1. RemoteTypeOK
  BY DEF RunInv
<1>2. read.at = "none" /\ UNCHANGED <<runtime, db, lease, tunnels, jobs, left>>
  BY DEF Reads, NoRead
<1>3. read' \in Readings /\ read'.at = "asks" /\ (read'.running => runtime.status = "running")
        /\ ~read'.switched
  BY DEF Reads, NoRead, Readings
<1>4. ASSUME runtime.status = "running"
      PROVE  /\ runtime.wanted # Nothing /\ db.published = runtime.wanted /\ runtime.setup = Nothing
             /\ \A i \in Jobs : jobs[i].at \notin Adopting /\ jobs[i].at \notin Acts \ {"stops"}
  BY <1>4, NothingApart DEF RemoteTypeOK, Runtimes, RunInv, RunsPublished, OneAtWork, Act, Adopt
<1>5. \A i \in Jobs : jobs[i].at \in Stages
  BY <1>1 DEF RemoteTypeOK, JobRecs
<1>6. Turns'
  BY <1>2 DEF RunInv, Turns
<1>7. RemoteTypeOK'
  BY <1>1, <1>2, <1>3 DEF RemoteTypeOK
<1>8. OneAtWork'
  BY <1>2 DEF RunInv, OneAtWork
<1>9. \A i \in Jobs : Act(i)'
  BY <1>2 DEF RunInv, Act
<1>10. \A i \in Jobs : Adopt(i)'
  BY <1>2 DEF RunInv, Adopt
<1>11. RunsPublished'
  BY <1>2 DEF RunInv, RunsPublished
<1>12. ReadStays'
  BY <1>2, <1>3, <1>4, <1>5 DEF ReadStays, Stages
<1>13. QED
  BY <1>6, <1>7, <1>8, <1>9, <1>10, <1>11, <1>12 DEF RunInv

LEMMA ReadsRouteGood ==
  ASSUME RunInv, ReadsRoute
  PROVE  RunInv'
<1>1. RemoteTypeOK
  BY DEF RunInv
<1>2. read.at = "asks" /\ UNCHANGED <<runtime, db, lease, tunnels, jobs, left>>
  BY DEF ReadsRoute
<1>3. read' \in Readings /\ read'.at = "answers" /\ read'.running = read.running
        /\ read'.switched = read.switched /\ read'.route = db.published
  BY <1>1 DEF RemoteTypeOK, ReadsRoute, Readings, Bases
<1>4. Turns'
  BY <1>2 DEF RunInv, Turns
<1>5. RemoteTypeOK'
  BY <1>1, <1>2, <1>3 DEF RemoteTypeOK
<1>6. OneAtWork'
  BY <1>2 DEF RunInv, OneAtWork
<1>7. \A i \in Jobs : Act(i)'
  BY <1>2 DEF RunInv, Act
<1>8. \A i \in Jobs : Adopt(i)'
  BY <1>2 DEF RunInv, Adopt
<1>9. RunsPublished'
  BY <1>2 DEF RunInv, RunsPublished
<1>10. ReadStays'
  BY <1>2, <1>3 DEF RunInv, ReadStays
<1>11. QED
  BY <1>4, <1>5, <1>6, <1>7, <1>8, <1>9, <1>10 DEF RunInv

LEMMA AnswersGood ==
  ASSUME RunInv, Answers
  PROVE  RunInv'
<1>1. RemoteTypeOK
  BY DEF RunInv
<1>2. UNCHANGED <<runtime, db, lease, tunnels, jobs, left>>
  BY DEF Answers
<1>3. read' = NoRead /\ NoRead \in Readings /\ NoRead.at = "none"
  BY DEF Answers, NoRead, Readings
<1>4. Turns'
  BY <1>2 DEF RunInv, Turns
<1>5. RemoteTypeOK'
  BY <1>1, <1>2, <1>3 DEF RemoteTypeOK
<1>6. OneAtWork'
  BY <1>2 DEF RunInv, OneAtWork
<1>7. \A i \in Jobs : Act(i)'
  BY <1>2 DEF RunInv, Act
<1>8. \A i \in Jobs : Adopt(i)'
  BY <1>2 DEF RunInv, Adopt
<1>9. RunsPublished'
  BY <1>2 DEF RunInv, RunsPublished
<1>10. ReadStays'
  BY <1>3 DEF ReadStays
<1>11. QED
  BY <1>4, <1>5, <1>6, <1>7, <1>8, <1>9, <1>10 DEF RunInv

----------------------------------------------------------------------------
(* The theorems                                                            *)

\* A process starts with the invariant, and every step keeps it.
LEMMA RunInit ==
  ASSUME RemoteInit, ~Overlapping
  PROVE  RunInv
<1>1. runtime \in Runtimes /\ runtime.wanted = Nothing /\ runtime.status = "off"
        /\ runtime.url = Nothing
     /\ runtime.child = Nothing /\ runtime.setup = Nothing /\ ~runtime.timer /\ runtime.lost = 0
  BY DEF RemoteInit, NewRuntime, Runtimes
<1>2. Idle \in JobRecs /\ Idle.at = "idle"
  BY DEF Idle, JobRecs, Stages, Aims, Ofs
<1>3. jobs \in [Jobs -> JobRecs] /\ \A j \in Jobs : jobs[j].at = "idle"
  BY <1>2 DEF RemoteInit
<1>4. db \in Bases
  BY DEF RemoteInit, Bases, Routes
<1>5. read = NoRead /\ NoRead \in Readings /\ NoRead.at = "none"
  BY DEF RemoteInit, NoRead, Readings
<1>6. left \in [choices : Nat, troubles : Nat, ousted : BOOLEAN]
  BY RemoteAccessAssumption DEF RemoteInit
<1>7. RemoteTypeOK
  BY <1>1, <1>3, <1>4, <1>5, <1>6 DEF RemoteInit, RemoteTypeOK
<1>8. Turns /\ OneAtWork /\ RunsPublished /\ ReadStays
  BY <1>1, <1>3, <1>5, NothingApart DEF Turns, OneAtWork, RunsPublished, ReadStays
<1>9. (\A j \in Jobs : Act(j)) /\ (\A j \in Jobs : Adopt(j))
  BY <1>3 DEF Act, Adopt
<1>10. QED
  BY <1>7, <1>8, <1>9 DEF RunInv

LEMMA RunStep ==
  ASSUME RunInv, [RemoteNext]_remoteVars
  PROVE  RunInv'
<1>1. ASSUME NEW j \in Jobs, JobStep(j) PROVE RunInv'
  BY <1>1, StopsGood, ReleasesGood, LooksGood, PublishesGood, ForgetsGood, ForgottenGood,
     UnpublishesGood,
     BeginsGood, ConnectsGood, ConnectedGood, ConnectFailsGood, LeasesGood, LeaseRefusedGood, LaunchesGood,
     LaunchesNamedGood, ChecksGood, SavesGood, ReportsGood, BootsGood, ResumesGood DEF JobStep
<1>2. ASSUME NEW j \in Jobs, Fires(j) \/ Announces(j) \/ Restarts(j) PROVE RunInv'
  BY <1>2, FiresGood, AnnouncesGood, RestartsGood
<1>3. ASSUME NEW j \in Jobs, NEW to \in Choices, Chosen(j, to) PROVE RunInv'
  BY <1>3, ChosenGood
<1>4. ASSUME NEW t \in tunnels, Exits(t) PROVE RunInv'
  BY <1>4, ExitsGood
<1>5. CASE Reads \/ ReadsRoute \/ Answers \/ Ousted
  BY <1>5, ReadsGood, ReadsRouteGood, AnswersGood, OustedGood
<1>6. ASSUME Renews \/ Lapses \/ OtherTakes \/ OtherStops \/ UNCHANGED remoteVars PROVE RunInv'
  <2>1. RemoteTypeOK
    BY DEF RunInv
  <2>2. UNCHANGED <<runtime, db, tunnels, jobs, read>>
    BY <1>6 DEF Renews, Lapses, OtherTakes, OtherStops, remoteVars
  <2>3. lease' \in {"ours", "other", "free"}
    BY <1>6, <2>1 DEF RemoteTypeOK, Renews, Lapses, OtherTakes, OtherStops, remoteVars
  <2>4. left' \in [choices : Nat, troubles : Nat, ousted : BOOLEAN]
    BY <1>6, <2>1 DEF RemoteTypeOK, Renews, Lapses, OtherTakes, OtherStops, remoteVars, Spent
  <2>5. QED
    BY <2>2, <2>3, <2>4, LeaseGood
<1>7. QED
  BY <1>1, <1>2, <1>3, <1>4, <1>5, <1>6 DEF RemoteNext

\* Every state of RemoteAccess has these types: the runtime, the published
\* route, the lease, the processes, the calls and the reads.
THEOREM RemoteTypes == RemoteSpec /\ ~Overlapping => []RemoteTypeOK
<1>1. RemoteInit /\ ~Overlapping => RunInv
  BY RunInit
<1>2. RunInv /\ [RemoteNext]_remoteVars => RunInv'
  BY RunStep
<1>3. RunInv => RemoteTypeOK
  BY DEF RunInv
<1>4. QED
  BY <1>1, <1>2, <1>3, PTL DEF RemoteSpec

\* A client told that the tunnel runs (remoteAccessState) is told of the route
\* that tunnel published and the address it has, for any number of calls that
\* take turns, however tunnels stopped, leases lapsed and processes died.
THEOREM RunsTruly == RemoteSpec /\ ~Overlapping => []RunningTruly
<1>1. RemoteInit /\ ~Overlapping => RunInv
  BY RunInit
<1>2. RunInv /\ [RemoteNext]_remoteVars => RunInv'
  BY RunStep
<1>3. RunInv => RunningTruly
  BY NothingApart DEF RunInv, RunningTruly, TellsRunning, RunsPublished, ReadStays, OneAtWork, Address,
     RemoteTypeOK,
     Runtimes, Tuns
<1>4. QED
  BY <1>1, <1>2, <1>3, PTL DEF RemoteSpec

=============================================================================
