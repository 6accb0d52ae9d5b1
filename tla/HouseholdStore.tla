--------------------------- MODULE HouseholdStore ---------------------------
(***************************************************************************)
(* The copy of the household every client shows, and every write to it     *)
(* (src/src/lib/household-store.ts with lib/mutate-gate.ts,                *)
(* lib/household-state.ts and lib/api-client.ts): loads of several reads   *)
(* at once, each answered at its own time; an optimistic change shown      *)
(* until its write ends; the write's answer applied, or set aside for a    *)
(* newer write's; the change followed to the gateway; refreshes by a       *)
(* timer.                                                                  *)
(*                                                                         *)
(* An item stands for a list read by a request of its own, and for the one *)
(* row of it that writes change.  What it holds is the number of the edit  *)
(* that made it so: this client's writes are numbered as they begin, other *)
(* people's edits after the first MaxWrites + 1, which the household       *)
(* starts as.  0 is a list nothing of is loaded.                           *)
(*                                                                         *)
(* A load whose generation is not the newest is one that is not current:   *)
(* loadGen is only ever compared for equality.                             *)
(***************************************************************************)
EXTENDS Naturals, Sequences

CONSTANTS
  Items,         \* lists read by requests of their own
  Loads,         \* bound: loads in flight at once
  MaxWrites,     \* bound: writes of this client
  MaxOthers,     \* bound: edits of other people, changes of the server's version, ends of the session
  MaxFailures    \* bound: requests that fail

ASSUME StoreAssumption ==
  /\ MaxWrites \in Nat /\ MaxOthers \in Nat /\ MaxFailures \in Nat

VARIABLES
  phone,         \* a paired phone: it has an offline guard, and asks for the
                 \* server's version beside every read; a browser does neither
  history,       \* the edits of each item on the server, oldest first
  readable,      \* the server is of a version this client reads
  session,       \* it takes this client's session, which may end once
  shown,         \* groups and devices as the store has them
  status, stale, \* the store's
  writes,        \* the writes begun, oldest first
  reloadAfterWrites,
  loads,         \* the loads in flight
  following,     \* writes whose change is followed to the gateway
  followed,      \* followGen: the newest write that was followed
  others, failures   \* how much of each bound is used up

storeVars == <<phone, history, readable, session, shown, status, stale, writes, reloadAfterWrites, loads,
               following, followed, others, failures>>

First  == MaxWrites + 1
Empty  == [i \in Items |-> 0]
Now(i) == history[i][Len(history[i])]

NoAnswer == [i \in {} |-> 0]
NoLoad   == [stage |-> "idle", full |-> FALSE, current |-> FALSE, ticked |-> FALSE, got |-> NoAnswer]

StoreInit ==
  /\ phone \in BOOLEAN
  /\ history = [i \in Items |-> <<First>>] /\ readable = TRUE /\ session = TRUE
  /\ shown = Empty /\ status = "loading" /\ stale = FALSE
  /\ writes = <<>> /\ reloadAfterWrites = FALSE
  /\ loads = [l \in Loads |-> NoLoad]
  /\ following = {} /\ followed = 0
  /\ others = 0 /\ failures = 0

----------------------------------------------------------------------------
(* Loads                                                                   *)

InFlight == {l \in Loads : loads[l].stage # "idle"}

\* A load set aside: loadGen moved on.
Aside(load) == [load EXCEPT !.current = FALSE, !.got = NoAnswer]

SetAside(ls) == [l \in Loads |-> Aside(ls[l])]

Started(full, ticked) ==
  [stage |-> IF phone THEN "check" ELSE "read", full |-> full, current |-> TRUE,
   ticked |-> ticked, got |-> NoAnswer]

\* One more load, where there is room for it.
Room(ls) == \E l \in Loads : ls[l].stage = "idle"
AndOneMore(ls, load) == [ls EXCEPT ![CHOOSE l \in Loads : ls[l].stage = "idle"] = load]

\* reload, with these loads in flight: only the newest is current.
ReloadWith(ls, ticked) == Room(ls) /\ loads' = AndOneMore(SetAside(ls), Started(TRUE, ticked))

\* refreshLive leaves the loads before it current.
RefreshLive == Room(loads) /\ loads' = AndOneMore(loads, Started(FALSE, TRUE))

Server == <<phone, history, readable, session, others>>
Store  == <<shown, status, stale, writes, reloadAfterWrites, following, followed>>

\* A tick of startRefreshing while the household is on screen: one refresh
\* at a time, a full one when it is due, or what is shown is out of date.
Tick ==
  /\ \A l \in Loads : ~loads[l].ticked
  /\ \/ ReloadWith(loads, TRUE)
     \/ status \notin {"loading", "incompatible"} /\ ~stale /\ RefreshLive
  /\ UNCHANGED <<Server, Store, failures>>

\* The server answers one of a load's requests.
Read(l, i) ==
  /\ session
  /\ loads[l].current /\ i \notin DOMAIN loads[l].got
  /\ loads' = [loads EXCEPT ![l].got =
       [j \in DOMAIN loads[l].got \cup {i} |-> IF j = i THEN Now(i) ELSE loads[l].got[j]]]
  /\ UNCHANGED <<Server, Store, failures>>

Ended(l) == loads' = [loads EXCEPT ![l] = NoLoad]

\* A load that is no longer current says nothing.
Dropped(l) ==
  /\ loads[l].stage # "idle" /\ ~loads[l].current
  /\ Ended(l)
  /\ UNCHANGED <<Server, Store, failures>>

\* withheld: a server that can't be read empties the store.
Withheld(l) ==
  /\ loads[l].current /\ loads[l].stage = "check" /\ ~readable
  /\ shown' = Empty /\ status' = "incompatible" /\ stale' = FALSE
  /\ Ended(l)
  /\ UNCHANGED <<Server, writes, reloadAfterWrites, following, followed, failures>>

Readable(l) ==
  /\ loads[l].current /\ loads[l].stage = "check" /\ readable
  /\ loads' = [loads EXCEPT ![l].stage = "read"]
  /\ UNCHANGED <<Server, Store, failures>>

StoreFault == failures < MaxFailures /\ failures' = failures + 1

\* The check could not be made: it decides nothing, except that a store
\* known to be of another version stays so.
CheckFails(l) ==
  /\ loads[l].current /\ loads[l].stage = "check" /\ StoreFault
  /\ IF status = "incompatible" THEN Ended(l) ELSE loads' = [loads EXCEPT ![l].stage = "read"]
  /\ UNCHANGED <<Server, Store>>

Busy(ws) == \E w \in DOMAIN ws : ws[w].outcome = "sent"

\* What a load read is shown, as if no write could be in flight.
ApplyAtOnce(l) ==
  /\ loads[l].current /\ loads[l].stage = "read" /\ DOMAIN loads[l].got = Items
  /\ shown' = loads[l].got /\ stale' = FALSE
  /\ status' = IF loads[l].full THEN "ready" ELSE status
  /\ Ended(l)
  /\ UNCHANGED <<Server, writes, reloadAfterWrites, following, followed, failures>>

\* Every request is answered: the store takes it, unless a write is in
\* flight, which shows its own change until it ends.
Apply(l) ==
  /\ loads[l].current /\ loads[l].stage = "read" /\ DOMAIN loads[l].got = Items
  /\ IF Busy(writes)
       THEN reloadAfterWrites' = TRUE /\ UNCHANGED <<shown, status, stale>>
       ELSE /\ shown' = loads[l].got /\ stale' = FALSE
            /\ status' = IF loads[l].full THEN "ready" ELSE status
            /\ UNCHANGED reloadAfterWrites
  /\ Ended(l)
  /\ UNCHANGED <<Server, writes, following, followed, failures>>

\* Fails, leaving startRefreshing's inFlight set.
FailsInFlight(l) ==
  /\ loads[l].current /\ loads[l].stage = "read" /\ StoreFault
  /\ stale' = TRUE
  /\ loads' = [loads EXCEPT ![l] = [Aside(@) EXCEPT !.stage = "idle"]]
  /\ UNCHANGED <<Server, shown, status, writes, reloadAfterWrites, following, followed>>

\* No answer came to one of its requests.
Fails(l) ==
  /\ loads[l].current /\ loads[l].stage = "read" /\ StoreFault
  /\ stale' = TRUE
  /\ Ended(l)
  /\ UNCHANGED <<Server, shown, status, writes, reloadAfterWrites, following, followed>>

\* One of them is refused, the session having ended.
Refused(l) ==
  /\ loads[l].current /\ loads[l].stage = "read" /\ ~session /\ DOMAIN loads[l].got # Items
  /\ status' = "signedOut" /\ stale' = TRUE
  /\ Ended(l)
  /\ UNCHANGED <<Server, shown, writes, reloadAfterWrites, following, followed, failures>>

----------------------------------------------------------------------------
(* Writes                                                                  *)

NewestWrite == Len(writes)

CanControl == status # "incompatible" /\ (phone => status = "ready" /\ ~stale)

\* The loads and the flag as a write that begins leaves them.
BeginLoads ==
  /\ loads' = SetAside(loads)
  /\ reloadAfterWrites' = (reloadAfterWrites \/ InFlight # {})

\* mutate, until the request is sent.  One for a group waits for another of
\* the same group, one for none does not: what the former do, these may.
Begin(i, optimistic) ==
  /\ NewestWrite < MaxWrites /\ CanControl
  /\ writes' = Append(writes, [item |-> i, previous |-> shown, landed |-> FALSE, outcome |-> "sent"])
  /\ shown' = IF optimistic THEN [shown EXCEPT ![i] = NewestWrite + 1] ELSE shown
  /\ BeginLoads
  /\ UNCHANGED <<Server, status, stale, following, followed, failures>>

\* The server takes the write, in time or after the connection was lost.
Land(w) ==
  /\ session
  /\ w \in DOMAIN writes /\ ~writes[w].landed /\ writes[w].outcome \in {"sent", "lost"}
  /\ writes' = [writes EXCEPT ![w].landed = TRUE]
  /\ history' = [history EXCEPT ![writes[w].item] = Append(@, w)]
  /\ UNCHANGED <<phone, readable, session, others, shown, status, stale, reloadAfterWrites, loads,
                 following, followed, failures>>

EndedWith(w, outcome) == [writes EXCEPT ![w].outcome = outcome, ![w].previous = Empty]

\* mutate's finally: the last write to end reads again if that was asked.
Finish(w, outcome, ls, again) ==
  /\ writes' = EndedWith(w, outcome)
  /\ IF again /\ ~Busy(writes')
       THEN reloadAfterWrites' = FALSE /\ ReloadWith(ls, FALSE)
       ELSE reloadAfterWrites' = again /\ loads' = ls

\* canCommitMutate: no newer write owns what is shown.
Owns(w) == w = NewestWrite

Sent(w) == w \in DOMAIN writes /\ writes[w].outcome = "sent"

\* Take without moving loadGen on.
TakeKeepingLoads(w) ==
  /\ Sent(w) /\ writes[w].landed /\ Owns(w)
  /\ shown' = [shown EXCEPT ![writes[w].item] = w]
  /\ following' = following \cup {w} /\ followed' = w
  /\ Finish(w, "taken", loads, reloadAfterWrites)
  /\ UNCHANGED <<Server, status, stale, failures>>

\* The answer of the newest write: applied, and the change it made followed.
Take(w) ==
  /\ Sent(w) /\ writes[w].landed /\ Owns(w)
  /\ shown' = [shown EXCEPT ![writes[w].item] = w]
  /\ \/ following' = following \cup {w} /\ followed' = w
     \/ UNCHANGED following /\ followed' = w
  /\ Finish(w, "taken", SetAside(loads), reloadAfterWrites)
  /\ UNCHANGED <<Server, status, stale, failures>>

\* An older write's answer waits for the reload.
PutAside(w) ==
  /\ Sent(w) /\ writes[w].landed /\ ~Owns(w)
  /\ Finish(w, "aside", loads, TRUE)
  /\ UNCHANGED <<Server, shown, status, stale, following, followed, failures>>

\* A refusal of an older write that asks for no reload.
RefuseQuietly(w) ==
  /\ Sent(w) /\ ~writes[w].landed
  /\ shown' = IF Owns(w) THEN writes[w].previous ELSE shown
  /\ Finish(w, "refused", loads, reloadAfterWrites)
  /\ UNCHANGED <<Server, status, stale, following, followed, failures>>

\* The server refuses the write: the newest takes its change back.
Refuse(w) ==
  /\ Sent(w) /\ ~writes[w].landed
  /\ IF Owns(w) THEN /\ shown' = writes[w].previous
                     /\ Finish(w, "refused", loads, reloadAfterWrites)
                ELSE /\ UNCHANGED shown
                     /\ Finish(w, "refused", loads, TRUE)
  /\ UNCHANGED <<Server, status, stale, following, followed, failures>>

\* Its connection is lost, whether it landed or not: a phone reads again at
\* once, and a browser only when an older write is in the way.
Lose(w) ==
  /\ Sent(w) /\ StoreFault
  /\ IF Owns(w)
       THEN /\ shown' = writes[w].previous
            /\ IF phone
                 THEN /\ Room(loads)
                      /\ Finish(w, "lost", AndOneMore(SetAside(loads), Started(TRUE, FALSE)), reloadAfterWrites)
                 ELSE Finish(w, "lost", loads, reloadAfterWrites)
       ELSE UNCHANGED shown /\ Finish(w, "lost", loads, TRUE)
  /\ UNCHANGED <<Server, status, stale, following, followed>>

\* waitForChange ends, or the following of a change fails: a refused change
\* is reported though a newer write was followed, any other is not.
FollowEnds(w) ==
  /\ w \in following
  /\ following' = following \ {w}
  /\ \/ ReloadWith(loads, FALSE)
     \/ w # followed /\ UNCHANGED loads
  /\ UNCHANGED <<Server, shown, status, stale, writes, reloadAfterWrites, followed, failures>>

----------------------------------------------------------------------------
(* Everyone else                                                           *)

Happens == others < MaxOthers /\ others' = others + 1

\* Another client's write, or a pause that ends.
Edit(i) ==
  /\ Happens
  /\ history' = [history EXCEPT ![i] = Append(@, First + others')]
  /\ UNCHANGED <<phone, readable, session, Store, loads, failures>>

\* The server is replaced by a version this client can't read, or back.
Update ==
  /\ phone /\ Happens
  /\ readable' = ~readable
  /\ UNCHANGED <<phone, history, session, Store, loads, failures>>

\* The session is revoked, or runs out.  Signing in again makes a new store.
SignOut ==
  /\ session /\ Happens
  /\ session' = FALSE
  /\ UNCHANGED <<phone, history, readable, Store, loads, failures>>

StoreNext ==
  \/ Tick
  \/ \E l \in Loads, i \in Items : Read(l, i)
  \/ \E l \in Loads : Dropped(l)
  \/ \E l \in Loads : Withheld(l)
  \/ \E l \in Loads : Readable(l)
  \/ \E l \in Loads : CheckFails(l)
  \/ \E l \in Loads : Apply(l)
  \/ \E l \in Loads : Fails(l)
  \/ \E l \in Loads : Refused(l)
  \/ \E i \in Items, optimistic \in BOOLEAN : Begin(i, optimistic)
  \/ \E w \in 1..MaxWrites : Land(w)
  \/ \E w \in 1..MaxWrites : Take(w)
  \/ \E w \in 1..MaxWrites : PutAside(w)
  \/ \E w \in 1..MaxWrites : Refuse(w)
  \/ \E w \in 1..MaxWrites : Lose(w)
  \/ \E w \in 1..MaxWrites : FollowEnds(w)
  \/ \E i \in Items : Edit(i)
  \/ Update
  \/ SignOut

LoadGoesOn(l) == \/ \E i \in Items : Read(l, i)
                 \/ Dropped(l) \/ Withheld(l) \/ Readable(l) \/ CheckFails(l) \/ Apply(l) \/ Refused(l)

WriteEnds(w) == Take(w) \/ PutAside(w) \/ Refuse(w) \/ Lose(w)

\* The timer ticks, and every request is answered, refused or given up.
StoreFairness ==
  /\ WF_storeVars(Tick)
  /\ \A l \in Loads : WF_storeVars(LoadGoesOn(l))
  /\ WF_storeVars(\E w \in 1..MaxWrites : WriteEnds(w))
  /\ WF_storeVars(\E w \in 1..MaxWrites : FollowEnds(w))

StoreSpec == StoreInit /\ [][StoreNext]_storeVars /\ StoreFairness

----------------------------------------------------------------------------
(* Properties                                                              *)

Place(i, e) == IF \E n \in DOMAIN history[i] : history[i][n] = e
                 THEN CHOOSE n \in DOMAIN history[i] : history[i][n] = e
                 ELSE 0

\* A load that answers, or any older write that ends, while the newest write
\* is in flight leaves that write's change on screen.
NewestShown ==
  [][\A w \in DOMAIN writes :
       writes[w].outcome = "sent" /\ Owns(w) /\ Len(writes') = NewestWrite
       /\ writes'[w].outcome = "sent" /\ status' # "incompatible"
       => UNCHANGED shown]_storeVars

\* Once the store has shown a write's answer, no read the household answered
\* before that write may put the older content back, however the reads, the
\* writes and the timer overlap.
TakenStays ==
  \A w \in DOMAIN writes :
    writes[w].outcome = "taken" =>
      LET at == Place(writes[w].item, shown[writes[w].item])
      IN  at # 0 => at >= Place(writes[w].item, w)

\* When no write and no load is in flight and the store calls itself up to
\* date, it shows nothing the household never held, and no less than every
\* write that was answered, those set aside for a newer one included.
UpToDate ==
  /\ ~Busy(writes) /\ ~reloadAfterWrites /\ ~stale /\ status = "ready"
  /\ \A l \in Loads : ~loads[l].current

NothingMadeUp ==
  UpToDate =>
    /\ \A i \in Items : Place(i, shown[i]) # 0
    /\ \A w \in DOMAIN writes :
         writes[w].outcome \in {"taken", "aside"} =>
           Place(writes[w].item, shown[writes[w].item]) >= Place(writes[w].item, w)

\* The store shows the household as it is, up to date and with its controls
\* on; or, where that may not be, that its server can't be read or its
\* session has ended.
ShowsTruth ==
  IF phone /\ ~readable THEN status = "incompatible"
  ELSE IF session THEN status = "ready" /\ ~stale /\ \A i \in Items : shown[i] = Now(i)
  ELSE status = "signedOut"
=============================================================================
