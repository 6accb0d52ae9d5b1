------------------------ MODULE HouseholdStoreProofs ------------------------
(***************************************************************************)
(* For any lists, loads in flight and writes, and any bound on what other  *)
(* people do and what fails: the store never goes back to before a write   *)
(* whose answer it showed, keeps the newest write's change on screen, and  *)
(* shows nothing made up when it calls itself up to date.                  *)
(***************************************************************************)
EXTENDS HouseholdStore, TLAPS

Partial   == UNION {[S -> Nat] : S \in SUBSET Items}
LoadRecs  == [stage : {"idle", "check", "read"}, full : BOOLEAN, current : BOOLEAN, ticked : BOOLEAN,
              got : Partial]
Outcomes  == {"sent", "taken", "aside", "refused", "lost"}
WriteRecs == [item : Items, previous : [Items -> Nat], landed : BOOLEAN, outcome : Outcomes]

StoreTypeOK ==
  /\ phone \in BOOLEAN /\ readable \in BOOLEAN /\ session \in BOOLEAN
  /\ history \in [Items -> Seq(Nat)] /\ \A i \in Items : history[i] # <<>>
  /\ shown \in [Items -> Nat]
  /\ status \in {"loading", "ready", "incompatible", "signedOut"} /\ stale \in BOOLEAN
  /\ writes \in Seq(WriteRecs) /\ Len(writes) <= MaxWrites
  /\ reloadAfterWrites \in BOOLEAN
  /\ loads \in [Loads -> LoadRecs]
  /\ others \in Nat

----------------------------------------------------------------------------
(* What the proofs are about                                               *)

\* Where an edit of an item stands among its edits, and that one is not before
\* another.
Stands(i, e, n) == n \in DOMAIN history[i] /\ history[i][n] = e
NotBefore(i, e, f) == \A m, n \in Nat : Stands(i, e, m) /\ Stands(i, f, n) => n <= m

Taken(w)    == writes[w].outcome = "taken"
Answered(w) == writes[w].outcome \in {"taken", "aside"}

\* What may be put back on screen: no taken write's item to before that write.
Fits(i, e) == \A w \in DOMAIN writes : Taken(w) /\ writes[w].item = i => NotBefore(i, e, w)

\* What the household held, and no less than every answered write.
Good(i, e) ==
  /\ \E n \in Nat : Stands(i, e, n)
  /\ \A w \in DOMAIN writes : Answered(w) /\ writes[w].item = i => NotBefore(i, e, w)

\* An item's edits are its first, landed writes and other people's, each once.
Edits(i) ==
  {First} \cup {w \in DOMAIN writes : writes[w].landed /\ writes[w].item = i} \cup (First + 1)..(First + others)

\* What landed is among them, and what was answered has landed.
LandedStands(w)   == writes[w].landed => \E n \in Nat : Stands(writes[w].item, w, n)
AnsweredLanded(w) == Answered(w) => writes[w].landed

HistoryInv ==
  /\ \A i \in Items : \A n \in DOMAIN history[i] : history[i][n] \in Edits(i)
  /\ \A i \in Items : \A m, n \in DOMAIN history[i] : history[i][m] = history[i][n] => m = n
  /\ \A w \in DOMAIN writes : LandedStands(w) /\ AnsweredLanded(w)

\* The newest write is in flight; an older one is.
NewestSent == NewestWrite # 0 /\ writes[NewestWrite].outcome = "sent"
OlderSent  == \E w \in DOMAIN writes : w < NewestWrite /\ writes[w].outcome = "sent"

\* All that could come back on screen may: what is on it, what a load has read,
\* and what the newest write would take it back to.
TakenInv ==
  /\ \A i \in Items : Fits(i, shown[i])
  /\ \A l \in Loads : \A i \in DOMAIN loads[l].got : Fits(i, loads[l].got[i])
  /\ NewestSent => \A i \in Items : Fits(i, writes[NewestWrite].previous[i])
  /\ \A v, w \in DOMAIN writes :
       v < w /\ Taken(v) /\ writes[w].landed /\ writes[w].item = writes[v].item
         => NotBefore(writes[v].item, w, v)

\* The store does not call itself up to date, or is to read again.
Excused == stale \/ status # "ready" \/ reloadAfterWrites \/ OlderSent
Loading == \E l \in Loads : loads[l].current

\* As long as nothing excuses the store, what it shows is good, and what it
\* would show when the newest write ends, either way, will be.
ReadInv ==
  /\ reloadAfterWrites => Busy(writes)
  /\ ~reloadAfterWrites => \A l \in Loads : \A i \in DOMAIN loads[l].got : Good(i, loads[l].got[i])
  /\ NewestSent /\ ~Excused =>
       /\ \A i \in Items : Good(i, writes[NewestWrite].previous[i])
       /\ \A i \in Items \ {writes[NewestWrite].item} : Good(i, shown[i])
       /\ \A v \in DOMAIN writes :
            Answered(v) /\ writes[v].item = writes[NewestWrite].item
              => NotBefore(writes[v].item, NewestWrite, v)
  /\ ~NewestSent /\ ~Excused /\ ~Loading => \A i \in Items : Good(i, shown[i])

----------------------------------------------------------------------------
(* Sequences and loads                                                     *)

LEMMA SeqDomain ==
  ASSUME NEW S, NEW s \in Seq(S)
  PROVE  /\ Len(s) \in Nat /\ DOMAIN s = 1..Len(s) /\ \A n \in DOMAIN s : s[n] \in S /\ n \in Nat
         /\ s # <<>> => Len(s) \in DOMAIN s
         /\ Len(s) # 0 => Len(s) \in DOMAIN s
OBVIOUS

LEMMA SeqAppend ==
  ASSUME NEW S, NEW s \in Seq(S), NEW e \in S
  PROVE  /\ Append(s, e) \in Seq(S) /\ Append(s, e) # <<>>
         /\ Len(Append(s, e)) = Len(s) + 1
         /\ DOMAIN Append(s, e) = DOMAIN s \cup {Len(s) + 1}
         /\ \A n \in DOMAIN s : Append(s, e)[n] = s[n]
         /\ Append(s, e)[Len(s) + 1] = e
         /\ Len(s) + 1 \notin DOMAIN s /\ \A n \in DOMAIN s : n < Len(s) + 1
OBVIOUS

LEMMA SeqChanged ==
  ASSUME NEW S, NEW s \in Seq(S), NEW n \in DOMAIN s, NEW e \in S
  PROVE  /\ [s EXCEPT ![n] = e] \in Seq(S)
         /\ Len([s EXCEPT ![n] = e]) = Len(s) /\ DOMAIN [s EXCEPT ![n] = e] = DOMAIN s
         /\ [s EXCEPT ![n] = e][n] = e
         /\ \A m \in DOMAIN s \ {n} : [s EXCEPT ![n] = e][m] = s[m]
<1>1. n \in 1..Len(s) /\ DOMAIN s = 1..Len(s) /\ Len(s) \in Nat
  OBVIOUS
<1>2. QED
  BY <1>1, SMT

\* A list nothing is loaded of, and a load that read nothing.
LEMMA Empties ==
  /\ NoAnswer \in Partial /\ DOMAIN NoAnswer = {} /\ NoLoad \in LoadRecs
  /\ NoLoad.got = NoAnswer /\ NoLoad.stage = "idle" /\ ~NoLoad.current
  /\ Empty \in [Items -> Nat] /\ \A i \in Items : Empty[i] = 0
<1>1. NoAnswer \in [{} -> Nat] /\ DOMAIN NoAnswer = {}
  BY DEF NoAnswer
<1>2. NoAnswer \in Partial
  BY <1>1 DEF Partial
<1>3. QED
  BY <1>1, <1>2 DEF NoLoad, LoadRecs, Empty

LEMMA GotTypes ==
  ASSUME NEW g \in Partial
  PROVE  /\ DOMAIN g \subseteq Items /\ \A i \in DOMAIN g : g[i] \in Nat
         /\ DOMAIN g = Items => g \in [Items -> Nat]
         /\ \A i \in Items, n \in Nat :
              [j \in DOMAIN g \cup {i} |-> IF j = i THEN n ELSE g[j]] \in Partial
<1>1. PICK S \in SUBSET Items : g \in [S -> Nat]
  BY DEF Partial
<1>2. ASSUME NEW i \in Items, NEW n \in Nat
      PROVE  [j \in DOMAIN g \cup {i} |-> IF j = i THEN n ELSE g[j]] \in Partial
  <2>1. DOMAIN g \cup {i} \in SUBSET Items
    BY <1>1
  <2>2. [j \in DOMAIN g \cup {i} |-> IF j = i THEN n ELSE g[j]] \in [DOMAIN g \cup {i} -> Nat]
    BY <1>1
  <2>3. QED
    BY <2>1, <2>2 DEF Partial
<1>3. QED
  BY <1>1, <1>2

\* Loads that may be in flight: one that is current is.
Flying(ls) == ls \in [Loads -> LoadRecs] /\ \A l \in Loads : ls[l].current => ls[l].stage # "idle"

\* Nothing that was read comes of new loads but what the old ones read.
ReadFrom(new, old) == \A l \in Loads : DOMAIN new[l].got = {} \/ new[l].got = old[l].got

LEMMA AsideFacts ==
  ASSUME NEW ls, Flying(ls)
  PROVE  /\ Flying(SetAside(ls))
         /\ \A l \in Loads : ~SetAside(ls)[l].current /\ DOMAIN SetAside(ls)[l].got = {}
<1>1. ASSUME NEW l \in Loads
      PROVE  Aside(ls[l]) \in LoadRecs /\ ~Aside(ls[l]).current /\ DOMAIN Aside(ls[l]).got = {}
  BY Empties DEF Flying, Aside, LoadRecs
<1>2. QED
  BY <1>1 DEF SetAside, Flying

LEMMA StartedFacts ==
  ASSUME StoreTypeOK, NEW full \in BOOLEAN, NEW ticked \in BOOLEAN
  PROVE  /\ Started(full, ticked) \in LoadRecs /\ Started(full, ticked).current
         /\ Started(full, ticked).stage # "idle" /\ DOMAIN Started(full, ticked).got = {}
BY Empties DEF StoreTypeOK, Started, LoadRecs

LEMMA OneMoreFacts ==
  ASSUME NEW ls, Flying(ls), Room(ls), NEW load \in LoadRecs, load.current, load.stage # "idle",
         DOMAIN load.got = {}
  PROVE  /\ Flying(AndOneMore(ls, load)) /\ ReadFrom(AndOneMore(ls, load), ls)
         /\ \E l \in Loads : AndOneMore(ls, load)[l].current
<1>1. PICK l \in Loads : AndOneMore(ls, load) = [ls EXCEPT ![l] = load]
  BY DEF Room, AndOneMore
<1>2. QED
  BY <1>1 DEF Flying, ReadFrom

LEMMA ReloadFacts ==
  ASSUME StoreTypeOK, NEW ls, Flying(ls), NEW ticked \in BOOLEAN, ReloadWith(ls, ticked)
  PROVE  /\ Flying(loads') /\ \A l \in Loads : DOMAIN loads'[l].got = {}
         /\ Loading'
<1>1. loads' = AndOneMore(SetAside(ls), Started(TRUE, ticked))
  BY DEF ReloadWith
<1>2. Room(SetAside(ls))
  BY DEF ReloadWith, Room, SetAside, Aside, Flying, LoadRecs
<1>3. Flying(loads') /\ ReadFrom(loads', SetAside(ls)) /\ Loading'
  BY <1>1, <1>2, AsideFacts, StartedFacts, OneMoreFacts DEF Loading
<1>4. QED
  BY <1>3, AsideFacts DEF ReadFrom

\* A write that ends.
LEMMA EndedFacts ==
  ASSUME StoreTypeOK, NEW w, Sent(w), NEW outcome \in Outcomes \ {"sent"}, writes' = EndedWith(w, outcome)
  PROVE  /\ writes' \in Seq(WriteRecs) /\ Len(writes') = Len(writes) /\ DOMAIN writes' = DOMAIN writes
         /\ w \in DOMAIN writes /\ w \in Nat /\ writes[w].item \in Items
         /\ writes'[w].item = writes[w].item /\ writes'[w].landed = writes[w].landed
         /\ writes'[w].outcome = outcome /\ writes[w].outcome = "sent"
         /\ \A v \in DOMAIN writes \ {w} : writes'[v] = writes[v]
<1>0. w \in DOMAIN writes /\ writes \in Seq(WriteRecs) /\ writes[w].outcome = "sent"
  BY DEF Sent, StoreTypeOK
<1>1. writes[w] \in WriteRecs /\ w \in Nat
  BY <1>0, SeqDomain
<1>2. [writes[w] EXCEPT !.outcome = outcome, !.previous = Empty] \in WriteRecs
  BY <1>1, Empties DEF WriteRecs
<1>3. writes' = [writes EXCEPT ![w] = [@ EXCEPT !.outcome = outcome, !.previous = Empty]]
  BY DEF EndedWith
<1>4. writes' = [writes EXCEPT ![w] = [writes[w] EXCEPT !.outcome = outcome, !.previous = Empty]]
  BY <1>0, <1>3
<1>5. /\ writes' \in Seq(WriteRecs) /\ Len(writes') = Len(writes) /\ DOMAIN writes' = DOMAIN writes
      /\ writes'[w] = [writes[w] EXCEPT !.outcome = outcome, !.previous = Empty]
      /\ \A v \in DOMAIN writes \ {w} : writes'[v] = writes[v]
  BY <1>0, <1>2, <1>4, SeqChanged
<1>6. /\ writes'[w].item = writes[w].item /\ writes'[w].landed = writes[w].landed
      /\ writes'[w].outcome = outcome /\ writes[w].item \in Items
  BY <1>1, <1>5 DEF WriteRecs
<1>7. QED
  BY <1>0, <1>1, <1>5, <1>6

\* Its loads: it reads again if that was asked for and it is the last to end.
LEMMA FinishFacts ==
  ASSUME StoreTypeOK, NEW w, Sent(w), NEW outcome \in Outcomes \ {"sent"}, NEW ls, Flying(ls),
         NEW again \in BOOLEAN, Finish(w, outcome, ls, again)
  PROVE  /\ writes' = EndedWith(w, outcome) /\ Flying(loads') /\ ReadFrom(loads', ls)
         /\ reloadAfterWrites' = (again /\ Busy(writes'))
         /\ again /\ ~reloadAfterWrites' => Loading' /\ \A l \in Loads : DOMAIN loads'[l].got = {}
         /\ ~again \/ reloadAfterWrites' => loads' = ls
<1>1. CASE again /\ ~Busy(writes')
  BY <1>1, ReloadFacts DEF Finish, ReadFrom
<1>2. CASE ~(again /\ ~Busy(writes'))
  BY <1>2 DEF Finish, ReadFrom
<1>3. QED
  BY <1>1, <1>2 DEF Finish

----------------------------------------------------------------------------
(* The types                                                               *)

StoreInv0 == StoreTypeOK /\ Flying(loads)

LEMMA StoreTypesStart == StoreInit => StoreInv0
<1> SUFFICES ASSUME StoreInit
             PROVE  StoreInv0
  OBVIOUS
<1>1. First \in Nat /\ <<First>> \in Seq(Nat) /\ <<First>> # <<>>
  BY StoreAssumption DEF First
<1>2. history \in [Items -> Seq(Nat)] /\ \A i \in Items : history[i] # <<>>
  BY <1>1 DEF StoreInit
<1>3. writes \in Seq(WriteRecs) /\ Len(writes) <= MaxWrites /\ others \in Nat
  BY StoreAssumption DEF StoreInit
<1>4. Flying(loads)
  BY Empties DEF StoreInit, Flying
<1>5. QED
  BY <1>2, <1>3, <1>4, Empties DEF StoreInit, StoreTypeOK, StoreInv0, Flying

\* The last of an item's edits is one.
LEMMA NowTyped ==
  ASSUME StoreTypeOK, NEW i \in Items
  PROVE  /\ history[i] \in Seq(Nat) /\ Len(history[i]) \in Nat
         /\ Stands(i, Now(i), Len(history[i])) /\ Now(i) \in Nat
         /\ \A n \in DOMAIN history[i] : n <= Len(history[i])
<1>1. history[i] \in Seq(Nat) /\ history[i] # <<>>
  BY DEF StoreTypeOK
<1>2. QED
  BY <1>1, SeqDomain DEF Stands, Now

\* A write that begins is the newest.
LEMMA BeginFacts ==
  ASSUME StoreTypeOK, NEW i \in Items, NEW optimistic \in BOOLEAN, Begin(i, optimistic)
  PROVE  /\ writes' \in Seq(WriteRecs) /\ Len(writes) \in Nat /\ Len(writes') = Len(writes) + 1
         /\ DOMAIN writes' = DOMAIN writes \cup {Len(writes')} /\ Len(writes') \notin DOMAIN writes
         /\ \A v \in DOMAIN writes : v \in Nat /\ v < Len(writes') /\ writes'[v] = writes[v]
         /\ writes'[Len(writes')].item = i /\ writes'[Len(writes')].previous = shown
         /\ ~writes'[Len(writes')].landed /\ writes'[Len(writes')].outcome = "sent"
         /\ Len(writes') <= MaxWrites
         /\ shown' = shown \/ shown' = [shown EXCEPT ![i] = Len(writes')]
<1> DEFINE new == [item |-> i, previous |-> shown, landed |-> FALSE, outcome |-> "sent"]
<1>1. new \in WriteRecs /\ writes \in Seq(WriteRecs) /\ writes' = Append(writes, new)
  BY DEF Begin, StoreTypeOK, WriteRecs, Outcomes
<1>2. Len(writes) \in Nat /\ Len(writes) < MaxWrites /\ MaxWrites \in Nat
  BY <1>1, StoreAssumption DEF Begin, NewestWrite
<1> HIDE DEF new
<1>3. /\ writes' \in Seq(WriteRecs) /\ Len(writes') = Len(writes) + 1
      /\ DOMAIN writes' = DOMAIN writes \cup {Len(writes')} /\ Len(writes') \notin DOMAIN writes
      /\ \A v \in DOMAIN writes : v \in Nat /\ v < Len(writes') /\ writes'[v] = writes[v]
      /\ writes'[Len(writes')] = new
  BY <1>1, SeqAppend, SeqDomain
<1>4. Len(writes') <= MaxWrites
  BY <1>2, <1>3
<1>5. shown' = shown \/ shown' = [shown EXCEPT ![i] = Len(writes')]
  BY <1>3 DEF Begin, NewestWrite
<1>6. QED
  BY <1>2, <1>3, <1>4, <1>5 DEF new

\* A write that lands.
LEMMA LandFacts ==
  ASSUME StoreTypeOK, NEW w, Land(w)
  PROVE  /\ writes' \in Seq(WriteRecs) /\ Len(writes') = Len(writes) /\ DOMAIN writes' = DOMAIN writes
         /\ w \in DOMAIN writes /\ w \in Nat /\ writes[w].item \in Items /\ ~writes[w].landed
         /\ writes'[w].item = writes[w].item /\ writes'[w].landed
         /\ writes'[w].outcome = writes[w].outcome /\ writes'[w].previous = writes[w].previous
         /\ writes[w].outcome \in {"sent", "lost"}
         /\ \A v \in DOMAIN writes \ {w} : writes'[v] = writes[v]
<1>0. w \in DOMAIN writes /\ writes \in Seq(WriteRecs)
  BY DEF Land, StoreTypeOK
<1>1. writes[w] \in WriteRecs /\ w \in Nat
  BY <1>0, SeqDomain
<1>2. [writes[w] EXCEPT !.landed = TRUE] \in WriteRecs
  BY <1>1 DEF WriteRecs
<1>3. writes' = [writes EXCEPT ![w] = [writes[w] EXCEPT !.landed = TRUE]]
  BY <1>0 DEF Land
<1>4. /\ writes' \in Seq(WriteRecs) /\ Len(writes') = Len(writes) /\ DOMAIN writes' = DOMAIN writes
      /\ writes'[w] = [writes[w] EXCEPT !.landed = TRUE]
      /\ \A v \in DOMAIN writes \ {w} : writes'[v] = writes[v]
  BY <1>0, <1>2, <1>3, SeqChanged
<1>5. /\ writes[w].item \in Items /\ writes'[w].item = writes[w].item /\ writes'[w].landed
      /\ writes'[w].outcome = writes[w].outcome /\ writes'[w].previous = writes[w].previous
  BY <1>1, <1>4 DEF WriteRecs
<1>6. QED
  BY <1>0, <1>1, <1>4, <1>5 DEF Land

\* How a write ends: with these loads in flight, and whether one more was asked for.
EndsAs(w, outcome, ls, again) ==
  /\ Sent(w) /\ Flying(ls) /\ ReadFrom(ls, loads) /\ Finish(w, outcome, ls, again)
  /\ again \in BOOLEAN

LEMMA EndsFacts ==
  ASSUME StoreInv0, NEW w
  PROVE  /\ Take(w) => EndsAs(w, "taken", SetAside(loads), reloadAfterWrites)
         /\ PutAside(w) => EndsAs(w, "aside", loads, TRUE)
         /\ Refuse(w) => EndsAs(w, "refused", loads, reloadAfterWrites) \/ EndsAs(w, "refused", loads, TRUE)
         /\ Lose(w) => \E ls \in [Loads -> LoadRecs], again \in BOOLEAN : EndsAs(w, "lost", ls, again)
<1> USE DEF StoreInv0
<1>0. ReadFrom(loads, loads) /\ ReadFrom(SetAside(loads), loads) /\ Flying(SetAside(loads))
      /\ reloadAfterWrites \in BOOLEAN /\ Flying(loads)
  BY AsideFacts DEF ReadFrom, StoreTypeOK
<1>1. ASSUME Take(w)
      PROVE  EndsAs(w, "taken", SetAside(loads), reloadAfterWrites)
  BY <1>0, <1>1 DEF Take, EndsAs
<1>2. ASSUME PutAside(w)
      PROVE  EndsAs(w, "aside", loads, TRUE)
  BY <1>0, <1>2 DEF PutAside, EndsAs
<1>3. ASSUME Refuse(w)
      PROVE  EndsAs(w, "refused", loads, reloadAfterWrites) \/ EndsAs(w, "refused", loads, TRUE)
  BY <1>0, <1>3 DEF Refuse, EndsAs
<1>4. ASSUME Lose(w)
      PROVE  \E ls \in [Loads -> LoadRecs], again \in BOOLEAN : EndsAs(w, "lost", ls, again)
  <2>1. CASE Owns(w) /\ phone
    <3> DEFINE again == AndOneMore(SetAside(loads), Started(TRUE, FALSE))
    <3>1. Sent(w) /\ Room(loads) /\ Finish(w, "lost", again, reloadAfterWrites)
      BY <1>4, <2>1 DEF Lose
    <3>2. Room(SetAside(loads))
      BY <3>1 DEF Room, SetAside, Aside, Flying, LoadRecs
    <3>3. Flying(again) /\ ReadFrom(again, SetAside(loads))
      BY <1>0, <3>2, StartedFacts, OneMoreFacts
    <3> HIDE DEF again
    <3>4. ReadFrom(again, loads)
      BY <1>0, <3>3, AsideFacts DEF ReadFrom
    <3>5. EndsAs(w, "lost", again, reloadAfterWrites) /\ again \in [Loads -> LoadRecs]
      BY <1>0, <3>1, <3>3, <3>4 DEF EndsAs, Flying
    <3>6. QED
      BY <1>0, <3>5
  <2>2. CASE ~(Owns(w) /\ phone)
    <3>1. EndsAs(w, "lost", loads, reloadAfterWrites) \/ EndsAs(w, "lost", loads, TRUE)
      BY <1>0, <1>4, <2>2 DEF Lose, EndsAs
    <3>2. QED
      BY <1>0, <3>1 DEF Flying
  <2>3. QED
    BY <2>1, <2>2
<1>5. QED
  BY <1>1, <1>2, <1>3, <1>4

\* Whichever way it ends.
LEMMA EndsSomehow ==
  ASSUME StoreInv0, NEW w, Take(w) \/ PutAside(w) \/ Refuse(w) \/ Lose(w)
  PROVE  \E outcome \in Outcomes \ {"sent"}, ls \in [Loads -> LoadRecs], again \in BOOLEAN :
           EndsAs(w, outcome, ls, again)
<1>1. loads \in [Loads -> LoadRecs] /\ SetAside(loads) \in [Loads -> LoadRecs] /\ reloadAfterWrites \in BOOLEAN
  BY AsideFacts DEF StoreInv0, StoreTypeOK, Flying
<1>2. {"taken", "aside", "refused", "lost"} \subseteq Outcomes \ {"sent"}
  BY DEF Outcomes
<1>3. QED
  BY <1>1, <1>2, EndsFacts

LEMMA StoreTypesKept ==
  ASSUME StoreInv0, [StoreNext]_storeVars
  PROVE  StoreInv0'
<1> USE DEF StoreInv0
<1>0. /\ StoreTypeOK /\ Flying(loads) /\ loads \in [Loads -> LoadRecs] /\ reloadAfterWrites \in BOOLEAN
      /\ shown \in [Items -> Nat] /\ MaxWrites \in Nat /\ First \in Nat
  BY StoreAssumption DEF StoreTypeOK, First
<1>1. CASE UNCHANGED storeVars
  BY <1>1 DEF storeVars, StoreTypeOK
<1>2. CASE Tick
  <2>1. Flying(loads')
    <3>1. CASE ReloadWith(loads, TRUE)
      BY <1>0, <3>1, ReloadFacts
    <3>2. CASE RefreshLive
      <4>1. /\ Started(FALSE, TRUE) \in LoadRecs /\ Started(FALSE, TRUE).current
            /\ Started(FALSE, TRUE).stage # "idle" /\ DOMAIN Started(FALSE, TRUE).got = {}
        BY <1>0, StartedFacts
      <4>2. Room(loads) /\ loads' = AndOneMore(loads, Started(FALSE, TRUE))
        BY <3>2 DEF RefreshLive
      <4>3. QED
        BY <1>0, <4>1, <4>2, OneMoreFacts
    <3>3. QED
      BY <1>2, <3>1, <3>2 DEF Tick
  <2>2. QED
    BY <1>2, <2>1 DEF Tick, Server, Store, StoreTypeOK, Flying
<1>3. ASSUME NEW l \in Loads, NEW i \in Items, Read(l, i)
      PROVE  StoreInv0'
  <2>1. loads[l] \in LoadRecs /\ loads[l].got \in Partial /\ Now(i) \in Nat
    BY <1>0, NowTyped DEF LoadRecs
  <2>2. [j \in DOMAIN loads[l].got \cup {i} |-> IF j = i THEN Now(i) ELSE loads[l].got[j]] \in Partial
    BY <2>1, GotTypes
  <2>3. Flying(loads')
    BY <1>0, <1>3, <2>1, <2>2 DEF Read, Flying, LoadRecs
  <2>4. QED
    BY <1>3, <2>3 DEF Read, Server, Store, StoreTypeOK, Flying
<1>4. ASSUME NEW l \in Loads,
             Dropped(l) \/ Withheld(l) \/ Readable(l) \/ CheckFails(l) \/ Apply(l) \/ Fails(l) \/ Refused(l)
      PROVE  StoreInv0'
  <2>1. Ended(l) \/ loads' = [loads EXCEPT ![l].stage = "read"]
    BY <1>4 DEF Dropped, Withheld, Readable, CheckFails, Apply, Fails, Refused
  <2>2. Flying(loads')
    BY <1>0, <2>1, Empties DEF Ended, Flying, LoadRecs
  <2>3. loads[l].got \in Partial
    BY <1>0 DEF LoadRecs
  <2>4. shown' \in [Items -> Nat]
    BY <1>0, <1>4, <2>3, Empties, GotTypes
       DEF Dropped, Withheld, Readable, CheckFails, Apply, Fails, Refused, Store
  <2>5. /\ status' \in {"loading", "ready", "incompatible", "signedOut"} /\ stale' \in BOOLEAN
        /\ reloadAfterWrites' \in BOOLEAN
    BY <1>4 DEF Dropped, Withheld, Readable, CheckFails, Apply, Fails, Refused, Store, StoreTypeOK
  <2>6. UNCHANGED <<Server, writes>>
    BY <1>4 DEF Dropped, Withheld, Readable, CheckFails, Apply, Fails, Refused, Store
  <2>7. QED
    BY <2>2, <2>4, <2>5, <2>6 DEF Server, StoreTypeOK, Flying
<1>5. ASSUME NEW i \in Items, NEW optimistic \in BOOLEAN, Begin(i, optimistic)
      PROVE  StoreInv0'
  <2>1. Len(writes') \in Nat /\ shown' \in [Items -> Nat]
    BY <1>0, <1>5, BeginFacts
  <2>2. Flying(loads') /\ reloadAfterWrites' \in BOOLEAN
    BY <1>0, <1>5, AsideFacts DEF Begin, BeginLoads
  <2>3. QED
    BY <1>5, <2>1, <2>2, BeginFacts DEF Begin, Server, StoreTypeOK, Flying
<1>6. ASSUME NEW w \in 1..MaxWrites, Land(w)
      PROVE  StoreInv0'
  <2>1. w \in Nat /\ writes[w].item \in Items
    BY <1>6, LandFacts
  <2>2. history[writes[w].item] \in Seq(Nat)
    BY <2>1 DEF StoreTypeOK
  <2>3. Append(history[writes[w].item], w) \in Seq(Nat) /\ Append(history[writes[w].item], w) # <<>>
    BY <2>1, <2>2, SeqAppend
  <2>4. history' \in [Items -> Seq(Nat)] /\ \A i \in Items : history'[i] # <<>>
    BY <1>6, <2>1, <2>3 DEF Land, StoreTypeOK
  <2>5. QED
    BY <1>6, <2>4, LandFacts DEF Land, StoreTypeOK
<1>7. ASSUME NEW w \in 1..MaxWrites, Take(w) \/ PutAside(w) \/ Refuse(w) \/ Lose(w)
      PROVE  StoreInv0'
  <2>1. PICK outcome \in Outcomes \ {"sent"}, ls \in [Loads -> LoadRecs], again \in BOOLEAN :
          EndsAs(w, outcome, ls, again)
    BY <1>7, EndsSomehow
  <2>2. Sent(w) /\ Flying(loads') /\ reloadAfterWrites' \in BOOLEAN /\ writes' = EndedWith(w, outcome)
    BY <2>1, FinishFacts DEF EndsAs
  <2>3. writes' \in Seq(WriteRecs) /\ Len(writes') = Len(writes) /\ w \in DOMAIN writes
    BY <2>1, <2>2, EndedFacts
  <2>4. w \in Nat /\ writes[w] \in WriteRecs
    BY <2>3, SeqDomain DEF StoreTypeOK
  <2>5. shown' \in [Items -> Nat]
    BY <1>0, <1>7, <2>4 DEF Take, PutAside, Refuse, Lose, WriteRecs
  <2>6. UNCHANGED <<Server, status, stale>>
    BY <1>7 DEF Take, PutAside, Refuse, Lose
  <2>7. QED
    BY <2>2, <2>3, <2>5, <2>6 DEF Server, StoreTypeOK, Flying
<1>8. ASSUME NEW w \in 1..MaxWrites, FollowEnds(w)
      PROVE  StoreInv0'
  <2>1. Flying(loads')
    BY <1>0, <1>8, ReloadFacts DEF FollowEnds
  <2>2. QED
    BY <1>8, <2>1 DEF FollowEnds, Server, StoreTypeOK, Flying
<1>9. ASSUME NEW i \in Items, Edit(i)
      PROVE  StoreInv0'
  <2>1. others' \in Nat /\ First + others' \in Nat /\ history[i] \in Seq(Nat)
    BY <1>0, <1>9 DEF Edit, Happens, StoreTypeOK
  <2>2. Append(history[i], First + others') \in Seq(Nat) /\ Append(history[i], First + others') # <<>>
    BY <2>1, SeqAppend
  <2>3. history' \in [Items -> Seq(Nat)] /\ \A j \in Items : history'[j] # <<>>
    BY <1>9, <2>2 DEF Edit, StoreTypeOK
  <2>4. QED
    BY <1>9, <2>1, <2>3 DEF Edit, Store, StoreTypeOK
<1>10. CASE Update \/ SignOut
  <2>1. others' \in Nat /\ readable' \in BOOLEAN /\ session' \in BOOLEAN
    <3>1. others' \in Nat
      BY <1>10 DEF Update, SignOut, Happens, StoreTypeOK
    <3>2. readable' \in BOOLEAN /\ session' \in BOOLEAN
      BY <1>10 DEF Update, SignOut, StoreTypeOK
    <3>3. QED
      BY <3>1, <3>2
  <2>2. UNCHANGED <<phone, history, Store, loads>>
    BY <1>10 DEF Update, SignOut
  <2>3. QED
    BY <2>1, <2>2 DEF Store, StoreTypeOK
<1>11. QED
  BY <1>1, <1>2, <1>3, <1>4, <1>5, <1>6, <1>7, <1>8, <1>9, <1>10 DEF StoreNext

----------------------------------------------------------------------------
(* The edits of an item                                                    *)

LEMMA StandsTyped ==
  ASSUME StoreTypeOK, NEW i \in Items
  PROVE  /\ \A e, n : Stands(i, e, n) => n \in Nat /\ n <= Len(history[i]) /\ n \in DOMAIN history[i]
         /\ Len(history[i]) \in Nat
BY NowTyped, SeqDomain DEF Stands

\* An edit that is made is the last of its item's, and leaves the others their places.
LEMMA Grows ==
  ASSUME StoreTypeOK, NEW k \in Items, NEW x \in Nat,
         \A n \in DOMAIN history[k] : history[k][n] # x,
         history' = [history EXCEPT ![k] = Append(@, x)]
  PROVE  /\ \A i \in Items : \A e, n : Stands(i, e, n) => Stands(i, e, n)'
         /\ \A i \in Items : \A e, n :
              Stands(i, e, n)' => Stands(i, e, n) \/ (i = k /\ e = x /\ n = Len(history[k]) + 1)
         /\ \E n \in Nat : Stands(k, x, n)'
         /\ \A i \in Items : \A e, f :
              (\E n \in Nat : Stands(i, f, n)) /\ NotBefore(i, e, f) => NotBefore(i, e, f)'
         /\ \A f : NotBefore(k, x, f)'
<1>0. /\ history[k] \in Seq(Nat) /\ Len(history[k]) \in Nat
      /\ \A i \in Items \ {k} : history'[i] = history[i]
      /\ history'[k] = Append(history[k], x)
  BY StandsTyped DEF StoreTypeOK
<1>1. /\ DOMAIN history'[k] = DOMAIN history[k] \cup {Len(history[k]) + 1}
      /\ \A n \in DOMAIN history[k] : history'[k][n] = history[k][n] /\ n < Len(history[k]) + 1
      /\ history'[k][Len(history[k]) + 1] = x
      /\ Len(history[k]) + 1 \notin DOMAIN history[k]
  BY <1>0, SeqAppend
<1>2. ASSUME NEW i \in Items, NEW e, NEW n, Stands(i, e, n)
      PROVE  Stands(i, e, n)'
  BY <1>0, <1>1, <1>2 DEF Stands
<1>3. ASSUME NEW i \in Items, NEW e, NEW n, Stands(i, e, n)'
      PROVE  Stands(i, e, n) \/ (i = k /\ e = x /\ n = Len(history[k]) + 1)
  <2>1. CASE i = k
    BY <1>1, <1>3, <2>1 DEF Stands
  <2>2. CASE i # k
    BY <1>0, <1>3, <2>2 DEF Stands
  <2>3. QED
    BY <2>1, <2>2
<1>4. \E n \in Nat : Stands(k, x, n)'
  <2> PICK n \in Nat : n = Len(history[k]) + 1
    BY <1>0
  <2>1. Stands(k, x, n)'
    BY <1>1 DEF Stands
  <2>2. QED
    BY <2>1
<1>5. \A i \in Items : \A e, n : Stands(i, e, n) => n \in Nat /\ n <= Len(history[i])
  BY StandsTyped
<1>6. ASSUME NEW i \in Items, NEW e, NEW f, \E n \in Nat : Stands(i, f, n), NotBefore(i, e, f)
      PROVE  NotBefore(i, e, f)'
  <2>1. ASSUME NEW m \in Nat, NEW n \in Nat, Stands(i, e, m)', Stands(i, f, n)'
        PROVE  n <= m
    <3>1. Stands(i, f, n)
      BY <1>3, <1>6, <2>1 DEF Stands
    <3>2. CASE Stands(i, e, m)
      BY <1>6, <3>1, <3>2 DEF NotBefore
    <3>3. CASE i = k /\ m = Len(history[k]) + 1
      <4>1. n <= Len(history[k])
        BY <1>5, <3>1, <3>3
      <4>2. QED
        BY <1>0, <3>3, <4>1
    <3>4. QED
      BY <1>3, <2>1, <3>2, <3>3
  <2>2. QED
    BY <2>1 DEF NotBefore
<1>7. ASSUME NEW f
      PROVE  NotBefore(k, x, f)'
  <2>1. ASSUME NEW m \in Nat, NEW n \in Nat, Stands(k, x, m)', Stands(k, f, n)'
        PROVE  n <= m
    <3>1. ~Stands(k, x, m)
      BY DEF Stands
    <3>2. m = Len(history[k]) + 1
      BY <1>3, <2>1, <3>1
    <3>3. n <= Len(history[k]) + 1
      BY <1>0, <1>3, <1>5, <2>1
    <3>4. QED
      BY <3>2, <3>3
  <2>2. QED
    BY <2>1 DEF NotBefore
<1>8. QED
  BY <1>2, <1>3, <1>4, <1>6, <1>7

\* Each edit is still made once, if the new one is new.
LEMMA GrowsOnce ==
  ASSUME StoreTypeOK, HistoryInv, NEW k \in Items, NEW x \in Nat,
         \A n \in DOMAIN history[k] : history[k][n] # x,
         history' = [history EXCEPT ![k] = Append(@, x)],
         \A i \in Items : Edits(i) \subseteq Edits(i)', x \in Edits(k)'
  PROVE  /\ \A i \in Items : \A n \in DOMAIN history'[i] : history'[i][n] \in Edits(i)'
         /\ \A i \in Items : \A m, n \in DOMAIN history'[i] : history'[i][m] = history'[i][n] => m = n
<1>0. /\ history[k] \in Seq(Nat) /\ Len(history[k]) \in Nat
      /\ \A i \in Items \ {k} : history'[i] = history[i]
      /\ history'[k] = Append(history[k], x)
  BY StandsTyped DEF StoreTypeOK
<1>1. /\ DOMAIN history'[k] = DOMAIN history[k] \cup {Len(history[k]) + 1}
      /\ \A n \in DOMAIN history[k] : history'[k][n] = history[k][n]
      /\ history'[k][Len(history[k]) + 1] = x
  BY <1>0, SeqAppend
<1>2. ASSUME NEW i \in Items, NEW n \in DOMAIN history'[i]
      PROVE  history'[i][n] \in Edits(i)'
  BY <1>0, <1>1 DEF HistoryInv
<1>3. ASSUME NEW i \in Items, NEW m \in DOMAIN history'[i], NEW n \in DOMAIN history'[i],
             history'[i][m] = history'[i][n]
      PROVE  m = n
  BY <1>0, <1>1, <1>3 DEF HistoryInv
<1>4. QED
  BY <1>2, <1>3

\* A write that has not landed, and an edit still to come, are not among them.
LEMMA NotThereYet ==
  ASSUME StoreTypeOK, HistoryInv, NEW i \in Items
  PROVE  /\ \A w \in Nat : 1 <= w /\ w <= MaxWrites /\ (w \in DOMAIN writes => ~writes[w].landed)
              => \A n \in DOMAIN history[i] : history[i][n] # w
         /\ \A n \in DOMAIN history[i] : history[i][n] # First + (others + 1)
         /\ \A n \in DOMAIN history[i] : history[i][n] # 0
<1>0. /\ First \in Nat /\ First = MaxWrites + 1 /\ MaxWrites \in Nat /\ others \in Nat
      /\ \A v \in DOMAIN writes : v \in Nat /\ 1 <= v /\ v <= MaxWrites
  BY StoreAssumption, SeqDomain DEF First, StoreTypeOK
<1>1. \A n \in DOMAIN history[i] : history[i][n] \in Edits(i)
  BY DEF HistoryInv
<1>2. ASSUME NEW w \in Nat, 1 <= w, w <= MaxWrites, w \in DOMAIN writes => ~writes[w].landed
      PROVE  w \notin Edits(i)
  BY <1>0, <1>2 DEF Edits
<1>3. First + (others + 1) \notin Edits(i) /\ 0 \notin Edits(i)
  BY <1>0 DEF Edits
<1>4. QED
  BY <1>1, <1>2, <1>3

LEMMA RangeGrows ==
  ASSUME NEW a \in Nat, NEW m \in Nat, NEW n \in Nat, m <= n, NEW e \in (a + 1)..(a + m)
  PROVE  e \in (a + 1)..(a + n)
OBVIOUS

LEMMA EditsGrow ==
  ASSUME StoreTypeOK, others' \in Nat, others <= others', NEW i \in Items,
         \A v \in DOMAIN writes : v \in DOMAIN writes' /\ writes'[v].item = writes[v].item
                                   /\ (writes[v].landed => writes'[v].landed)
  PROVE  Edits(i) \subseteq Edits(i)'
<1>1. First \in Nat /\ others \in Nat
  BY StoreAssumption DEF First, StoreTypeOK
<1>2. ASSUME NEW e \in (First + 1)..(First + others)
      PROVE  e \in (First + 1)..(First + others')
  BY <1>1, <1>2, RangeGrows
<1>3. ASSUME NEW e \in Edits(i)
      PROVE  e \in Edits(i)'
  <2>1. CASE e \in (First + 1)..(First + others)
    BY <1>2, <2>1 DEF Edits
  <2>2. CASE e = First
    BY <2>2 DEF Edits
  <2>3. CASE e \in DOMAIN writes /\ writes[e].landed /\ writes[e].item = i
    BY <2>3 DEF Edits
  <2>4. QED
    BY <1>3, <2>1, <2>2, <2>3 DEF Edits
<1>4. QED
  BY <1>3

LEMMA HistoryKept ==
  ASSUME StoreInv0, HistoryInv, [StoreNext]_storeVars
  PROVE  HistoryInv'
<1> USE DEF StoreInv0
<1>0. First \in Nat /\ First = MaxWrites + 1 /\ MaxWrites \in Nat /\ others \in Nat
  BY StoreAssumption DEF First, StoreTypeOK
<1>00. ASSUME NEW v \in DOMAIN writes
       PROVE  writes[v].item \in Items
  <2>1. writes[v] \in WriteRecs
    BY SeqDomain DEF StoreTypeOK
  <2>2. QED
    BY <2>1 DEF WriteRecs
<1>1. CASE UNCHANGED <<history, writes>> /\ others' \in Nat /\ others <= others'
  <2>1. \A i \in Items : Edits(i) \subseteq Edits(i)'
    BY <1>1, EditsGrow
  <2>2. \A w \in DOMAIN writes : (LandedStands(w) <=> LandedStands(w)') /\ (AnsweredLanded(w) <=> AnsweredLanded(w)')
    BY <1>1 DEF LandedStands, AnsweredLanded, Stands, Answered
  <2>3. QED
    BY <1>1, <2>1, <2>2 DEF HistoryInv
<1>2. ASSUME NEW i \in Items, NEW optimistic \in BOOLEAN, Begin(i, optimistic)
      PROVE  HistoryInv'
  <2>1. UNCHANGED <<history, others>>
    BY <1>2 DEF Begin, Server
  <2> PICK n : n = Len(writes')
    OBVIOUS
  <2>2. /\ DOMAIN writes' = DOMAIN writes \cup {n} /\ ~writes'[n].landed /\ writes'[n].outcome = "sent"
        /\ \A v \in DOMAIN writes : writes'[v] = writes[v]
    BY <1>2, BeginFacts
  <2>3. \A j \in Items : Edits(j) \subseteq Edits(j)'
    <3>1. others' \in Nat /\ others <= others'
      BY <1>0, <2>1
    <3>2. \A v \in DOMAIN writes : v \in DOMAIN writes' /\ writes'[v].item = writes[v].item
                                   /\ (writes[v].landed => writes'[v].landed)
      BY <2>2
    <3>3. QED
      BY <3>1, <3>2, EditsGrow
  <2>4. ASSUME NEW v \in DOMAIN writes
        PROVE  (LandedStands(v) => LandedStands(v)') /\ (AnsweredLanded(v) => AnsweredLanded(v)')
    BY <2>1, <2>2 DEF LandedStands, AnsweredLanded, Stands, Answered
  <2>5. LandedStands(n)' /\ AnsweredLanded(n)'
    BY <2>2 DEF LandedStands, AnsweredLanded, Answered
  <2>6. \A v \in DOMAIN writes' : LandedStands(v)' /\ AnsweredLanded(v)'
    BY <2>2, <2>4, <2>5 DEF HistoryInv
  <2>7. QED
    BY <2>1, <2>3, <2>6 DEF HistoryInv
<1>3. ASSUME NEW w \in 1..MaxWrites, Take(w) \/ PutAside(w) \/ Refuse(w) \/ Lose(w)
      PROVE  HistoryInv'
  <2>1. PICK outcome \in Outcomes \ {"sent"}, ls \in [Loads -> LoadRecs], again \in BOOLEAN :
          EndsAs(w, outcome, ls, again)
    BY <1>3, EndsSomehow
  <2>2. /\ DOMAIN writes' = DOMAIN writes /\ w \in DOMAIN writes
        /\ \A v \in DOMAIN writes : writes'[v].item = writes[v].item /\ writes'[v].landed = writes[v].landed
        /\ \A v \in DOMAIN writes \ {w} : writes'[v].outcome = writes[v].outcome
    BY <2>1, FinishFacts, EndedFacts DEF EndsAs
  <2>3. UNCHANGED <<history, others>>
    BY <1>3 DEF Take, PutAside, Refuse, Lose, Server
  <2>4. Answered(w)' => writes[w].landed
    <3>1. CASE Take(w) \/ PutAside(w)
      BY <3>1 DEF Take, PutAside
    <3>2. CASE Refuse(w) \/ Lose(w)
      <4>1. writes' = EndedWith(w, "refused") \/ writes' = EndedWith(w, "lost")
        BY <3>2, EndsFacts, FinishFacts DEF EndsAs, Outcomes
      <4>2. writes'[w].outcome \in {"refused", "lost"}
        BY <2>1, <4>1, EndedFacts DEF EndsAs, Outcomes
      <4>3. QED
        BY <4>2 DEF Answered
    <3>3. QED
      BY <1>3, <3>1, <3>2
  <2>5. \A j \in Items : Edits(j) \subseteq Edits(j)'
    BY <1>0, <2>2, <2>3, EditsGrow
  <2>6. \A v \in DOMAIN writes : LandedStands(v) => LandedStands(v)'
    BY <2>2, <2>3 DEF LandedStands, Stands
  <2>7. \A v \in DOMAIN writes \ {w} : AnsweredLanded(v) => AnsweredLanded(v)'
    BY <2>2 DEF AnsweredLanded, Answered
  <2>8. AnsweredLanded(w)'
    BY <2>2, <2>4 DEF AnsweredLanded
  <2>9. \A v \in DOMAIN writes' : LandedStands(v)' /\ AnsweredLanded(v)'
    BY <2>2, <2>6, <2>7, <2>8 DEF HistoryInv
  <2>10. QED
    BY <2>3, <2>5, <2>9 DEF HistoryInv
<1>4. ASSUME NEW w \in 1..MaxWrites, Land(w)
      PROVE  HistoryInv'
  <2>0. w \in Nat /\ 1 <= w /\ w <= MaxWrites
    BY <1>0
  <2>1. /\ DOMAIN writes' = DOMAIN writes /\ w \in DOMAIN writes /\ ~writes[w].landed /\ writes'[w].landed
        /\ \A v \in DOMAIN writes : writes'[v].item = writes[v].item /\ writes'[v].outcome = writes[v].outcome
        /\ \A v \in DOMAIN writes \ {w} : writes'[v].landed = writes[v].landed
        /\ writes[w].item \in Items
    BY <1>4, LandFacts
  <2>2. /\ history' = [history EXCEPT ![writes[w].item] = Append(@, w)] /\ UNCHANGED others
        /\ \A n \in DOMAIN history[writes[w].item] : history[writes[w].item][n] # w
    BY <1>4, <2>0, <2>1, NotThereYet DEF Land
  <2>3. (\A j \in Items : Edits(j) \subseteq Edits(j)') /\ w \in Edits(writes[w].item)'
    <3>1. \A v \in DOMAIN writes : writes[v].landed => writes'[v].landed
      BY <2>1
    <3>2. \A j \in Items : Edits(j) \subseteq Edits(j)'
      BY <1>0, <2>1, <2>2, <3>1, EditsGrow
    <3>3. w \in Edits(writes[w].item)'
      BY <2>1 DEF Edits
    <3>4. QED
      BY <3>2, <3>3
  <2>4. /\ \A i \in Items : \A n \in DOMAIN history'[i] : history'[i][n] \in Edits(i)'
        /\ \A i \in Items : \A m, n \in DOMAIN history'[i] : history'[i][m] = history'[i][n] => m = n
    BY <2>0, <2>1, <2>2, <2>3, GrowsOnce
  <2>5. /\ \A i \in Items : \A e, n : Stands(i, e, n) => Stands(i, e, n)'
        /\ \E n \in Nat : Stands(writes[w].item, w, n)'
    <3> PICK k \in Items : k = writes[w].item
      BY <2>1
    <3>1. \E n \in Nat : Stands(k, w, n)'
      BY <2>0, <2>2, Grows
    <3>2. k = writes'[w].item
      BY <2>1
    <3>3. QED
      BY <2>0, <2>1, <2>2, <3>1, <3>2, Grows
  <2>7. \A v \in DOMAIN writes \ {w} : LandedStands(v) => LandedStands(v)'
    BY <1>00, <2>1, <2>5 DEF LandedStands
  <2>8. LandedStands(w)'
    BY <2>1, <2>5 DEF LandedStands
  <2>9. \A v \in DOMAIN writes : AnsweredLanded(v) => AnsweredLanded(v)'
    BY <2>1 DEF AnsweredLanded, Answered
  <2>10. \A v \in DOMAIN writes' : LandedStands(v)' /\ AnsweredLanded(v)'
    BY <2>1, <2>7, <2>8, <2>9 DEF HistoryInv
  <2>11. QED
    BY <2>4, <2>10 DEF HistoryInv
<1>5. ASSUME NEW i \in Items, Edit(i)
      PROVE  HistoryInv'
  <2>1. others' = others + 1 /\ UNCHANGED writes /\ history' = [history EXCEPT ![i] = Append(@, First + others')]
    BY <1>5 DEF Edit, Happens, Store
  <2>2. First + others' \in Nat /\ \A n \in DOMAIN history[i] : history[i][n] # First + others'
    BY <1>0, <2>1, NotThereYet
  <2>3. (\A j \in Items : Edits(j) \subseteq Edits(j)') /\ First + others' \in Edits(i)'
    <3>1. First + others' \in (First + 1)..(First + others')
      BY <1>0, <2>1
    <3>2. others' \in Nat /\ others <= others'
      BY <1>0, <2>1
    <3>3. QED
      BY <2>1, <3>1, <3>2, EditsGrow DEF Edits
  <2>4. /\ \A j \in Items : \A n \in DOMAIN history'[j] : history'[j][n] \in Edits(j)'
        /\ \A j \in Items : \A m, n \in DOMAIN history'[j] : history'[j][m] = history'[j][n] => m = n
    BY <2>1, <2>2, <2>3, GrowsOnce
  <2>5. \A j \in Items : \A e, n : Stands(j, e, n) => Stands(j, e, n)'
    BY <2>1, <2>2, Grows
  <2>6. \A v \in DOMAIN writes : (LandedStands(v) => LandedStands(v)') /\ (AnsweredLanded(v) => AnsweredLanded(v)')
    BY <1>00, <2>1, <2>5 DEF LandedStands, AnsweredLanded, Answered
  <2>7. \A v \in DOMAIN writes' : LandedStands(v)' /\ AnsweredLanded(v)'
    BY <2>1, <2>6 DEF HistoryInv
  <2>8. QED
    BY <2>4, <2>7 DEF HistoryInv
<1>6. CASE Tick \/ Update \/ SignOut \/ UNCHANGED storeVars
  <2>1. UNCHANGED <<history, writes>> /\ others' \in {others, others + 1}
    BY <1>6 DEF Tick, Update, SignOut, Happens, Server, Store, storeVars
  <2>2. QED
    BY <1>0, <1>1, <2>1
<1>7. ASSUME NEW l \in Loads,
             \/ \E i \in Items : Read(l, i)
             \/ Dropped(l) \/ Withheld(l) \/ Readable(l) \/ CheckFails(l) \/ Apply(l) \/ Fails(l) \/ Refused(l)
      PROVE  HistoryInv'
  <2>1. UNCHANGED <<history, writes, others>>
    BY <1>7 DEF Read, Dropped, Withheld, Readable, CheckFails, Apply, Fails, Refused, Server, Store
  <2>2. QED
    BY <1>0, <1>1, <2>1
<1>8. ASSUME NEW w \in 1..MaxWrites, FollowEnds(w)
      PROVE  HistoryInv'
  BY <1>0, <1>1, <1>8 DEF FollowEnds, Server
<1>9. QED
  BY <1>2, <1>3, <1>4, <1>5, <1>6, <1>7, <1>8 DEF StoreNext

----------------------------------------------------------------------------
(* A taken answer stays                                                    *)

LEMMA SameFits ==
  ASSUME UNCHANGED <<history, writes>>, NEW i, NEW e
  PROVE  /\ Fits(i, e) <=> Fits(i, e)'
         /\ Good(i, e) <=> Good(i, e)'
         /\ \A f : NotBefore(i, e, f) <=> NotBefore(i, e, f)'
BY DEF Fits, Good, NotBefore, Stands, Taken, Answered

\* What the household holds now is before nothing; a list nothing is loaded of,
\* and a change that has not landed, are nowhere.
LEMMA NowFits ==
  ASSUME StoreTypeOK, HistoryInv, NEW i \in Items
  PROVE  /\ \A f : NotBefore(i, Now(i), f)
         /\ \A w \in Nat : w <= MaxWrites /\ (w \in DOMAIN writes => ~writes[w].landed)
              => \A f : NotBefore(i, w, f)
         /\ \A e : NotBefore(i, e, e)
<1>0. \A e, n : Stands(i, e, n) => n \in Nat /\ n <= Len(history[i]) /\ n \in DOMAIN history[i]
  BY StandsTyped
<1>1. \A e, m, n : Stands(i, e, m) /\ Stands(i, e, n) => m = n
  BY DEF HistoryInv, Stands
<1>2. Stands(i, Now(i), Len(history[i])) /\ Len(history[i]) \in Nat
  BY NowTyped
<1>3. ASSUME NEW f
      PROVE  NotBefore(i, Now(i), f)
  BY <1>0, <1>1, <1>2 DEF NotBefore
<1>4. ASSUME NEW w \in Nat, w <= MaxWrites, w \in DOMAIN writes => ~writes[w].landed, NEW f
      PROVE  NotBefore(i, w, f)
  <2>1. \A n \in DOMAIN history[i] : history[i][n] # w
    BY <1>4, NotThereYet
  <2>2. QED
    BY <2>1 DEF NotBefore, Stands
<1>5. ASSUME NEW e
      PROVE  NotBefore(i, e, e)
  BY <1>1 DEF NotBefore
<1>6. QED
  BY <1>3, <1>4, <1>5

\* What is on screen and what was read fits, and the writes and the edits are the same.
LEMMA TakenQuiet ==
  ASSUME TakenInv, UNCHANGED <<history, writes>>, \A i \in Items : Fits(i, shown'[i]),
         \A l \in Loads : \A i \in DOMAIN loads'[l].got : Fits(i, loads'[l].got[i])
  PROVE  TakenInv'
<1>1. ASSUME NEW i \in Items
      PROVE  Fits(i, shown[i])'
  <2> PICK e : e = shown'[i]
    OBVIOUS
  <2>1. Fits(i, e)'
    BY SameFits
  <2>2. QED
    BY <2>1
<1>2. ASSUME NEW l \in Loads, NEW i \in DOMAIN loads'[l].got
      PROVE  Fits(i, loads[l].got[i])'
  <2> PICK e : e = loads'[l].got[i]
    OBVIOUS
  <2>1. Fits(i, e)'
    BY SameFits
  <2>2. QED
    BY <2>1
<1>3. ASSUME NewestSent', NEW i \in Items
      PROVE  Fits(i, writes[NewestWrite].previous[i])'
  <2> PICK e : e = writes[NewestWrite].previous[i]
    OBVIOUS
  <2>1. Fits(i, e) /\ e = writes'[NewestWrite'].previous[i]
    BY <1>3 DEF TakenInv, NewestSent, NewestWrite
  <2>2. Fits(i, e)'
    BY <2>1, SameFits
  <2>3. QED
    BY <2>1, <2>2
<1>4. ASSUME NEW v \in DOMAIN writes', NEW w \in DOMAIN writes', v < w, Taken(v)', writes'[w].landed,
             writes'[w].item = writes'[v].item
      PROVE  NotBefore(writes[v].item, w, v)'
  <2> PICK i : i = writes[v].item
    OBVIOUS
  <2>1. NotBefore(i, w, v)
    BY <1>4 DEF TakenInv, Taken
  <2>2. NotBefore(i, w, v)'
    BY <2>1, SameFits
  <2>3. QED
    BY <2>2
<1>5. QED
  BY <1>1, <1>2, <1>3, <1>4 DEF TakenInv

\* An edit is made: what fits still does.
LEMMA TakenGrows ==
  ASSUME StoreTypeOK, HistoryInv, TakenInv, NEW k \in Items, NEW x \in Nat,
         \A n \in DOMAIN history[k] : history[k][n] # x,
         history' = [history EXCEPT ![k] = Append(@, x)],
         UNCHANGED <<shown, loads>>, Len(writes') = Len(writes), DOMAIN writes' = DOMAIN writes,
         \A v \in DOMAIN writes : /\ writes'[v].item = writes[v].item
                                  /\ writes'[v].outcome = writes[v].outcome
                                  /\ writes'[v].previous = writes[v].previous
                                  /\ writes'[v].landed => writes[v].landed \/ (v = x /\ writes[v].item = k)
  PROVE  TakenInv'
<1>1. ASSUME NEW v \in DOMAIN writes
      PROVE  writes[v].item \in Items
  <2>1. writes[v] \in WriteRecs
    BY SeqDomain DEF StoreTypeOK
  <2>2. QED
    BY <2>1 DEF WriteRecs
<1>2. ASSUME NEW v \in DOMAIN writes, NEW e, Taken(v), NotBefore(writes[v].item, e, v)
      PROVE  NotBefore(writes[v].item, e, v)'
  <2> PICK i \in Items : i = writes[v].item
    BY <1>1
  <2>1. \E n \in Nat : Stands(i, v, n)
    BY <1>2 DEF HistoryInv, LandedStands, AnsweredLanded, Answered, Taken
  <2>2. NotBefore(i, e, v)'
    BY <1>2, <2>1, Grows
  <2>3. i = writes'[v].item
    OBVIOUS
  <2>4. QED
    BY <2>2, <2>3
<1>3. ASSUME NEW i \in Items, NEW e, Fits(i, e)
      PROVE  Fits(i, e)'
  <2>1. ASSUME NEW v \in DOMAIN writes', Taken(v)', writes'[v].item = i
        PROVE  NotBefore(i, e, v)'
    <3>1. v \in DOMAIN writes /\ Taken(v) /\ writes[v].item = i /\ NotBefore(i, e, v)
      BY <1>3, <2>1 DEF Fits, Taken
    <3>2. QED
      BY <1>2, <2>1, <3>1
  <2>2. QED
    BY <2>1 DEF Fits
<1>4. ASSUME NEW i \in Items
      PROVE  Fits(i, shown[i])'
  <2> PICK e : e = shown[i]
    OBVIOUS
  <2>1. Fits(i, e)'
    BY <1>3 DEF TakenInv
  <2>2. QED
    BY <2>1
<1>5. ASSUME NEW l \in Loads, NEW i \in DOMAIN loads'[l].got
      PROVE  Fits(i, loads[l].got[i])'
  <2> PICK e : e = loads[l].got[i]
    OBVIOUS
  <2>1. i \in Items
    BY GotTypes DEF StoreTypeOK, LoadRecs
  <2>2. Fits(i, e)'
    BY <1>3, <2>1 DEF TakenInv
  <2>3. QED
    BY <2>2
<1>6. ASSUME NewestSent', NEW i \in Items
      PROVE  Fits(i, writes[NewestWrite].previous[i])'
  <2> PICK e : e = writes[NewestWrite].previous[i]
    OBVIOUS
  <2>0. NewestWrite # 0 => NewestWrite \in DOMAIN writes
    BY SeqDomain DEF StoreTypeOK, NewestWrite
  <2>1. Fits(i, e) /\ e = writes'[NewestWrite'].previous[i]
    BY <1>6, <2>0 DEF TakenInv, NewestSent, NewestWrite
  <2>2. Fits(i, e)'
    BY <1>3, <2>1
  <2>3. QED
    BY <2>1, <2>2
<1>7. ASSUME NEW v \in DOMAIN writes', NEW w \in DOMAIN writes', v < w, Taken(v)', writes'[w].landed,
             writes'[w].item = writes'[v].item
      PROVE  NotBefore(writes[v].item, w, v)'
  <2>1. CASE writes[w].landed
    BY <1>2, <1>7, <2>1 DEF TakenInv, Taken
  <2>2. CASE w = x /\ writes[w].item = k
    <3>1. NotBefore(k, x, v)'
      BY Grows
    <3>2. k = writes'[v].item
      BY <1>7, <2>2
    <3>3. QED
      BY <2>2, <3>1, <3>2
  <2>3. QED
    BY <1>7, <2>1, <2>2
<1>8. QED
  BY <1>4, <1>5, <1>6, <1>7 DEF TakenInv

LEMMA TakenKept ==
  ASSUME StoreInv0, HistoryInv, TakenInv, [StoreNext]_storeVars
  PROVE  TakenInv'
<1> USE DEF StoreInv0
<1>0. /\ MaxWrites \in Nat /\ First = MaxWrites + 1 /\ First \in Nat /\ others \in Nat
      /\ loads \in [Loads -> LoadRecs] /\ (\A l \in Loads : loads[l].got \in Partial)
      /\ shown \in [Items -> Nat]
  BY StoreAssumption DEF StoreTypeOK, First, LoadRecs
<1>00. /\ \A i \in Items : Fits(i, 0)
       /\ \A i \in Items : Fits(i, shown[i])
       /\ \A l \in Loads : \A i \in DOMAIN loads[l].got : Fits(i, loads[l].got[i])
  <2>1. 0 \notin DOMAIN writes /\ 0 <= MaxWrites
    BY <1>0, SeqDomain DEF StoreTypeOK
  <2>2. QED
    BY <2>1, NowFits DEF TakenInv, Fits
<1>1. ASSUME UNCHANGED <<history, writes>>, UNCHANGED shown, ReadFrom(loads', loads)
      PROVE  TakenInv'
  BY <1>00, <1>1, TakenQuiet DEF ReadFrom
<1>2. CASE Tick
  <2>1. ReadFrom(loads', loads)
    <3>1. CASE ReloadWith(loads, TRUE)
      BY <3>1, ReloadFacts DEF ReadFrom
    <3>2. CASE RefreshLive
      <4>1. /\ Started(FALSE, TRUE) \in LoadRecs /\ Started(FALSE, TRUE).current
            /\ Started(FALSE, TRUE).stage # "idle" /\ DOMAIN Started(FALSE, TRUE).got = {}
        BY StartedFacts
      <4>2. QED
        BY <3>2, <4>1, OneMoreFacts DEF RefreshLive
    <3>3. QED
      BY <1>2, <3>1, <3>2 DEF Tick
  <2>2. QED
    BY <1>1, <1>2, <2>1 DEF Tick, Server, Store
<1>3. ASSUME NEW l \in Loads, NEW i \in Items, Read(l, i)
      PROVE  TakenInv'
  <2>1. UNCHANGED <<history, writes, shown>>
    BY <1>3 DEF Read, Server, Store
  <2>2. /\ loads'[l].got = [j \in DOMAIN loads[l].got \cup {i} |-> IF j = i THEN Now(i) ELSE loads[l].got[j]]
        /\ \A k \in Loads \ {l} : loads'[k] = loads[k]
    BY <1>0, <1>3 DEF Read, LoadRecs
  <2>3. Fits(i, Now(i))
    BY NowFits DEF Fits
  <2>4. ASSUME NEW k \in Loads, NEW j \in DOMAIN loads'[k].got
        PROVE  Fits(j, loads'[k].got[j])
    BY <1>00, <2>2, <2>3
  <2>5. QED
    BY <1>00, <2>1, <2>4, TakenQuiet
<1>4. ASSUME NEW l \in Loads,
             Dropped(l) \/ Withheld(l) \/ Readable(l) \/ CheckFails(l) \/ Apply(l) \/ Fails(l) \/ Refused(l)
      PROVE  TakenInv'
  <2>1. UNCHANGED <<history, writes>>
    BY <1>4 DEF Dropped, Withheld, Readable, CheckFails, Apply, Fails, Refused, Server, Store
  <2>2. Ended(l) \/ loads' = [loads EXCEPT ![l].stage = "read"]
    BY <1>4 DEF Dropped, Withheld, Readable, CheckFails, Apply, Fails, Refused
  <2>3. ReadFrom(loads', loads)
    BY <1>0, <2>2, Empties DEF ReadFrom, Ended, LoadRecs
  <2>4. shown' = shown \/ shown' = Empty \/ (DOMAIN loads[l].got = Items /\ shown' = loads[l].got)
    BY <1>4 DEF Dropped, Withheld, Readable, CheckFails, Apply, Fails, Refused, Store
  <2>5. \A i \in Items : Fits(i, shown'[i])
    BY <1>00, <2>4, Empties
  <2>6. QED
    BY <1>00, <2>1, <2>3, <2>5, TakenQuiet DEF ReadFrom
<1>5. ASSUME NEW i \in Items, NEW optimistic \in BOOLEAN, Begin(i, optimistic)
      PROVE  TakenInv'
  <2> PICK n : n = Len(writes')
    OBVIOUS
  <2>1. /\ DOMAIN writes' = DOMAIN writes \cup {n} /\ n \notin DOMAIN writes /\ n \in Nat /\ n <= MaxWrites
        /\ \A v \in DOMAIN writes : writes'[v] = writes[v] /\ v < n /\ v \in Nat
        /\ ~writes'[n].landed /\ writes'[n].outcome = "sent" /\ writes'[n].previous = shown
        /\ shown' = shown \/ shown' = [shown EXCEPT ![i] = n]
    BY <1>5, BeginFacts
  <2>2. UNCHANGED history /\ loads' = SetAside(loads)
    BY <1>5 DEF Begin, BeginLoads, Server
  <2>3. ASSUME NEW j \in Items, NEW e, Fits(j, e)
        PROVE  Fits(j, e)'
    BY <2>1, <2>2, <2>3 DEF Fits, Taken, NotBefore, Stands
  <2>4. \A l \in Loads : DOMAIN loads'[l].got = {}
    BY <2>2, AsideFacts
  <2>5. Fits(i, n)
    BY <1>0, <2>1, NowFits DEF Fits
  <2>6. ASSUME NEW j \in Items
        PROVE  Fits(j, shown[j])' /\ Fits(j, writes[n].previous[j])'
    <3> PICK e : e = shown'[j]
      OBVIOUS
    <3> PICK f : f = writes'[n].previous[j]
      OBVIOUS
    <3>1. Fits(j, e) /\ Fits(j, f)
      BY <1>0, <1>00, <2>1, <2>5
    <3>2. Fits(j, e)' /\ Fits(j, f)'
      BY <2>3, <3>1
    <3>3. QED
      BY <3>2
  <2>7. ASSUME NEW v \in DOMAIN writes', NEW w \in DOMAIN writes', v < w, Taken(v)', writes'[w].landed,
               writes'[w].item = writes'[v].item
        PROVE  NotBefore(writes[v].item, w, v)'
    <3>1. v \in DOMAIN writes /\ w \in DOMAIN writes
      BY <2>1, <2>7 DEF Taken
    <3>2. NotBefore(writes[v].item, w, v) /\ writes'[v] = writes[v]
      BY <2>1, <2>7, <3>1 DEF TakenInv, Taken
    <3>3. QED
      BY <2>2, <3>2 DEF NotBefore, Stands
  <2>8. QED
    BY <2>4, <2>6, <2>7 DEF TakenInv, NewestWrite
<1>6. ASSUME NEW w \in 1..MaxWrites, Land(w)
      PROVE  TakenInv'
  <2>0. w \in Nat /\ 1 <= w /\ w <= MaxWrites
    BY <1>0
  <2>1. /\ Len(writes') = Len(writes) /\ DOMAIN writes' = DOMAIN writes /\ ~writes[w].landed
        /\ writes[w].item \in Items
        /\ \A v \in DOMAIN writes : /\ writes'[v].item = writes[v].item
                                    /\ writes'[v].outcome = writes[v].outcome
                                    /\ writes'[v].previous = writes[v].previous
        /\ \A v \in DOMAIN writes \ {w} : writes'[v].landed = writes[v].landed
    BY <1>6, LandFacts
  <2>2. /\ history' = [history EXCEPT ![writes[w].item] = Append(@, w)] /\ UNCHANGED <<shown, loads>>
    BY <1>6 DEF Land
  <2>3. \A n \in DOMAIN history[writes[w].item] : history[writes[w].item][n] # w
    BY <2>0, <2>1, NotThereYet
  <2> PICK k \in Items : k = writes[w].item
    BY <2>1
  <2>4. \A v \in DOMAIN writes : /\ writes'[v].item = writes[v].item
                                 /\ writes'[v].outcome = writes[v].outcome
                                 /\ writes'[v].previous = writes[v].previous
                                 /\ writes'[v].landed => writes[v].landed \/ (v = w /\ writes[v].item = k)
    BY <2>1
  <2>5. \A n \in DOMAIN history[k] : history[k][n] # w
    BY <2>3
  <2>6. history' = [history EXCEPT ![k] = Append(@, w)]
    BY <2>2
  <2>7. UNCHANGED <<shown, loads>> /\ Len(writes') = Len(writes) /\ DOMAIN writes' = DOMAIN writes
    BY <2>1, <2>2
  <2> HIDE DEF StoreInv0
  <2>8. StoreTypeOK
    BY DEF StoreInv0
  <2>9. QED
    BY <2>0, <2>4, <2>5, <2>6, <2>7, <2>8, TakenGrows
<1>7. ASSUME NEW i \in Items, Edit(i)
      PROVE  TakenInv'
  <2>1. /\ others' = others + 1 /\ UNCHANGED <<writes, shown, loads>>
        /\ history' = [history EXCEPT ![i] = Append(@, First + others')]
    BY <1>7 DEF Edit, Happens, Store
  <2>2. First + others' \in Nat /\ \A n \in DOMAIN history[i] : history[i][n] # First + others'
    BY <1>0, <2>1, NotThereYet
  <2>3. QED
    BY <2>1, <2>2, TakenGrows
<1>8. ASSUME NEW w \in 1..MaxWrites, FollowEnds(w)
      PROVE  TakenInv'
  <2>1. ReadFrom(loads', loads)
    BY <1>8, ReloadFacts DEF FollowEnds, ReadFrom
  <2>2. QED
    BY <1>1, <1>8, <2>1 DEF FollowEnds, Server
<1>9. ASSUME NEW w \in 1..MaxWrites, Take(w) \/ PutAside(w) \/ Refuse(w) \/ Lose(w)
      PROVE  TakenInv'
  <2>1. PICK outcome \in Outcomes \ {"sent"}, ls \in [Loads -> LoadRecs], again \in BOOLEAN :
          /\ EndsAs(w, outcome, ls, again)
          /\ Take(w) <=> outcome = "taken"
    <3>1. CASE Take(w)
      BY <3>1, EndsFacts, AsideFacts DEF EndsAs, Outcomes, Flying
    <3>2. CASE PutAside(w)
      <4>1. ~Take(w)
        BY <3>2 DEF PutAside, Take
      <4>2. EndsAs(w, "aside", loads, TRUE) /\ "aside" \in Outcomes \ {"sent"}
        BY <3>2, EndsFacts DEF Outcomes
      <4>3. Take(w) <=> "aside" = "taken"
        BY <4>1
      <4>4. QED
        BY <1>0, <4>2, <4>3
    <3>3. CASE Refuse(w)
      <4>1. ~Take(w)
        BY <3>3 DEF Refuse, Take
      <4>2. reloadAfterWrites \in BOOLEAN
        BY DEF StoreTypeOK
      <4>3. \E again \in BOOLEAN : EndsAs(w, "refused", loads, again)
        BY <3>3, <4>2, EndsFacts
      <4>4. (Take(w) <=> "refused" = "taken") /\ "refused" \in Outcomes \ {"sent"}
        BY <4>1 DEF Outcomes
      <4>5. QED
        BY <1>0, <4>3, <4>4
    <3>4. CASE Lose(w) /\ ~Take(w)
      <4>1. \E ls \in [Loads -> LoadRecs], again \in BOOLEAN : EndsAs(w, "lost", ls, again)
        BY <3>4, EndsFacts
      <4>2. (Take(w) <=> "lost" = "taken") /\ "lost" \in Outcomes \ {"sent"}
        BY <3>4 DEF Outcomes
      <4>3. QED
        BY <4>1, <4>2
    <3>5. QED
      BY <1>9, <3>1, <3>2, <3>3, <3>4
  <2>2. /\ Sent(w) /\ w \in DOMAIN writes /\ w \in Nat /\ writes[w].item \in Items
        /\ Len(writes') = Len(writes) /\ DOMAIN writes' = DOMAIN writes
        /\ writes'[w].item = writes[w].item /\ writes'[w].landed = writes[w].landed
        /\ writes'[w].outcome = outcome /\ writes[w].outcome = "sent"
        /\ \A v \in DOMAIN writes \ {w} : writes'[v] = writes[v]
        /\ ReadFrom(loads', ls) /\ ReadFrom(ls, loads)
    BY <2>1, FinishFacts, EndedFacts DEF EndsAs
  <2>3. UNCHANGED history
    BY <1>9 DEF Take, PutAside, Refuse, Lose, Server
  <2>4. /\ \A l \in Loads : DOMAIN loads'[l].got = {} \/ loads'[l].got = loads[l].got
        /\ NewestWrite' = NewestWrite
        /\ NewestWrite # 0 => NewestWrite \in DOMAIN writes
    BY <2>2, SeqDomain DEF ReadFrom, NewestWrite, StoreTypeOK
  <2>5. ASSUME ~Take(w)
        PROVE  TakenInv'
    <3>1. ASSUME NEW i, NEW e, Fits(i, e)
          PROVE  Fits(i, e)'
      BY <2>1, <2>2, <2>3, <2>5, <3>1 DEF Fits, Taken, NotBefore, Stands
    <3>2. shown' = shown \/ (NewestSent /\ shown' = writes[NewestWrite].previous)
      <4>1. Owns(w) => NewestSent /\ w = NewestWrite
        BY <2>2, SeqDomain DEF Owns, NewestSent, NewestWrite, StoreTypeOK
      <4>2. QED
        BY <1>9, <2>5, <4>1 DEF PutAside, Refuse, Lose
    <3>3. ASSUME NEW i \in Items
          PROVE  Fits(i, shown[i])'
      <4> PICK e : e = shown'[i]
        OBVIOUS
      <4>1. Fits(i, e)
        BY <1>00, <3>2 DEF TakenInv
      <4>2. Fits(i, e)'
        BY <3>1, <4>1
      <4>3. QED
        BY <4>2
    <3>4. ASSUME NEW l \in Loads, NEW i \in DOMAIN loads'[l].got
          PROVE  Fits(i, loads[l].got[i])'
      <4> PICK e : e = loads'[l].got[i]
        OBVIOUS
      <4>1. Fits(i, e)
        BY <1>00, <2>4
      <4>2. Fits(i, e)'
        BY <3>1, <4>1
      <4>3. QED
        BY <4>2
    <3>5. ASSUME NewestSent', NEW i \in Items
          PROVE  Fits(i, writes[NewestWrite].previous[i])'
      <4> PICK e : e = writes'[NewestWrite'].previous[i]
        OBVIOUS
      <4>1. NewestWrite # w
        BY <2>1, <2>2, <2>4, <3>5 DEF NewestSent
      <4>2. NewestSent /\ e = writes[NewestWrite].previous[i]
        BY <2>2, <2>4, <3>5, <4>1 DEF NewestSent
      <4>3. Fits(i, e)
        BY <4>2 DEF TakenInv
      <4>4. Fits(i, e)'
        BY <3>1, <4>3
      <4>5. QED
        BY <4>4
    <3>6. ASSUME NEW v \in DOMAIN writes', NEW u \in DOMAIN writes', v < u, Taken(v)', writes'[u].landed,
                 writes'[u].item = writes'[v].item
          PROVE  NotBefore(writes[v].item, u, v)'
      <4>1. v # w
        BY <2>1, <2>2, <2>5, <3>6 DEF Taken
      <4>2. /\ v \in DOMAIN writes /\ u \in DOMAIN writes /\ Taken(v) /\ writes[u].landed
            /\ writes[u].item = writes[v].item /\ writes'[v] = writes[v]
        BY <2>2, <3>6, <4>1 DEF Taken
      <4>3. NotBefore(writes[v].item, u, v)
        BY <3>6, <4>2 DEF TakenInv
      <4>4. QED
        BY <2>3, <4>2, <4>3 DEF NotBefore, Stands
    <3>7. QED
      BY <3>3, <3>4, <3>5, <3>6 DEF TakenInv
  <2>6. ASSUME Take(w)
        PROVE  TakenInv'
    <3>1. /\ w = NewestWrite /\ writes[w].landed /\ shown' = [shown EXCEPT ![writes[w].item] = w]
          /\ EndsAs(w, "taken", SetAside(loads), reloadAfterWrites)
      BY <2>6, EndsFacts DEF Take, Owns
    <3>2. \A l \in Loads : DOMAIN loads'[l].got = {}
      BY <3>1, FinishFacts, AsideFacts DEF EndsAs, ReadFrom, Outcomes
    <3>3. ~NewestSent'
      BY <2>1, <2>2, <2>4, <2>6, <3>1 DEF NewestSent
    <3>4. \A i \in Items : \A e : NotBefore(i, e, e)
      BY NowFits
    <3>5. \A v \in DOMAIN writes : v \in Nat /\ v <= w
      BY <3>1, SeqDomain DEF NewestWrite, StoreTypeOK
    <3>6. ASSUME NEW i \in Items
          PROVE  Fits(i, shown[i])'
      <4> PICK e : e = shown'[i]
        OBVIOUS
      <4>1. ASSUME NEW v \in DOMAIN writes, Taken(v)', writes'[v].item = i
            PROVE  NotBefore(i, e, v)
        <5>1. CASE v = w
          BY <1>0, <2>2, <3>1, <3>4, <4>1, <5>1
        <5>2. CASE v # w
          <6>1. v < w /\ Taken(v) /\ writes[v].item = i
            BY <2>2, <3>1, <3>5, <4>1, <5>2 DEF Taken
          <6>2. CASE i = writes[w].item
            BY <1>0, <2>2, <3>1, <6>1, <6>2 DEF TakenInv
          <6>3. CASE i # writes[w].item
            BY <1>0, <1>00, <3>1, <6>1, <6>3 DEF Fits
          <6>4. QED
            BY <6>2, <6>3
        <5>3. QED
          BY <5>1, <5>2
      <4>2. ASSUME NEW v \in DOMAIN writes', Taken(v)', writes'[v].item = i
            PROVE  NotBefore(i, e, v)'
        <5>1. NotBefore(i, e, v)
          BY <2>2, <4>1, <4>2
        <5>2. QED
          BY <2>3, <5>1 DEF NotBefore, Stands
      <4>3. Fits(i, e)'
        BY <4>2 DEF Fits
      <4>4. QED
        BY <4>3
    <3>7. ASSUME NEW v \in DOMAIN writes', NEW u \in DOMAIN writes', v < u, Taken(v)', writes'[u].landed,
                 writes'[u].item = writes'[v].item
          PROVE  NotBefore(writes[v].item, u, v)'
      <4>1. v # w /\ v \in DOMAIN writes /\ u \in DOMAIN writes
        BY <2>2, <3>5, <3>7
      <4>2. /\ Taken(v) /\ writes[u].landed /\ writes[u].item = writes[v].item /\ writes'[v] = writes[v]
        BY <2>2, <3>7, <4>1 DEF Taken
      <4>3. NotBefore(writes[v].item, u, v)
        BY <3>7, <4>1, <4>2 DEF TakenInv
      <4>4. QED
        BY <2>3, <4>2, <4>3 DEF NotBefore, Stands
    <3>8. QED
      BY <3>2, <3>3, <3>6, <3>7 DEF TakenInv
  <2>7. QED
    BY <2>5, <2>6
<1>10. CASE Update \/ SignOut \/ UNCHANGED storeVars
  <2>1. UNCHANGED <<history, writes, shown, loads>>
    BY <1>10 DEF Update, SignOut, Store, storeVars
  <2>2. QED
    BY <1>1, <2>1 DEF ReadFrom
<1>11. QED
  BY <1>2, <1>3, <1>4, <1>5, <1>6, <1>7, <1>8, <1>9, <1>10 DEF StoreNext

----------------------------------------------------------------------------
(* What is shown                                                           *)

\* Where an edit is, that stands anywhere.
LEMMA Places ==
  ASSUME StoreTypeOK, NEW i \in Items, NEW e
  PROVE  /\ Place(i, e) \in Nat
         /\ Place(i, e) # 0 => Stands(i, e, Place(i, e))
         /\ (\E n \in Nat : Stands(i, e, n)) => Place(i, e) # 0
<1>1. \A n \in DOMAIN history[i] : n \in Nat /\ n # 0
  <2>1. history[i] \in Seq(Nat)
    BY NowTyped
  <2>2. QED
    BY <2>1
<1>2. CASE \E n \in DOMAIN history[i] : history[i][n] = e
  BY <1>1, <1>2 DEF Place, Stands
<1>3. CASE ~\E n \in DOMAIN history[i] : history[i][n] = e
  BY <1>3 DEF Place, Stands
<1>4. QED
  BY <1>2, <1>3

\* What is not before an edit is at its place or after it.
LEMMA NotBeforePlace ==
  ASSUME StoreTypeOK, NEW i \in Items, NEW e, NEW f, NotBefore(i, e, f),
         Place(i, e) # 0, \E n \in Nat : Stands(i, f, n)
  PROVE  Place(i, e) >= Place(i, f)
<1>1. /\ Place(i, e) \in Nat /\ Stands(i, e, Place(i, e))
      /\ Place(i, f) \in Nat /\ Stands(i, f, Place(i, f))
  BY Places
<1>2. QED
  BY <1>1 DEF NotBefore

StoreInv == StoreInv0 /\ HistoryInv /\ TakenInv

LEMMA StoreStarts == StoreInit => StoreInv
<1> SUFFICES ASSUME StoreInit
             PROVE  StoreInv
  OBVIOUS
<1>1. StoreInv0
  BY StoreTypesStart
<1>2. writes = <<>> /\ DOMAIN writes = {}
  BY DEF StoreInit
<1>3. HistoryInv
  <2>1. ASSUME NEW i \in Items
        PROVE  DOMAIN history[i] = {1} /\ history[i][1] = First
    <3>1. history[i] = <<First>>
      BY DEF StoreInit
    <3>2. QED
      BY <3>1
  <2>2. \A i \in Items : First \in Edits(i)
    BY DEF Edits
  <2>3. QED
    BY <1>2, <2>1, <2>2 DEF HistoryInv
<1>4. TakenInv
  BY <1>2, Empties DEF TakenInv, Fits, NewestSent, NewestWrite, StoreInit
<1>5. QED
  BY <1>1, <1>3, <1>4 DEF StoreInv

LEMMA StoreKept ==
  ASSUME StoreInv, [StoreNext]_storeVars
  PROVE  StoreInv'
BY StoreTypesKept, HistoryKept, TakenKept DEF StoreInv

\* Every variable of the store keeps its type.
THEOREM StoreTypes == StoreSpec => []StoreTypeOK
<1>1. StoreInit => StoreInv0
  BY StoreTypesStart
<1>2. StoreInv0 /\ [StoreNext]_storeVars => StoreInv0'
  BY StoreTypesKept
<1>3. StoreInv0 => StoreTypeOK
  BY DEF StoreInv0
<1>4. QED
  BY <1>1, <1>2, <1>3, PTL DEF StoreSpec

\* Once the store has shown a write's answer (household-store.ts, applyMutate and
\* canCommitMutate), nothing it shows of that write's item is older than the
\* write, however many loads, writes and ticks overlap: loadGen, the writes in
\* flight and previous keep all that is older from coming back.
THEOREM AnswerStays == StoreSpec => []TakenStays
<1>1. StoreInit => StoreInv
  BY StoreStarts
<1>2. StoreInv /\ [StoreNext]_storeVars => StoreInv'
  BY StoreKept
<1>3. StoreInv => TakenStays
  <2> SUFFICES ASSUME StoreInv, NEW w \in DOMAIN writes, Taken(w),
                      Place(writes[w].item, shown[writes[w].item]) # 0
               PROVE  Place(writes[w].item, shown[writes[w].item]) >= Place(writes[w].item, w)
    BY DEF TakenStays, Taken
  <2>1. StoreTypeOK /\ writes[w] \in WriteRecs
    BY SeqDomain DEF StoreInv, StoreInv0, StoreTypeOK
  <2>2. writes[w].item \in Items
    BY <2>1 DEF WriteRecs
  <2>3. \E n \in Nat : Stands(writes[w].item, w, n)
    BY DEF StoreInv, HistoryInv, LandedStands, AnsweredLanded, Answered, Taken
  <2>4. NotBefore(writes[w].item, shown[writes[w].item], w)
    BY <2>2 DEF StoreInv, TakenInv, Fits
  <2>5. QED
    BY <2>1, <2>2, <2>3, <2>4, NotBeforePlace
<1>4. QED
  BY <1>1, <1>2, <1>3, PTL DEF StoreSpec

\* No load that answers and no older write that ends (household-store.ts, applyLoaded
\* while writesInFlight, and a mutate that canCommitMutate turns away) takes
\* the newest write's change off the screen while that write is in flight.
THEOREM NewestStays == StoreSpec => NewestShown
<1> DEFINE Stay == \A w \in DOMAIN writes :
                     writes[w].outcome = "sent" /\ Owns(w) /\ Len(writes') = NewestWrite
                     /\ writes'[w].outcome = "sent" /\ status' # "incompatible"
                       => UNCHANGED shown
<1>1. StoreInit => StoreInv0
  BY StoreTypesStart
<1>2. StoreInv0 /\ [StoreNext]_storeVars => StoreInv0'
  BY StoreTypesKept
<1>3. StoreInv0 /\ [StoreNext]_storeVars => [Stay]_storeVars
  <2> SUFFICES ASSUME StoreInv0, StoreNext, NEW w \in DOMAIN writes, writes[w].outcome = "sent", Owns(w),
                      Len(writes') = NewestWrite, writes'[w].outcome = "sent", status' # "incompatible"
               PROVE  UNCHANGED shown
    OBVIOUS
  <2>0. StoreTypeOK /\ Busy(writes)
    BY DEF StoreInv0, Busy
  <2>1. ASSUME NEW l \in Loads,
               Dropped(l) \/ Withheld(l) \/ Readable(l) \/ CheckFails(l) \/ Apply(l) \/ Fails(l) \/ Refused(l)
        PROVE  UNCHANGED shown
    BY <2>0, <2>1 DEF Dropped, Withheld, Readable, CheckFails, Apply, Fails, Refused, Store
  <2>2. ASSUME NEW i \in Items, NEW optimistic \in BOOLEAN, Begin(i, optimistic)
        PROVE  FALSE
    BY <2>0, <2>2, BeginFacts DEF NewestWrite
  <2>3. ASSUME NEW v \in 1..MaxWrites, Take(v) \/ PutAside(v) \/ Refuse(v) \/ Lose(v)
        PROVE  UNCHANGED shown
    <3>1. PICK outcome \in Outcomes \ {"sent"}, ls \in [Loads -> LoadRecs], again \in BOOLEAN :
            EndsAs(v, outcome, ls, again)
      BY <2>3, EndsSomehow
    <3>2. writes'[v].outcome = outcome
      BY <2>0, <3>1, FinishFacts, EndedFacts DEF EndsAs
    <3>3. v # w
      BY <3>1, <3>2
    <3>4. ~Owns(v)
      BY <3>3 DEF Owns
    <3>5. QED
      BY <2>3, <3>4 DEF Take, PutAside, Refuse, Lose
  <2>4. ASSUME NEW v \in 1..MaxWrites, Land(v) \/ FollowEnds(v)
        PROVE  UNCHANGED shown
    BY <2>4 DEF Land, FollowEnds
  <2>5. ASSUME Tick \/ Update \/ SignOut \/ (\E i \in Items : Edit(i))
               \/ (\E l \in Loads, i \in Items : Read(l, i))
        PROVE  UNCHANGED shown
    BY <2>5 DEF Tick, Update, SignOut, Edit, Read, Store
  <2>6. QED
    BY <2>1, <2>2, <2>3, <2>4, <2>5 DEF StoreNext
<1>4. QED
  BY <1>1, <1>2, <1>3, PTL DEF StoreSpec, NewestShown

----------------------------------------------------------------------------
(* Nothing made up                                                         *)

\* As long as no other write of an item is answered, what was good of it is.
LEMMA GoodSame ==
  ASSUME UNCHANGED history, NEW i, NEW e, Good(i, e),
         \A v \in DOMAIN writes' : Answered(v)' /\ writes'[v].item = i
           => v \in DOMAIN writes /\ Answered(v) /\ writes[v].item = i
  PROVE  Good(i, e)'
BY DEF Good, NotBefore, Stands

\* What the household holds now is good.
LEMMA NowGood ==
  ASSUME StoreTypeOK, HistoryInv, NEW i \in Items
  PROVE  Good(i, Now(i))
BY NowTyped, NowFits DEF Good

\* No write begins, lands or ends, and nobody edits.
LEMMA ReadQuiet ==
  ASSUME ReadInv, UNCHANGED <<history, writes>>,
         reloadAfterWrites' => Busy(writes),
         ~reloadAfterWrites' => \A l \in Loads : \A i \in DOMAIN loads'[l].got : Good(i, loads'[l].got[i]),
         NewestSent /\ ~Excused' => ~Excused /\ UNCHANGED shown,
         ~NewestSent /\ ~Excused' /\ ~Loading' => \A i \in Items : Good(i, shown'[i])
  PROVE  ReadInv'
<1>1. ASSUME NEW i, NEW e, Good(i, e)
      PROVE  Good(i, e)'
  BY <1>1, SameFits
<1>2. ASSUME ~reloadAfterWrites', NEW l \in Loads, NEW i \in DOMAIN loads'[l].got
      PROVE  Good(i, loads[l].got[i])'
  <2> PICK e : e = loads'[l].got[i]
    OBVIOUS
  <2>1. Good(i, e)'
    BY <1>1, <1>2
  <2>2. QED
    BY <2>1
<1>3. ASSUME NewestSent', ~Excused'
      PROVE  /\ \A i \in Items : Good(i, writes[NewestWrite].previous[i])'
             /\ \A i \in Items : i # writes'[NewestWrite'].item => Good(i, shown[i])'
             /\ \A v \in DOMAIN writes' :
                  Answered(v)' /\ writes'[v].item = writes'[NewestWrite'].item
                    => NotBefore(writes[v].item, NewestWrite, v)'
  <2>1. NewestSent /\ ~Excused /\ UNCHANGED shown
    BY <1>3 DEF NewestSent, NewestWrite
  <2> PICK n : n = NewestWrite
    OBVIOUS
  <2>2. n = NewestWrite'
    BY DEF NewestWrite
  <2>3. ASSUME NEW i \in Items
        PROVE  Good(i, writes[n].previous[i])'
    <3> PICK e : e = writes[n].previous[i]
      OBVIOUS
    <3>1. Good(i, e)'
      BY <1>1, <2>1 DEF ReadInv
    <3>2. QED
      BY <3>1
  <2>4. ASSUME NEW i \in Items, i # writes'[n].item
        PROVE  Good(i, shown[i])'
    <3> PICK e : e = shown[i]
      OBVIOUS
    <3>1. Good(i, e)'
      BY <1>1, <2>1, <2>4 DEF ReadInv
    <3>2. QED
      BY <2>1, <3>1
  <2>5. ASSUME NEW v \in DOMAIN writes', Answered(v)', writes'[v].item = writes'[n].item
        PROVE  NotBefore(writes[v].item, n, v)'
    <3> PICK i : i = writes[v].item
      OBVIOUS
    <3>1. NotBefore(i, n, v)
      BY <2>1, <2>5 DEF ReadInv, Answered
    <3>2. NotBefore(i, n, v)'
      BY <3>1, SameFits
    <3>3. QED
      BY <3>2
  <2>6. QED
    BY <2>2, <2>3, <2>4, <2>5
<1>4. ASSUME ~NewestSent', ~Excused', ~Loading', NEW i \in Items
      PROVE  Good(i, shown[i])'
  <2> PICK e : e = shown'[i]
    OBVIOUS
  <2>1. Good(i, e)
    BY <1>4 DEF NewestSent, NewestWrite
  <2>2. Good(i, e)'
    BY <1>1, <2>1
  <2>3. QED
    BY <2>2
<1>5. reloadAfterWrites' => Busy(writes')
  BY DEF Busy
<1>6. QED
  BY <1>2, <1>3, <1>4, <1>5 DEF ReadInv

\* An edit is made: what was good still is.
LEMMA ReadGrows ==
  ASSUME StoreTypeOK, HistoryInv, ReadInv, NEW k \in Items, NEW x \in Nat,
         \A n \in DOMAIN history[k] : history[k][n] # x,
         history' = [history EXCEPT ![k] = Append(@, x)],
         UNCHANGED <<shown, loads, status, stale, reloadAfterWrites>>,
         Len(writes') = Len(writes), DOMAIN writes' = DOMAIN writes,
         \A v \in DOMAIN writes : /\ writes'[v].item = writes[v].item
                                  /\ writes'[v].outcome = writes[v].outcome
                                  /\ writes'[v].previous = writes[v].previous
  PROVE  ReadInv'
<1>0. /\ NewestWrite' = NewestWrite /\ (NewestWrite # 0 => NewestWrite \in DOMAIN writes)
      /\ NewestSent' <=> NewestSent
      /\ Excused' <=> Excused
      /\ Loading' <=> Loading
      /\ Busy(writes') <=> Busy(writes)
      /\ \A v \in DOMAIN writes : Answered(v)' <=> Answered(v)
  <2>1. NewestWrite' = NewestWrite /\ (NewestWrite # 0 => NewestWrite \in DOMAIN writes)
    BY SeqDomain DEF StoreTypeOK, NewestWrite
  <2>2. NewestSent' <=> NewestSent
    BY <2>1 DEF NewestSent
  <2>3. (OlderSent' <=> OlderSent) /\ (Busy(writes') <=> Busy(writes)) /\ (Loading' <=> Loading)
    BY <2>1 DEF OlderSent, Busy, Loading
  <2>4. \A v \in DOMAIN writes : Answered(v)' <=> Answered(v)
    BY DEF Answered
  <2>5. QED
    BY <2>1, <2>2, <2>3, <2>4 DEF Excused
<1>1. ASSUME NEW v \in DOMAIN writes, NEW e, Answered(v), NotBefore(writes[v].item, e, v)
      PROVE  NotBefore(writes[v].item, e, v)'
  <2>1. writes[v] \in WriteRecs
    BY SeqDomain DEF StoreTypeOK
  <2> PICK i \in Items : i = writes[v].item
    BY <2>1 DEF WriteRecs
  <2>2. \E n \in Nat : Stands(i, v, n)
    BY <1>1 DEF HistoryInv, LandedStands, AnsweredLanded
  <2>3. NotBefore(i, e, v)'
    BY <1>1, <2>2, Grows
  <2>4. i = writes'[v].item
    OBVIOUS
  <2>5. QED
    BY <2>3, <2>4
<1>2. ASSUME NEW i \in Items, NEW e, Good(i, e)
      PROVE  Good(i, e)'
  <2>1. \E n \in Nat : Stands(i, e, n)'
    BY <1>2, Grows DEF Good
  <2>2. ASSUME NEW v \in DOMAIN writes', Answered(v)', writes'[v].item = i
        PROVE  NotBefore(i, e, v)'
    <3>1. v \in DOMAIN writes /\ Answered(v) /\ writes[v].item = i
      BY <1>0, <2>2
    <3>2. NotBefore(writes[v].item, e, v)
      BY <1>2, <3>1 DEF Good
    <3>3. NotBefore(writes[v].item, e, v)'
      BY <1>1, <3>1, <3>2
    <3>4. QED
      BY <2>2, <3>3
  <2>3. QED
    BY <2>1, <2>2 DEF Good
<1>3. ASSUME ~reloadAfterWrites', NEW l \in Loads, NEW i \in DOMAIN loads'[l].got
      PROVE  Good(i, loads[l].got[i])'
  <2> PICK e : e = loads[l].got[i]
    OBVIOUS
  <2>1. i \in Items
    BY GotTypes DEF StoreTypeOK, LoadRecs
  <2>2. Good(i, e)'
    BY <1>2, <1>3, <2>1 DEF ReadInv
  <2>3. QED
    BY <2>2
<1>4. ASSUME NewestSent', ~Excused'
      PROVE  /\ \A i \in Items : Good(i, writes[NewestWrite].previous[i])'
             /\ \A i \in Items : i # writes'[NewestWrite'].item => Good(i, shown[i])'
             /\ \A v \in DOMAIN writes' :
                  Answered(v)' /\ writes'[v].item = writes'[NewestWrite'].item
                    => NotBefore(writes[v].item, NewestWrite, v)'
  <2> PICK n : n = NewestWrite
    OBVIOUS
  <2>1. NewestSent /\ ~Excused /\ n = NewestWrite' /\ n \in DOMAIN writes
    BY <1>0, <1>4 DEF NewestSent
  <2>2. writes'[n].item = writes[n].item /\ writes'[n].previous = writes[n].previous
    BY <2>1
  <2>3. ASSUME NEW i \in Items
        PROVE  Good(i, writes[n].previous[i])'
    <3> PICK e : e = writes[n].previous[i]
      OBVIOUS
    <3>1. Good(i, e)'
      BY <1>2, <2>1 DEF ReadInv
    <3>2. QED
      BY <2>2, <3>1
  <2>4. ASSUME NEW i \in Items, i # writes'[n].item
        PROVE  Good(i, shown[i])'
    <3> PICK e : e = shown[i]
      OBVIOUS
    <3>1. Good(i, e)'
      BY <1>2, <2>1, <2>2, <2>4 DEF ReadInv
    <3>2. QED
      BY <3>1
  <2>5. ASSUME NEW v \in DOMAIN writes', Answered(v)', writes'[v].item = writes'[n].item
        PROVE  NotBefore(writes[v].item, n, v)'
    <3>1. v \in DOMAIN writes /\ Answered(v) /\ writes[v].item = writes[n].item
      BY <1>0, <2>2, <2>5
    <3>2. NotBefore(writes[v].item, n, v)
      BY <2>1, <3>1 DEF ReadInv
    <3>3. QED
      BY <1>1, <3>1, <3>2
  <2>6. QED
    BY <2>1, <2>3, <2>4, <2>5
<1>5. ASSUME ~NewestSent', ~Excused', ~Loading', NEW i \in Items
      PROVE  Good(i, shown[i])'
  <2> PICK e : e = shown[i]
    OBVIOUS
  <2>1. Good(i, e)'
    BY <1>0, <1>2, <1>5 DEF ReadInv
  <2>2. QED
    BY <2>1
<1>6. reloadAfterWrites' => Busy(writes')
  BY <1>0 DEF ReadInv
<1>7. QED
  BY <1>3, <1>4, <1>5, <1>6 DEF ReadInv

\* A write that ends, after which the store is to read again: now, or when the last does.
LEMMA ReadAgain ==
  ASSUME StoreInv0, NEW w, NEW outcome \in Outcomes \ {"sent"}, NEW ls,
         NEW again \in BOOLEAN, again, EndsAs(w, outcome, ls, again)
  PROVE  ReadInv'
<1>1. /\ reloadAfterWrites' <=> Busy(writes')
      /\ ~reloadAfterWrites' => Loading' /\ \A l \in Loads : DOMAIN loads'[l].got = {}
  BY FinishFacts DEF EndsAs, StoreInv0
<1>2. NewestSent' /\ ~Excused' => FALSE
  <2>1. Len(writes') # 0 /\ DOMAIN writes' = DOMAIN writes /\ Len(writes') = Len(writes) => Len(writes') \in DOMAIN writes'
    BY SeqDomain DEF StoreInv0, StoreTypeOK
  <2>2. DOMAIN writes' = DOMAIN writes /\ Len(writes') = Len(writes)
    BY FinishFacts, EndedFacts DEF EndsAs, StoreInv0
  <2>3. NewestSent' => Busy(writes')
    BY <2>1, <2>2 DEF NewestSent, NewestWrite, Busy
  <2>4. QED
    BY <1>1, <2>3 DEF Excused
<1>3. ~Excused' => Loading'
  BY <1>1 DEF Excused
<1>4. QED
  BY <1>1, <1>2, <1>3 DEF ReadInv

\* The newest write, refused or lost, is taken back, and asks for nothing by itself.
LEMMA TakenBack ==
  ASSUME StoreInv0, NEW w, Owns(w), Refuse(w) \/ Lose(w)
  PROVE  \E outcome \in {"refused", "lost"}, ls \in [Loads -> LoadRecs] :
           EndsAs(w, outcome, ls, reloadAfterWrites) /\ shown' = writes[w].previous
<1> USE DEF StoreInv0
<1>0. /\ ReadFrom(loads, loads) /\ Flying(loads) /\ loads \in [Loads -> LoadRecs]
      /\ ReadFrom(SetAside(loads), loads) /\ Flying(SetAside(loads)) /\ reloadAfterWrites \in BOOLEAN
  BY AsideFacts DEF ReadFrom, StoreTypeOK
<1>1. CASE Refuse(w)
  <2>1. EndsAs(w, "refused", loads, reloadAfterWrites) /\ shown' = writes[w].previous
    BY <1>0, <1>1 DEF Refuse, EndsAs
  <2>2. QED
    BY <1>0, <2>1
<1>2. CASE Lose(w) /\ ~phone
  <2>1. EndsAs(w, "lost", loads, reloadAfterWrites) /\ shown' = writes[w].previous
    BY <1>0, <1>2 DEF Lose, EndsAs
  <2>2. QED
    BY <1>0, <2>1
<1>3. CASE Lose(w) /\ phone
  <2> DEFINE again == AndOneMore(SetAside(loads), Started(TRUE, FALSE))
  <2>1. Sent(w) /\ Room(loads) /\ Finish(w, "lost", again, reloadAfterWrites) /\ shown' = writes[w].previous
    BY <1>3 DEF Lose
  <2>2. Room(SetAside(loads))
    BY <2>1 DEF Room, SetAside, Aside, Flying, LoadRecs
  <2>3. Flying(again) /\ ReadFrom(again, SetAside(loads))
    BY <1>0, <2>2, StartedFacts, OneMoreFacts
  <2> HIDE DEF again
  <2>4. ReadFrom(again, loads)
    BY <1>0, <2>3, AsideFacts DEF ReadFrom
  <2>5. EndsAs(w, "lost", again, reloadAfterWrites) /\ again \in [Loads -> LoadRecs]
    BY <1>0, <2>1, <2>3, <2>4 DEF EndsAs, Flying
  <2>6. QED
    BY <2>1, <2>5
<1>4. QED
  BY <1>1, <1>2, <1>3

\* The newest write ends, and no more was asked for: what it leaves on screen is good.
LEMMA ReadOwned ==
  ASSUME StoreInv0, HistoryInv, ReadInv, NEW w, Owns(w), UNCHANGED <<history, status, stale>>,
         NEW outcome \in Outcomes \ {"sent"}, NEW ls, ~reloadAfterWrites,
         EndsAs(w, outcome, ls, reloadAfterWrites),
         \/ /\ outcome \in {"refused", "lost"} /\ shown' = writes[w].previous
         \/ /\ outcome = "taken" /\ writes[w].landed /\ shown' = [shown EXCEPT ![writes[w].item] = w]
            /\ \A l \in Loads : DOMAIN ls[l].got = {}
  PROVE  ReadInv'
<1> USE DEF StoreInv0
<1>0. /\ Sent(w) /\ w \in DOMAIN writes /\ w \in Nat /\ writes[w].item \in Items
      /\ Len(writes') = Len(writes) /\ DOMAIN writes' = DOMAIN writes
      /\ writes'[w].item = writes[w].item
      /\ writes'[w].outcome = outcome /\ writes[w].outcome = "sent"
      /\ \A v \in DOMAIN writes \ {w} : writes'[v] = writes[v]
      /\ loads' = ls /\ ~reloadAfterWrites' /\ ReadFrom(ls, loads) /\ shown \in [Items -> Nat]
  BY FinishFacts, EndedFacts DEF EndsAs, StoreTypeOK
<1>1. NewestSent /\ w = NewestWrite /\ NewestWrite' = NewestWrite /\ ~NewestSent'
  BY <1>0, SeqDomain DEF NewestSent, NewestWrite, Owns, StoreTypeOK
<1>2. ~Excused' => ~Excused
  <2>1. OlderSent => OlderSent'
    <3>1. ASSUME NEW v \in DOMAIN writes, v < NewestWrite, writes[v].outcome = "sent"
          PROVE  OlderSent'
      <4>1. v # w /\ v < NewestWrite'
        BY <1>0, <1>1, <3>1
      <4>2. v \in DOMAIN writes' /\ writes'[v].outcome = "sent"
        BY <1>0, <3>1, <4>1
      <4>3. QED
        BY <4>1, <4>2 DEF OlderSent
    <3>2. QED
      BY <3>1 DEF OlderSent
  <2>2. QED
    BY <2>1 DEF Excused
<1>3. CASE outcome \in {"refused", "lost"} /\ shown' = writes[w].previous
  <2>1. ASSUME NEW i, NEW e, Good(i, e)
        PROVE  Good(i, e)'
    <3>1. \A v \in DOMAIN writes' : Answered(v)' /\ writes'[v].item = i
            => v \in DOMAIN writes /\ Answered(v) /\ writes[v].item = i
      BY <1>0, <1>3 DEF Answered
    <3>2. QED
      BY <2>1, <3>1, GoodSame
  <2>2. ASSUME NEW l \in Loads, NEW i \in DOMAIN loads'[l].got
        PROVE  Good(i, loads[l].got[i])'
    <3> PICK e : e = loads'[l].got[i]
      OBVIOUS
    <3>1. Good(i, e)
      BY <1>0 DEF ReadInv, ReadFrom
    <3>2. Good(i, e)'
      BY <2>1, <3>1
    <3>3. QED
      BY <3>2
  <2>3. ASSUME ~Excused', NEW i \in Items
        PROVE  Good(i, shown[i])'
    <3> PICK e : e = shown'[i]
      OBVIOUS
    <3>1. Good(i, e)
      BY <1>1, <1>2, <1>3, <2>3 DEF ReadInv
    <3>2. Good(i, e)'
      BY <2>1, <3>1
    <3>3. QED
      BY <3>2
  <2>4. QED
    BY <1>0, <1>1, <2>2, <2>3 DEF ReadInv
<1>4. CASE /\ outcome = "taken" /\ writes[w].landed /\ shown' = [shown EXCEPT ![writes[w].item] = w]
           /\ \A l \in Loads : DOMAIN ls[l].got = {}
  <2>1. ASSUME ~Excused', NEW i \in Items
        PROVE  Good(i, shown[i])'
    <3>1. CASE i = writes[w].item
      <4>1. \E n \in Nat : Stands(i, w, n)
        BY <1>0, <1>4, <3>1 DEF HistoryInv, LandedStands
      <4>2. ASSUME NEW v \in DOMAIN writes', Answered(v)', writes'[v].item = i
            PROVE  NotBefore(i, w, v)
        <5>1. CASE v = w
          BY <5>1, NowFits
        <5>2. CASE v # w
          <6>1. v \in DOMAIN writes /\ Answered(v) /\ writes[v].item = i
            BY <1>0, <4>2, <5>2 DEF Answered
          <6>2. QED
            BY <1>1, <1>2, <2>1, <3>1, <6>1 DEF ReadInv
        <5>3. QED
          BY <5>1, <5>2
      <4>3. Good(i, w)'
        BY <4>1, <4>2 DEF Good, NotBefore, Stands
      <4>4. shown'[i] = w
        BY <1>0, <1>4, <3>1
      <4>5. QED
        BY <4>3, <4>4
    <3>2. CASE i # writes[w].item
      <4> PICK e : e = shown[i]
        OBVIOUS
      <4>1. Good(i, e)
        BY <1>1, <1>2, <2>1, <3>2 DEF ReadInv
      <4>2. \A v \in DOMAIN writes' : Answered(v)' /\ writes'[v].item = i
              => v \in DOMAIN writes /\ Answered(v) /\ writes[v].item = i
        BY <1>0, <3>2 DEF Answered
      <4>3. Good(i, e)'
        BY <4>1, <4>2, GoodSame
      <4>4. e = shown'[i]
        BY <1>0, <1>4, <3>2
      <4>5. QED
        BY <4>3, <4>4
    <3>3. QED
      BY <3>1, <3>2
  <2>2. QED
    BY <1>0, <1>1, <1>4, <2>1 DEF ReadInv
<1>5. QED
  BY <1>3, <1>4

LEMMA ReadKept ==
  ASSUME StoreInv0, HistoryInv, ReadInv, [StoreNext]_storeVars
  PROVE  ReadInv'
<1> USE DEF StoreInv0
<1>0. /\ MaxWrites \in Nat /\ First = MaxWrites + 1 /\ First \in Nat /\ others \in Nat
      /\ loads \in [Loads -> LoadRecs] /\ (\A l \in Loads : loads[l].got \in Partial)
      /\ shown \in [Items -> Nat] /\ reloadAfterWrites \in BOOLEAN
  BY StoreAssumption DEF StoreTypeOK, First, LoadRecs
<1>1. ASSUME UNCHANGED <<history, writes, shown, status, stale, reloadAfterWrites>>,
             ReadFrom(loads', loads), Loading => Loading'
      PROVE  ReadInv'
  <2>1. Excused' <=> Excused
    BY <1>1 DEF Excused, OlderSent, NewestWrite
  <2>2. ~reloadAfterWrites' => \A l \in Loads : \A i \in DOMAIN loads'[l].got : Good(i, loads'[l].got[i])
    BY <1>1 DEF ReadInv, ReadFrom
  <2>3. ~NewestSent /\ ~Excused' /\ ~Loading' => \A i \in Items : Good(i, shown'[i])
    BY <1>1, <2>1 DEF ReadInv
  <2>4. QED
    BY <1>1, <2>1, <2>2, <2>3, ReadQuiet DEF ReadInv
<1>2. CASE Tick
  <2>1. ReadFrom(loads', loads) /\ Loading'
    <3>1. CASE ReloadWith(loads, TRUE)
      BY <3>1, ReloadFacts DEF ReadFrom
    <3>2. CASE RefreshLive
      <4>1. /\ Started(FALSE, TRUE) \in LoadRecs /\ Started(FALSE, TRUE).current
            /\ Started(FALSE, TRUE).stage # "idle" /\ DOMAIN Started(FALSE, TRUE).got = {}
        BY StartedFacts
      <4>2. QED
        BY <3>2, <4>1, OneMoreFacts DEF RefreshLive, Loading
    <3>3. QED
      BY <1>2, <3>1, <3>2 DEF Tick
  <2>2. QED
    BY <1>1, <1>2, <2>1 DEF Tick, Server, Store
<1>3. ASSUME NEW l \in Loads, NEW i \in Items, Read(l, i)
      PROVE  ReadInv'
  <2>1. UNCHANGED <<history, writes, shown, status, stale, reloadAfterWrites>>
    BY <1>3 DEF Read, Server, Store
  <2>2. /\ loads'[l].got = [j \in DOMAIN loads[l].got \cup {i} |-> IF j = i THEN Now(i) ELSE loads[l].got[j]]
        /\ \A k \in Loads \ {l} : loads'[k] = loads[k]
        /\ loads'[l].current = loads[l].current
    BY <1>0, <1>3 DEF Read, LoadRecs
  <2>3. Good(i, Now(i))
    BY NowGood
  <2>4. ASSUME ~reloadAfterWrites', NEW k \in Loads, NEW j \in DOMAIN loads'[k].got
        PROVE  Good(j, loads'[k].got[j])
    BY <2>1, <2>2, <2>3, <2>4 DEF ReadInv
  <2>5. (Excused' <=> Excused) /\ (Loading' <=> Loading)
    BY <2>1, <2>2 DEF Excused, OlderSent, NewestWrite, Loading
  <2>6. ~NewestSent /\ ~Excused' /\ ~Loading' => \A j \in Items : Good(j, shown'[j])
    BY <2>1, <2>5 DEF ReadInv
  <2>7. reloadAfterWrites' => Busy(writes)
    BY <2>1 DEF ReadInv
  <2>8. QED
    BY <2>1, <2>4, <2>5, <2>6, <2>7, ReadQuiet
<1>4. ASSUME NEW l \in Loads, Dropped(l) \/ Readable(l) \/ (CheckFails(l) /\ status # "incompatible")
      PROVE  ReadInv'
  <2>1. UNCHANGED <<history, writes, shown, status, stale, reloadAfterWrites>>
    BY <1>4 DEF Dropped, Readable, CheckFails, Server, Store
  <2>2. \/ ~loads[l].current /\ Ended(l)
        \/ loads' = [loads EXCEPT ![l].stage = "read"]
    BY <1>4 DEF Dropped, Readable, CheckFails
  <2>3. ReadFrom(loads', loads)
    BY <1>0, <2>2, Empties DEF ReadFrom, Ended, LoadRecs
  <2>4. \A k \in Loads : loads[k].current => loads'[k].current
    BY <1>0, <2>2 DEF Ended, LoadRecs
  <2>5. QED
    BY <1>1, <2>1, <2>3, <2>4 DEF Loading
<1>5. ASSUME NEW l \in Loads,
             Withheld(l) \/ Fails(l) \/ Refused(l) \/ (CheckFails(l) /\ status = "incompatible")
      PROVE  ReadInv'
  <2>1. UNCHANGED <<history, writes, reloadAfterWrites>> /\ Ended(l) /\ Excused'
    BY <1>5 DEF Withheld, Fails, Refused, CheckFails, Server, Store, Excused
  <2>2. \A k \in Loads : DOMAIN loads'[k].got = {} \/ loads'[k] = loads[k]
    BY <1>0, <2>1, Empties DEF Ended
  <2>3. ~reloadAfterWrites' => \A k \in Loads : \A i \in DOMAIN loads'[k].got : Good(i, loads'[k].got[i])
    BY <2>1, <2>2 DEF ReadInv
  <2>4. QED
    BY <2>1, <2>3, ReadQuiet DEF ReadInv
<1>6. ASSUME NEW l \in Loads, Apply(l)
      PROVE  ReadInv'
  <2>1. UNCHANGED <<history, writes>> /\ Ended(l) /\ DOMAIN loads[l].got = Items
    BY <1>6 DEF Apply, Server
  <2>2. \A k \in Loads : DOMAIN loads'[k].got = {} \/ loads'[k] = loads[k]
    BY <1>0, <2>1, Empties DEF Ended
  <2>3. CASE Busy(writes)
    <3>1. reloadAfterWrites' /\ Excused'
      BY <1>6, <2>3 DEF Apply, Excused
    <3>2. QED
      BY <2>1, <2>3, <3>1, ReadQuiet
  <2>4. CASE ~Busy(writes)
    <3>1. shown' = loads[l].got /\ UNCHANGED reloadAfterWrites /\ ~reloadAfterWrites
      BY <1>6, <2>4 DEF Apply, ReadInv
    <3>2. \A k \in Loads : \A i \in DOMAIN loads[k].got : Good(i, loads[k].got[i])
      BY <3>1 DEF ReadInv
    <3>3. ~NewestSent
      BY <2>4, SeqDomain DEF NewestSent, NewestWrite, Busy, StoreTypeOK
    <3>4. \A k \in Loads : \A i \in DOMAIN loads'[k].got : Good(i, loads'[k].got[i])
      BY <2>2, <3>2
    <3>5. \A i \in Items : Good(i, shown'[i])
      BY <2>1, <3>1, <3>2
    <3>6. QED
      BY <2>1, <3>1, <3>3, <3>4, <3>5, ReadQuiet
  <2>5. QED
    BY <2>3, <2>4
<1>7. ASSUME NEW i \in Items, NEW optimistic \in BOOLEAN, Begin(i, optimistic)
      PROVE  ReadInv'
  <2> PICK n : n = Len(writes')
    OBVIOUS
  <2>1. /\ DOMAIN writes' = DOMAIN writes \cup {n} /\ n \notin DOMAIN writes /\ n \in Nat /\ n <= MaxWrites
        /\ \A v \in DOMAIN writes : writes'[v] = writes[v] /\ v < n /\ v \in Nat
        /\ writes'[n].outcome = "sent" /\ writes'[n].previous = shown /\ writes'[n].item = i
        /\ shown' = shown \/ shown' = [shown EXCEPT ![i] = n]
    BY <1>7, BeginFacts
  <2>2. /\ UNCHANGED <<history, status, stale>> /\ loads' = SetAside(loads)
        /\ reloadAfterWrites' = (reloadAfterWrites \/ InFlight # {})
    BY <1>7 DEF Begin, BeginLoads, Server
  <2>3. Busy(writes') /\ n = NewestWrite' /\ n # 0 /\ NewestSent'
    <3>1. n # 0
      BY <2>1, SeqDomain, BeginFacts, <1>7
    <3>2. QED
      BY <2>1, <3>1 DEF Busy, NewestWrite, NewestSent
  <2>4. \A l \in Loads : DOMAIN loads'[l].got = {}
    BY <2>2, AsideFacts
  <2>5. ASSUME ~Excused'
        PROVE  \A j \in Items : Good(j, shown[j])
    <3>1. ~reloadAfterWrites /\ ~Loading /\ ~stale /\ status = "ready"
      BY <2>2, <2>5 DEF Excused, Loading, InFlight, Flying
    <3>2. \A v \in DOMAIN writes : writes[v].outcome # "sent"
      BY <2>1, <2>3, <2>5 DEF Excused, OlderSent
    <3>3. ~NewestSent /\ ~OlderSent
      BY <3>2, SeqDomain DEF NewestSent, NewestWrite, OlderSent, StoreTypeOK
    <3>4. QED
      BY <3>1, <3>3 DEF ReadInv, Excused
  <2>6. ASSUME NEW j, NEW e, Good(j, e)
        PROVE  Good(j, e)'
    <3>1. \A v \in DOMAIN writes' : Answered(v)' /\ writes'[v].item = j
            => v \in DOMAIN writes /\ Answered(v) /\ writes[v].item = j
      BY <2>1 DEF Answered
    <3>2. QED
      BY <2>2, <2>6, <3>1, GoodSame
  <2>7. ASSUME ~Excused', NEW j \in Items
        PROVE  Good(j, writes[n].previous[j])' /\ (j # i => Good(j, shown[j])')
    <3> PICK e : e = shown[j]
      OBVIOUS
    <3>1. Good(j, e)'
      BY <2>5, <2>6, <2>7
    <3>2. e = writes'[n].previous[j] /\ (j # i => e = shown'[j])
      BY <1>0, <2>1
    <3>3. QED
      BY <3>1, <3>2
  <2>8. ASSUME NEW v \in DOMAIN writes', Answered(v)', writes'[v].item = i
        PROVE  NotBefore(writes[v].item, n, v)'
    <3>1. NotBefore(i, n, v)
      BY <2>1, NowFits
    <3>2. NotBefore(i, n, v)'
      BY <2>2, <3>1 DEF NotBefore, Stands
    <3>3. QED
      BY <2>8, <3>2
  <2>9. QED
    BY <2>1, <2>3, <2>4, <2>7, <2>8 DEF ReadInv
<1>8. ASSUME NEW w \in 1..MaxWrites, Land(w)
      PROVE  ReadInv'
  <2>0. w \in Nat /\ 1 <= w /\ w <= MaxWrites
    BY <1>0
  <2>1. /\ Len(writes') = Len(writes) /\ DOMAIN writes' = DOMAIN writes /\ ~writes[w].landed
        /\ writes[w].item \in Items
        /\ \A v \in DOMAIN writes : /\ writes'[v].item = writes[v].item
                                    /\ writes'[v].outcome = writes[v].outcome
                                    /\ writes'[v].previous = writes[v].previous
    BY <1>8, LandFacts
  <2> PICK k \in Items : k = writes[w].item
    BY <2>1
  <2>2. /\ history' = [history EXCEPT ![k] = Append(@, w)]
        /\ UNCHANGED <<shown, loads, status, stale, reloadAfterWrites>>
    BY <1>8 DEF Land
  <2>3. \A n \in DOMAIN history[k] : history[k][n] # w
    BY <2>0, <2>1, NotThereYet
  <2> HIDE DEF StoreInv0
  <2>4. StoreTypeOK
    BY DEF StoreInv0
  <2>5. QED
    BY <2>0, <2>1, <2>2, <2>3, <2>4, ReadGrows
<1>9. ASSUME NEW i \in Items, Edit(i)
      PROVE  ReadInv'
  <2>1. /\ others' = others + 1 /\ UNCHANGED <<writes, shown, loads, status, stale, reloadAfterWrites>>
        /\ history' = [history EXCEPT ![i] = Append(@, First + others')]
    BY <1>9 DEF Edit, Happens, Store
  <2>2. First + others' \in Nat /\ \A n \in DOMAIN history[i] : history[i][n] # First + others'
    BY <1>0, <2>1, NotThereYet
  <2>3. QED
    BY <2>1, <2>2, ReadGrows
<1>10. ASSUME NEW w \in 1..MaxWrites, FollowEnds(w)
       PROVE  ReadInv'
  <2>1. ReadFrom(loads', loads) /\ (Loading => Loading')
    <3>1. CASE ReloadWith(loads, FALSE)
      BY <3>1, ReloadFacts DEF ReadFrom
    <3>2. CASE UNCHANGED loads
      BY <3>2 DEF ReadFrom, Loading
    <3>3. QED
      BY <1>10, <3>1, <3>2 DEF FollowEnds
  <2>2. QED
    BY <1>1, <1>10, <2>1 DEF FollowEnds, Server
<1>11. ASSUME NEW w \in 1..MaxWrites, PutAside(w) \/ ((Refuse(w) \/ Lose(w)) /\ ~Owns(w))
       PROVE  ReadInv'
  <2>1. ReadFrom(loads, loads) /\ Flying(loads)
    BY DEF ReadFrom
  <2>2. \E outcome \in {"aside", "refused", "lost"} : EndsAs(w, outcome, loads, TRUE)
    BY <1>11, <2>1 DEF PutAside, Refuse, Lose, EndsAs
  <2>3. {"aside", "refused", "lost"} \subseteq Outcomes \ {"sent"}
    BY DEF Outcomes
  <2>4. QED
    BY <2>2, <2>3, ReadAgain
<1>12. ASSUME NEW w \in 1..MaxWrites, Take(w) \/ ((Refuse(w) \/ Lose(w)) /\ Owns(w))
       PROVE  ReadInv'
  <2>1. UNCHANGED <<history, status, stale>> /\ Owns(w)
    BY <1>12 DEF Take, Refuse, Lose, Server
  <2>2. PICK outcome, ls :
          /\ outcome \in Outcomes \ {"sent"} /\ EndsAs(w, outcome, ls, reloadAfterWrites)
          /\ \/ outcome \in {"refused", "lost"} /\ shown' = writes[w].previous
             \/ /\ outcome = "taken" /\ writes[w].landed /\ shown' = [shown EXCEPT ![writes[w].item] = w]
                /\ \A l \in Loads : DOMAIN ls[l].got = {}
    <3>1. CASE Take(w)
      <4>1. EndsAs(w, "taken", SetAside(loads), reloadAfterWrites) /\ "taken" \in Outcomes \ {"sent"}
        BY <3>1, EndsFacts DEF Outcomes
      <4>2. \A l \in Loads : DOMAIN SetAside(loads)[l].got = {}
        BY AsideFacts
      <4>3. writes[w].landed /\ shown' = [shown EXCEPT ![writes[w].item] = w]
        BY <3>1 DEF Take
      <4>4. QED
        BY <4>1, <4>2, <4>3
    <3>2. CASE Refuse(w) \/ Lose(w)
      <4>1. PICK outcome \in {"refused", "lost"}, ls \in [Loads -> LoadRecs] :
              EndsAs(w, outcome, ls, reloadAfterWrites) /\ shown' = writes[w].previous
        BY <2>1, <3>2, TakenBack
      <4>2. outcome \in Outcomes \ {"sent"}
        BY DEF Outcomes
      <4>3. QED
        BY <4>1, <4>2
    <3>3. QED
      BY <1>12, <3>1, <3>2
  <2>3. CASE reloadAfterWrites
    BY <1>0, <2>2, <2>3, ReadAgain
  <2>4. CASE ~reloadAfterWrites
    BY <2>1, <2>2, <2>4, ReadOwned
  <2>5. QED
    BY <2>3, <2>4
<1>13. CASE Update \/ SignOut \/ UNCHANGED storeVars
  <2>1. UNCHANGED <<history, writes, shown, status, stale, reloadAfterWrites, loads>>
    BY <1>13 DEF Update, SignOut, Store, storeVars
  <2>2. QED
    BY <1>1, <2>1 DEF ReadFrom, Loading
<1>14. QED
  BY <1>2, <1>3, <1>4, <1>5, <1>6, <1>7, <1>8, <1>9, <1>10, <1>11, <1>12, <1>13 DEF StoreNext

\* When no write and no load is in flight and the store calls itself up to date
\* (household-store.ts: reloadAfterWrites, stale), what it shows is what the
\* household held at some time, no older than any write whose answer came, a
\* write set aside for a newer one (mutate's finally) included.
THEOREM ShowsNothingMadeUp == StoreSpec => []NothingMadeUp
<1> DEFINE Inv == StoreInv0 /\ HistoryInv /\ ReadInv
<1>1. StoreInit => Inv
  <2> SUFFICES ASSUME StoreInit
               PROVE  ReadInv
    BY StoreStarts DEF StoreInv
  <2>1. \A l \in Loads : loads[l].got = NoAnswer /\ DOMAIN NoAnswer = {}
    BY Empties DEF StoreInit
  <2>2. ~NewestSent /\ ~reloadAfterWrites /\ Excused
    BY DEF StoreInit, NewestSent, NewestWrite, Excused
  <2>3. QED
    BY <2>1, <2>2 DEF ReadInv
<1>2. Inv /\ [StoreNext]_storeVars => Inv'
  BY StoreTypesKept, HistoryKept, ReadKept
<1>3. Inv => NothingMadeUp
  <2> SUFFICES ASSUME Inv, UpToDate
               PROVE  /\ \A i \in Items : Place(i, shown[i]) # 0
                      /\ \A w \in DOMAIN writes :
                           Answered(w) =>
                             Place(writes[w].item, shown[writes[w].item]) >= Place(writes[w].item, w)
    BY DEF NothingMadeUp, Answered
  <2>0. StoreTypeOK
    BY DEF StoreInv0
  <2>1. ~NewestSent /\ ~OlderSent /\ ~Loading
    BY <2>0, SeqDomain DEF UpToDate, Busy, NewestSent, NewestWrite, OlderSent, Loading, StoreTypeOK
  <2>2. \A i \in Items : Good(i, shown[i])
    BY <2>1 DEF UpToDate, Excused, ReadInv
  <2>3. ASSUME NEW i \in Items
        PROVE  Place(i, shown[i]) # 0
    BY <2>0, <2>2, Places DEF Good
  <2>4. ASSUME NEW w \in DOMAIN writes, Answered(w)
        PROVE  Place(writes[w].item, shown[writes[w].item]) >= Place(writes[w].item, w)
    <3>1. writes[w] \in WriteRecs
      BY <2>0, SeqDomain DEF StoreTypeOK
    <3>2. writes[w].item \in Items
      BY <3>1 DEF WriteRecs
    <3>3. \E n \in Nat : Stands(writes[w].item, w, n)
      BY <2>4 DEF HistoryInv, LandedStands, AnsweredLanded
    <3>4. NotBefore(writes[w].item, shown[writes[w].item], w)
      BY <2>2, <2>4, <3>2 DEF Good
    <3>5. QED
      BY <2>0, <2>3, <3>2, <3>3, <3>4, NotBeforePlace
  <2>5. QED
    BY <2>3, <2>4
<1> HIDE DEF Inv
<1>4. QED
  BY <1>1, <1>2, <1>3, PTL DEF StoreSpec

=============================================================================
