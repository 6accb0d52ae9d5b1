--------------------------- MODULE RemovalsProofs ---------------------------
(***************************************************************************)
(* For any consoles, policies, saves, removals and mishaps: the types of   *)
(* Removals; that what FamilyFi made is on record while it is there; that  *)
(* nothing of it is left on a console that was left; and that a policy     *)
(* FamilyFi did not make goes only by consent.                             *)
(***************************************************************************)
EXTENDS Removals, TLAPS

Claims(c) == recorded[c] \cup applied[c] \cup unanswered[c]

\* Claims are of policies that were made, and only such and foreign ones are
\* anywhere.
Numbered ==
  \A c \in Consoles : Claims(c) \subseteq 1..made /\ there[c] \subseteq Foreign \cup 1..made

\* A task is of one console, and of the household's as long as it has the lock.
Placed ==
  /\ \A h \in Holders : ~At(h, "none") => \E c \in Consoles : task[h].from = {c}
  /\ \A h \in Holders : Held(h) => ~At(h, "none") /\ task[h].from = {home}

\* What a removal has left to do is claimed by no one, and never will be.
RemovalSpares ==
  /\ task["removal"].step = "list" => task["removal"].now = {}
  /\ task["removal"].step \in {"confirm", "remove", "done", "kept"} =>
       \A p \in task["removal"].left \cup task["removal"].now :
         p \in Foreign \cup 1..made /\ \A c \in task["removal"].from : p \notin Claims(c)

\* A save that has the lock has left no creation pending once it collects,
\* has all that is there among what it deletes, and nothing there after.
SaveProgress ==
  Held("save") =>
    /\ task["save"].step \in {"collect", "delete", "forget"} => unanswered[home] = {}
    /\ At("save", "delete") => (recorded[home] \cup applied[home]) \cap there[home] \subseteq task["save"].left
    /\ At("save", "forget") => (recorded[home] \cup applied[home]) \cap there[home] = {}
    /\ At("save", "move") => \/ task["save"].to = {home}
                             \/ there[home] \cap Ours \subseteq abandoned \cup strayed

RemovalInv ==
  RemovalsTypeOK /\ Numbered /\ Placed /\ RemovalSpares /\ SaveProgress /\ OnTheRecord /\ NothingLeftBehind

----------------------------------------------------------------------------
(* Tasks                                                                   *)

Steps == {"none", "pass", "settle", "match", "collect", "delete", "failed", "forget", "move", "list", "confirm",
          "remove", "done", "kept"}

\* A task that takes its next step, with this left to do.
Becomes(h, step, left, now) ==
  task' = [task EXCEPT ![h] = [task[h] EXCEPT !.step = step, !.left = left, !.now = now]]

\* It is a task of the same console, and the others stay as they are.
LEMMA BecomesTask ==
  ASSUME RemovalsTypeOK, NEW h \in Holders, NEW step \in Steps, NEW left \in SUBSET Policies,
         NEW now \in SUBSET Policies, Becomes(h, step, left, now)
  PROVE  /\ task' \in [Holders -> Tasks]
         /\ task'[h].step = step /\ task'[h].left = left /\ task'[h].now = now
         /\ task'[h].from = task[h].from /\ task'[h].to = task[h].to
         /\ \A g \in Holders : g # h => task'[g] = task[g]
<1>1. task \in [Holders -> Tasks] /\ task[h] \in Tasks
  BY DEF RemovalsTypeOK
<1> DEFINE new == [task[h] EXCEPT !.step = step, !.left = left, !.now = now]
<1>2. new \in Tasks /\ new.step = step /\ new.left = left /\ new.now = now
      /\ new.from = task[h].from /\ new.to = task[h].to
  BY <1>1 DEF Tasks, Steps
<1> HIDE DEF new
<1>3. task' = [task EXCEPT ![h] = new]
  BY DEF Becomes, new
<1> HIDE DEF Tasks
<1> QED BY <1>1, <1>2, <1>3

\* A step alone is such a step.
LEMMA GoesBecomes ==
  ASSUME RemovalsTypeOK, NEW h \in Holders, NEW step \in Steps, Goes(h, step)
  PROVE  Becomes(h, step, task[h].left, task[h].now)
<1>1. task \in [Holders -> Tasks] /\ task[h] \in Tasks
  BY DEF RemovalsTypeOK
<1>2. [task[h] EXCEPT !.step = step] = [task[h] EXCEPT !.step = step, !.left = task[h].left, !.now = task[h].now]
  BY <1>1 DEF Tasks
<1> QED BY <1>1, <1>2 DEF Goes, Becomes

\* No task is a task.
LEMMA NoTaskIs == NoTask \in Tasks /\ NoTask.step = "none" /\ NoTask.left = {} /\ NoTask.now = {}
BY DEF NoTask, Tasks

\* A task that ends leaves the others, and the lock if it has it.
LEMMA EndsTask ==
  ASSUME RemovalsTypeOK, NEW h \in Holders, Ends(h)
  PROVE  /\ task' \in [Holders -> Tasks] /\ task'[h] = NoTask
         /\ \A g \in Holders : g # h => task'[g] = task[g]
         /\ holder' \in Holders \cup {"nobody"} /\ holder' # h
         /\ \A g \in Holders : g # h => (holder' = g <=> holder = g)
<1> HIDE DEF Tasks
<1>1. "nobody" \notin Holders
  BY DEF Holders
<1> QED BY <1>1, NoTaskIs DEF Ends, Held, RemovalsTypeOK

\* A task that takes the lock is of the household's console.
LEMMA TakesTask ==
  ASSUME RemovalsTypeOK, NEW h \in Holders, NEW t \in Tasks, Takes(h, t)
  PROVE  /\ task' \in [Holders -> Tasks] /\ task'[h].from = {home}
         /\ task'[h].step = t.step /\ task'[h].left = t.left /\ task'[h].now = t.now /\ task'[h].to = t.to
         /\ \A g \in Holders : g # h => task'[g] = task[g]
         /\ holder = "nobody" /\ holder' = h
<1>1. home \in Consoles /\ task \in [Holders -> Tasks]
  BY DEF RemovalsTypeOK
<1> DEFINE new == [t EXCEPT !.from = {home}]
<1>2. new \in Tasks /\ new.from = {home} /\ new.step = t.step /\ new.left = t.left /\ new.now = t.now /\ new.to = t.to
  BY <1>1 DEF Tasks
<1>3. task' = [task EXCEPT ![h] = new] /\ holder = "nobody" /\ holder' = h
  BY DEF Takes
<1> HIDE DEF new, Tasks
<1> QED BY <1>1, <1>2, <1>3

\* The console of a task that is under way.
LEMMA WhereIs ==
  ASSUME Placed, NEW h \in Holders, ~At(h, "none")
  PROVE  Where(h) \in Consoles /\ task[h].from = {Where(h)}
BY DEF Placed, Where

\* Policies: made ones are Ours, and no foreign one is.
LEMMA Made ==
  ASSUME RemovalsTypeOK
  PROVE  /\ 1..made \subseteq Ours /\ Ours \cap Foreign = {} /\ Ours \subseteq Policies /\ Foreign \subseteq Policies
         /\ made \in Nat
<1>1. made \in 0..MaxMade /\ MaxMade \in Nat
  BY RemovalsAssumption DEF RemovalsTypeOK
<1>2. 1..made \subseteq 1..MaxMade /\ made \in Nat
  BY <1>1, SMT
<1> QED BY <1>2, RemovalsAssumption DEF Ours, Policies

----------------------------------------------------------------------------
(* What keeps the invariant                                                *)

\* The bounds are kept.
LEMMA Bounds ==
  ASSUME RemovalsTypeOK
  PROVE  (Mishap => mishaps' \in 0..MaxMishaps) /\ (Target => targets' \in 0..MaxTargets)
BY RemovalsAssumption, SMT DEF RemovalsTypeOK, Mishap, Target

\* As long as no policy is made and no claim is, and a claim is dropped only
\* of a policy that is not there or was abandoned, everything stays numbered,
\* on record, and off the consoles that were left.
LEMMA ClaimsShrink ==
  ASSUME RemovalInv, home' = home, made' = made,
         \A c \in Consoles : there'[c] \subseteq there[c] /\ Claims(c)' \subseteq Claims(c),
         abandoned \subseteq abandoned', strayed \subseteq strayed',
         \A c \in Consoles : there'[c] \cap Claims(c) \cap Ours \subseteq Claims(c)' \cup abandoned' \cup strayed'
  PROVE  Numbered' /\ OnTheRecord' /\ NothingLeftBehind'
<1>1. Numbered'
  BY DEF RemovalInv, Numbered
<1>2. OnTheRecord'
  <2> SUFFICES ASSUME NEW c \in Consoles, NEW p \in there'[c] \cap Ours
               PROVE  p \in Claims(c)' \cup abandoned' \cup strayed'
    BY DEF OnTheRecord, Claims
  <2>1. p \in there[c] \cap Ours
    OBVIOUS
  <2>2. p \in Claims(c) \cup abandoned \cup strayed
    BY <2>1 DEF RemovalInv, OnTheRecord, Claims
  <2> QED BY <2>2
<1>3. NothingLeftBehind'
  BY DEF RemovalInv, NothingLeftBehind
<1> QED BY <1>1, <1>2, <1>3

\* Then what a removal has left to do stays unclaimed, if it gets no more.
LEMMA SparesStays ==
  ASSUME RemovalInv, made' = made, \A c \in Consoles : Claims(c)' \subseteq Claims(c),
         \/ task'["removal"] = task["removal"]
         \/ task'["removal"].step \notin {"list", "confirm", "remove", "done", "kept"}
         \/ /\ task'["removal"].step # "list"
            /\ task["removal"].step \in {"confirm", "remove", "done", "kept"}
            /\ task'["removal"].from = task["removal"].from
            /\ task'["removal"].left \cup task'["removal"].now \subseteq task["removal"].left \cup task["removal"].now
  PROVE  RemovalSpares'
<1>1. task["removal"].from \subseteq Consoles
  BY DEF RemovalInv, RemovalsTypeOK, Tasks, Holders
<1>2. RemovalSpares
  BY DEF RemovalInv
<1> QED BY <1>1, <1>2 DEF RemovalSpares

\* A save that takes no step, and keeps the lock if it has it, progresses as
\* before, if nothing is made and no creation pends.
LEMMA SaveStays ==
  ASSUME RemovalInv, home' = home, task'["save"] = task["save"], holder' = "save" => holder = "save",
         there'[home] \subseteq there[home],
         recorded'[home] \subseteq recorded[home],
         unanswered'[home] \subseteq unanswered[home],
         applied'[home] \subseteq applied[home] \cup unanswered[home],
         abandoned \subseteq abandoned', strayed \subseteq strayed'
  PROVE  SaveProgress'
<1>1. Held("save")' => Held("save")
  BY DEF Held
<1>2. applied[home] \subseteq applied[home]
  OBVIOUS
<1> QED BY <1>1 DEF RemovalInv, SaveProgress, At

\* Tasks that are elsewhere stay placed, if one ends or takes a step.
LEMMA PlacedStays ==
  ASSUME RemovalInv, home' = home, NEW h \in Holders,
         \A g \in Holders : g # h => task'[g] = task[g] /\ (holder' = g => holder = g),
         \/ task'[h].step = "none" /\ holder' # h
         \/ ~At(h, "none") /\ task'[h].from = task[h].from /\ task'[h].step # "none"
            /\ (holder' = h => holder = h)
  PROVE  Placed'
BY DEF RemovalInv, Placed, At, Held

----------------------------------------------------------------------------
(* Passes                                                                  *)

\* The program starts in the invariant.
LEMMA InitRemoval == RemovalsInit => RemovalInv
<1> SUFFICES ASSUME RemovalsInit PROVE RemovalInv
  OBVIOUS
<1>1. task = [h \in Holders |-> NoTask] /\ holder = "nobody" /\ "nobody" \notin Holders
  BY DEF RemovalsInit, Holders
<1>2. made \in 0..MaxMade /\ targets \in 0..MaxTargets /\ mishaps \in 0..MaxMishaps
  BY RemovalsAssumption, SMT DEF RemovalsInit
<1>3. there \in [Consoles -> SUBSET Policies]
  BY DEF RemovalsInit, Policies
<1> HIDE DEF Tasks
<1>4. RemovalsTypeOK
  BY <1>1, <1>2, <1>3, NoTaskIs DEF RemovalsInit, RemovalsTypeOK
<1>5. Numbered
  BY DEF RemovalsInit, Numbered, Claims
<1>6. Placed /\ RemovalSpares /\ SaveProgress
  BY <1>1, NoTaskIs DEF Placed, RemovalSpares, SaveProgress, At, Held, Holders
<1>7. OnTheRecord /\ NothingLeftBehind
  <2>1. \A c \in Consoles : there[c] \cap Ours = {}
    BY <1>4, Made DEF RemovalsInit
  <2> QED BY <2>1 DEF OnTheRecord, NothingLeftBehind
<1> QED BY <1>4, <1>5, <1>6, <1>7 DEF RemovalInv

\* A pass begins with nothing in hand.
LEMMA PassBeginsKeeps == ASSUME RemovalInv, PassBegins PROVE RemovalInv'
<1>0. RemovalsTypeOK /\ "pass" \in Holders /\ "nobody" \notin Holders
  BY DEF RemovalInv, Holders
<1> DEFINE t == [NoTask EXCEPT !.step = "pass"]
<1>1. t \in Tasks /\ t.step = "pass"
  BY NoTaskIs DEF Tasks
<1>2. Takes("pass", t)
  BY DEF PassBegins
<1> HIDE DEF t
<1>3. /\ task' \in [Holders -> Tasks] /\ task'["pass"].from = {home} /\ task'["pass"].step = "pass"
      /\ \A g \in Holders : g # "pass" => task'[g] = task[g]
      /\ holder = "nobody" /\ holder' = "pass"
  BY <1>0, <1>1, <1>2, TakesTask
<1>4. /\ UNCHANGED <<home, there, recorded, applied, unanswered, abandoned, strayed, removalBounds>>
      /\ confirmed' = {}
  BY DEF PassBegins
<1>5. RemovalsTypeOK'
  BY <1>0, <1>3, <1>4 DEF RemovalsTypeOK, removalBounds
<1>6. Placed'
  BY <1>0, <1>3, <1>4 DEF RemovalInv, Placed, At, Held, RemovalsTypeOK
<1>7. "save" \in Holders /\ "removal" \in Holders
  BY DEF Holders
<1>8. RemovalSpares' /\ SaveProgress'
  BY <1>3, <1>4, <1>7 DEF RemovalInv, RemovalSpares, SaveProgress, Held, Claims, removalBounds
<1>9. Numbered' /\ OnTheRecord' /\ NothingLeftBehind'
  BY <1>4 DEF RemovalInv, Numbered, OnTheRecord, NothingLeftBehind, Claims, removalBounds
<1> QED BY <1>5, <1>6, <1>8, <1>9 DEF RemovalInv

\* A policy a pass makes is on record, answered or not, and on the
\* household's console.
LEMMA PassMakesKeeps == ASSUME RemovalInv, PassMakes PROVE RemovalInv'
<1> DEFINE c == Where("pass")
<1>0. RemovalsTypeOK /\ {"pass", "save", "removal"} \subseteq Holders /\ Held("pass") /\ At("pass", "pass")
  BY DEF RemovalInv, Holders, PassMakes
<1>1. c = home /\ c \in Consoles
  BY <1>0, WhereIs DEF RemovalInv, Placed, At
<1>2. made' = made + 1 /\ made < MaxMade
      /\ UNCHANGED <<home, confirmed, holder, task, abandoned, strayed, targets>>
  BY DEF PassMakes
<1>3. made' \in Ours /\ made' \in Policies /\ made' \notin 1..made /\ made' \notin Foreign
      /\ made' \in 0..MaxMade /\ 1..made' = 1..made \cup {made'}
  <2>1. made \in Nat /\ MaxMade \in Nat
    BY <1>0, Made, RemovalsAssumption
  <2>2. made' \in 1..MaxMade /\ made' \notin 1..made /\ made' \in 0..MaxMade /\ 1..made' = 1..made \cup {made'}
    BY <1>2, <2>1, SMT
  <2> QED BY <1>0, <2>2, Made DEF Ours
<1>4. /\ there' = there \/ there' = [there EXCEPT ![c] = @ \cup {made'}]
      /\ applied' = applied \/ applied' = [applied EXCEPT ![c] = @ \cup {made'}]
      /\ recorded' = recorded \/ recorded' = [recorded EXCEPT ![c] = @ \cup {made'}]
      /\ unanswered' = unanswered \/ unanswered' = [unanswered EXCEPT ![c] = @ \cup {made'}]
      /\ applied' = [applied EXCEPT ![c] = @ \cup {made'}] \/ unanswered' = [unanswered EXCEPT ![c] = @ \cup {made'}]
      /\ Mishap \/ UNCHANGED mishaps
  BY DEF PassMakes
<1> HIDE DEF c
<1>5. RemovalsTypeOK'
  BY <1>0, <1>1, <1>2, <1>3, <1>4, Bounds DEF RemovalsTypeOK
<1>6. /\ \A d \in Consoles : there'[d] \subseteq there[d] \cup {made'} /\ Claims(d) \subseteq Claims(d)'
                             /\ Claims(d)' \subseteq Claims(d) \cup {made'}
                             /\ IF d = home THEN made' \in Claims(d)' ELSE there'[d] = there[d]
  BY <1>0, <1>1, <1>2, <1>4 DEF RemovalsTypeOK, Claims
<1>7. Numbered'
  BY <1>3, <1>6 DEF RemovalInv, Numbered
<1>8. Placed'
  BY <1>2 DEF RemovalInv, Placed, At, Held
<1>9. RemovalSpares'
  <2> SUFFICES ASSUME task["removal"].step \in {"confirm", "remove", "done", "kept"},
                      NEW p \in task["removal"].left \cup task["removal"].now
               PROVE  p \in Foreign \cup 1..made' /\ \A d \in task["removal"].from : p \notin Claims(d)'
    BY <1>2 DEF RemovalInv, RemovalSpares
  <2>1. p \in Foreign \cup 1..made /\ \A d \in task["removal"].from : p \notin Claims(d)
    BY DEF RemovalInv, RemovalSpares
  <2>2. task["removal"].from \subseteq Consoles
    BY <1>0 DEF RemovalsTypeOK, Tasks
  <2> QED BY <1>3, <1>6, <2>1, <2>2
<1>10. SaveProgress'
  BY <1>0, <1>2 DEF SaveProgress, Held
<1>11. OnTheRecord'
  <2> SUFFICES ASSUME NEW d \in Consoles, NEW p \in there'[d] \cap Ours
               PROVE  p \in Claims(d)' \cup abandoned \cup strayed
    BY <1>2 DEF OnTheRecord, Claims
  <2>1. CASE p \in there[d]
    BY <1>6, <2>1 DEF RemovalInv, OnTheRecord, Claims
  <2>2. CASE p \notin there[d]
    <3>1. p = made' /\ d = home
      BY <1>6, <2>2
    <3> QED BY <1>6, <3>1
  <2> QED BY <2>1, <2>2
<1>12. NothingLeftBehind'
  BY <1>2, <1>6 DEF RemovalInv, NothingLeftBehind
<1> QED BY <1>5, <1>7, <1>8, <1>9, <1>10, <1>11, <1>12 DEF RemovalInv

\* What a pass settles is there and applied, or not there; what it unmakes
\* is gone.
LEMMA PassWorksKeeps == ASSUME RemovalInv, PassSettles \/ PassUnmakes PROVE RemovalInv'
<1> DEFINE c == Where("pass")
<1>0. RemovalsTypeOK /\ {"pass", "save", "removal"} \subseteq Holders /\ At("pass", "pass")
  BY DEF RemovalInv, Holders, PassSettles, PassUnmakes
<1>1. c \in Consoles /\ task["pass"].from = {c}
  BY <1>0, WhereIs DEF RemovalInv, At
<1>2. UNCHANGED <<home, confirmed, holder, task, abandoned, strayed, removalBounds>>
  BY DEF PassSettles, PassUnmakes
<1>3. /\ there' \in [Consoles -> SUBSET Policies]
      /\ recorded' \in [Consoles -> SUBSET Ours] /\ applied' \in [Consoles -> SUBSET Ours]
      /\ unanswered' \in [Consoles -> SUBSET Ours]
      /\ \A d \in Consoles : there'[d] \subseteq there[d] /\ Claims(d)' \subseteq Claims(d)
                             /\ there'[d] \cap Claims(d) \subseteq Claims(d)'
                             /\ recorded'[d] \subseteq recorded[d] /\ unanswered'[d] \subseteq unanswered[d]
                             /\ applied'[d] \subseteq applied[d] \cup unanswered[d]
  <2>1. CASE PassSettles
    <3>1. PICK failed \in SUBSET (unanswered[c] \ there[c]) :
            /\ applied' = [applied EXCEPT ![c] = @ \cup (unanswered[c] \cap there[c])]
            /\ unanswered' = [unanswered EXCEPT ![c] = @ \ (there[c] \cup failed)]
      BY <2>1 DEF PassSettles, Settles
    <3>2. UNCHANGED <<there, recorded>>
      BY <2>1 DEF PassSettles
    <3> HIDE DEF c
    <3> QED BY <1>0, <1>1, <3>1, <3>2 DEF RemovalsTypeOK, Claims
  <2>2. CASE PassUnmakes
    <3>1. PICK p : /\ there' = [there EXCEPT ![c] = @ \ {p}]
                   /\ recorded' = [recorded EXCEPT ![c] = @ \ {p}] /\ applied' = [applied EXCEPT ![c] = @ \ {p}]
      BY <2>2 DEF PassUnmakes
    <3>2. UNCHANGED unanswered
      BY <2>2 DEF PassUnmakes
    <3> HIDE DEF c
    <3> QED BY <1>0, <1>1, <3>1, <3>2 DEF RemovalsTypeOK, Claims
  <2> QED BY <2>1, <2>2
<1>4. RemovalsTypeOK'
  BY <1>0, <1>2, <1>3 DEF RemovalsTypeOK, removalBounds
<1>5. home \in Consoles /\ made' = made
  BY <1>0, <1>2 DEF RemovalsTypeOK, removalBounds
<1>6. Numbered' /\ OnTheRecord' /\ NothingLeftBehind'
  BY <1>2, <1>3, <1>5, ClaimsShrink
<1>7. Placed'
  BY <1>2 DEF RemovalInv, Placed, At, Held
<1>8. RemovalSpares'
  BY <1>2, <1>3, <1>5, SparesStays
<1>9. SaveProgress'
  BY <1>2, <1>3, <1>5, SaveStays
<1> QED BY <1>4, <1>6, <1>7, <1>8, <1>9 DEF RemovalInv

----------------------------------------------------------------------------
(* Steps of tasks alone                                                    *)

Rows == <<home, there, recorded, applied, unanswered, abandoned, strayed, made>>

\* A step that touches no policy and no row keeps what is said of them.
LEMMA RowsStay ==
  ASSUME RemovalInv, UNCHANGED Rows
  PROVE  Numbered' /\ OnTheRecord' /\ NothingLeftBehind'
BY DEF Rows, RemovalInv, Numbered, OnTheRecord, NothingLeftBehind, Claims

\* Whoever ends, ends; what was to be done is left.
LEMMA EndsKeep ==
  ASSUME RemovalInv, NEW h \in Holders, Ends(h), UNCHANGED <<Rows, confirmed>>,
         mishaps' \in 0..MaxMishaps, targets' \in 0..MaxTargets
  PROVE  RemovalInv'
<1>0. RemovalsTypeOK /\ {"pass", "save", "removal"} \subseteq Holders
  BY DEF RemovalInv, Holders
<1>1. /\ task' \in [Holders -> Tasks] /\ task'[h] = NoTask
      /\ \A g \in Holders : g # h => task'[g] = task[g]
      /\ holder' \in Holders \cup {"nobody"} /\ holder' # h
      /\ \A g \in Holders : g # h => (holder' = g <=> holder = g)
  BY <1>0, EndsTask
<1>2. RemovalsTypeOK'
  BY <1>0, <1>1 DEF RemovalsTypeOK, Rows
<1>3. Placed'
  BY <1>1, NoTaskIs, PlacedStays DEF Rows
<1>4. RemovalSpares'
  <2>1. \A c \in Consoles : Claims(c)' \subseteq Claims(c)
    BY DEF Claims, Rows
  <2> QED BY <1>0, <1>1, <2>1, NoTaskIs, SparesStays DEF Rows
<1>5. SaveProgress'
  <2>1. CASE h = "save"
    BY <1>1, <2>1 DEF SaveProgress, Held
  <2>2. CASE h # "save"
    BY <1>0, <1>1, <2>2 DEF RemovalInv, SaveProgress, Held, At, Rows
  <2> QED BY <2>1, <2>2
<1> QED BY <1>2, <1>3, <1>4, <1>5, RowsStay DEF RemovalInv, Rows

\* All the ways to end, and a lease that runs out.
LEMMA EndingsKeep ==
  ASSUME RemovalInv,
         \/ PassEnds \/ RemovalEnds \/ Lapses
         \/ \E h \in Holders : StopsUnheld(h) \/ Dies(h)
  PROVE  RemovalInv'
<1>0. RemovalsTypeOK /\ (Mishap => mishaps' \in 0..MaxMishaps) /\ mishaps \in 0..MaxMishaps
      /\ targets \in 0..MaxTargets /\ {"pass", "save", "removal"} \subseteq Holders
  BY Bounds DEF RemovalInv, RemovalsTypeOK, Holders
<1>1. CASE PassEnds
  BY <1>0, <1>1, EndsKeep DEF PassEnds, Rows, removalRows, removalBounds
<1>2. CASE RemovalEnds
  <2>1. mishaps' \in 0..MaxMishaps
    BY <1>0, <1>2 DEF RemovalEnds, At
  <2> QED BY <1>0, <1>2, <2>1, EndsKeep DEF RemovalEnds, Rows, removalRows
<1>3. CASE Lapses
  <2>1. /\ holder' = "nobody" /\ "nobody" \notin Holders /\ mishaps' \in 0..MaxMishaps
        /\ UNCHANGED <<home, there, removalRows, task, abandoned, strayed, made, targets>>
    BY <1>0, <1>3 DEF Lapses, Holders
  <2>2. RemovalsTypeOK'
    BY <1>0, <2>1 DEF RemovalsTypeOK, removalRows
  <2>3. Placed' /\ SaveProgress'
    BY <1>0, <2>1 DEF RemovalInv, Placed, SaveProgress, At, Held
  <2>4. RemovalSpares'
    BY <2>1 DEF RemovalInv, RemovalSpares, Claims, removalRows
  <2> QED BY <2>1, <2>2, <2>3, <2>4, RowsStay DEF RemovalInv, Rows, removalRows
<1>4. ASSUME NEW h \in Holders, StopsUnheld(h) PROVE RemovalInv'
  BY <1>0, <1>4, EndsKeep DEF StopsUnheld, Rows, removalRows, removalBounds
<1>5. ASSUME NEW h \in Holders, Dies(h) PROVE RemovalInv'
  BY <1>0, <1>5, EndsKeep DEF Dies, Rows, removalRows
<1> QED BY <1>1, <1>2, <1>3, <1>4, <1>5

----------------------------------------------------------------------------
(* A save                                                                  *)

\* A save that takes its next step with the policies and the rows as they
\* are keeps the invariant, if its step is one it has got to.
LEMMA SaveAdvances ==
  ASSUME RemovalInv, ~At("save", "none"), NEW step \in Steps \ {"none"}, NEW left \in SUBSET Policies,
         Becomes("save", step, left, task["save"].now),
         UNCHANGED <<Rows, confirmed, holder, targets>>, mishaps' \in 0..MaxMishaps,
         SaveProgress'
  PROVE  RemovalInv'
<1>0. RemovalsTypeOK /\ {"pass", "save", "removal"} \subseteq Holders /\ task["save"].now \in SUBSET Policies
  BY DEF RemovalInv, Holders, RemovalsTypeOK, Tasks
<1>1. /\ task' \in [Holders -> Tasks] /\ task'["save"].step = step
      /\ task'["save"].from = task["save"].from
      /\ \A g \in Holders : g # "save" => task'[g] = task[g]
  BY <1>0, BecomesTask
<1>2. RemovalsTypeOK'
  BY <1>0, <1>1 DEF RemovalsTypeOK, Rows
<1>3. Placed'
  BY <1>0, <1>1, PlacedStays DEF Rows
<1>4. RemovalSpares'
  BY <1>0, <1>1 DEF RemovalInv, RemovalSpares, Claims, Rows
<1> QED BY <1>2, <1>3, <1>4, RowsStay DEF RemovalInv, Rows

\* A save begins on the household's console, with all to do.
LEMMA SaveBeginsKeeps == ASSUME RemovalInv, SaveBegins PROVE RemovalInv'
<1>0. RemovalsTypeOK /\ {"pass", "save", "removal"} \subseteq Holders /\ targets' \in 0..MaxTargets
  BY Bounds DEF RemovalInv, Holders, SaveBegins
<1>1. PICK c \in Consoles, forget \in BOOLEAN :
        Takes("save", [NoTask EXCEPT !.step = IF c = home THEN "move" ELSE "settle", !.to = {c}, !.forget = forget])
  BY DEF SaveBegins
<1> DEFINE t == [NoTask EXCEPT !.step = IF c = home THEN "move" ELSE "settle", !.to = {c}, !.forget = forget]
<1>2. t \in Tasks /\ t.to = {c} /\ t.step = IF c = home THEN "move" ELSE "settle"
  BY NoTaskIs DEF Tasks
<1> HIDE DEF t
<1>3. /\ task' \in [Holders -> Tasks] /\ task'["save"].from = {home} /\ task'["save"].to = {c}
      /\ task'["save"].step = IF c = home THEN "move" ELSE "settle"
      /\ \A g \in Holders : g # "save" => task'[g] = task[g]
      /\ holder = "nobody" /\ holder' = "save"
  BY <1>0, <1>1, <1>2, TakesTask DEF t
<1>4. UNCHANGED <<Rows, confirmed, mishaps>>
  BY DEF SaveBegins, Rows, removalRows
<1>5. RemovalsTypeOK'
  BY <1>0, <1>3, <1>4 DEF RemovalsTypeOK, Rows
<1>6. Placed'
  BY <1>0, <1>3, <1>4 DEF RemovalInv, Placed, At, Held, Rows, RemovalsTypeOK
<1>7. RemovalSpares'
  BY <1>0, <1>3, <1>4 DEF RemovalInv, RemovalSpares, Claims, Rows
<1>8. SaveProgress'
  BY <1>3, <1>4 DEF SaveProgress, At, Rows
<1> QED BY <1>4, <1>5, <1>6, <1>7, <1>8, RowsStay DEF RemovalInv

\* It looks, collects and finds all deleted.
LEMMA SaveLooksKeep == ASSUME RemovalInv, SaveLooks \/ SaveCollects \/ SaveDeleted PROVE RemovalInv'
<1> DEFINE c == Where("save")
<1>0. RemovalsTypeOK /\ "save" \in Holders /\ ~At("save", "none") /\ mishaps \in 0..MaxMishaps
      /\ task["save"].left \subseteq Policies /\ task["save"].now \subseteq Policies
      /\ task["save"] \in Tasks /\ task \in [Holders -> Tasks]
  BY DEF RemovalInv, Holders, SaveLooks, SaveCollects, SaveDeleted, At, RemovalsTypeOK, Tasks
<1>1. c \in Consoles /\ (Held("save") => c = home)
  BY <1>0, WhereIs DEF RemovalInv, Placed
<1>2. there[c] \subseteq Policies /\ recorded[c] \cup applied[c] \subseteq Policies
  BY <1>0, <1>1, Made DEF RemovalsTypeOK
<1>3. UNCHANGED <<Rows, confirmed, holder, targets, mishaps>>
  BY DEF SaveLooks, SaveCollects, SaveDeleted, Rows, removalRows, removalBounds
<1>4. CASE SaveLooks
  <2> DEFINE step == IF unanswered[c] = {} THEN "collect" ELSE "match"
             left == IF unanswered[c] = {} THEN {} ELSE there[c]
  <2>1. step \in Steps \ {"none"} /\ left \in SUBSET Policies
    BY <1>2 DEF Steps
  <2>2. task' = [task EXCEPT !["save"].step = step, !["save"].left = left]
    BY <1>4 DEF SaveLooks
  <2> HIDE DEF step, left
  <2>3. Becomes("save", step, left, task["save"].now)
    BY <1>0, <2>2 DEF Becomes, Tasks
  <2>4. task'["save"].step = step
    BY <1>0, <2>1, <2>3, BecomesTask
  <2>5. SaveProgress'
    BY <1>1, <1>3, <2>4 DEF SaveProgress, At, Held, Rows, step
  <2> QED BY <1>0, <1>3, <2>1, <2>3, <2>5, SaveAdvances
<1>5. CASE SaveCollects
  <2> DEFINE left == recorded[c] \cup applied[c]
  <2>1. "delete" \in Steps \ {"none"} /\ left \in SUBSET Policies
    BY <1>2 DEF Steps
  <2>2. task' = [task EXCEPT !["save"].step = "delete", !["save"].left = left]
    BY <1>5 DEF SaveCollects
  <2> HIDE DEF left
  <2>3. Becomes("save", "delete", left, task["save"].now)
    BY <1>0, <2>2 DEF Becomes, Tasks
  <2>4. task'["save"].step = "delete" /\ task'["save"].left = left
    BY <1>0, <2>1, <2>3, BecomesTask
  <2>5. SaveProgress'
    BY <1>1, <1>3, <1>5, <2>4 DEF RemovalInv, SaveProgress, SaveCollects, At, Held, Rows, left
  <2> QED BY <1>0, <1>3, <2>1, <2>3, <2>5, SaveAdvances
<1>6. CASE SaveDeleted
  <2>1. "forget" \in Steps \ {"none"} /\ Becomes("save", "forget", task["save"].left, task["save"].now)
    BY <1>0, <1>6, GoesBecomes DEF Steps, SaveDeleted
  <2>2. task'["save"].step = "forget"
    BY <1>0, <2>1, BecomesTask
  <2>3. SaveProgress'
    BY <1>3, <1>6, <2>2 DEF RemovalInv, SaveProgress, SaveDeleted, At, Held, Rows
  <2> QED BY <1>0, <1>3, <2>1, <2>3, SaveAdvances
<1> QED BY <1>4, <1>5, <1>6

\* What it settles is there and applied, or strayed, or not there.
LEMMA SaveSettlesKeeps == ASSUME RemovalInv, SaveSettles PROVE RemovalInv'
<1> DEFINE c == Where("save")
<1>0. /\ RemovalsTypeOK /\ {"pass", "save", "removal"} \subseteq Holders /\ ~At("save", "none")
      /\ task["save"].left \subseteq Policies /\ task["save"].now \subseteq Policies
  BY DEF RemovalInv, Holders, SaveSettles, At, RemovalsTypeOK, Tasks
<1>1. c \in Consoles /\ (Held("save") => c = home)
  BY <1>0, WhereIs DEF RemovalInv, Placed
<1>2. /\ applied' = [applied EXCEPT ![c] = @ \cup (unanswered[c] \cap task["save"].left)]
      /\ unanswered' = [unanswered EXCEPT ![c] = @ \ (task["save"].left \cup unanswered[c])]
      /\ strayed' = strayed \cup ((there[c] \cap unanswered[c]) \ task["save"].left)
      /\ UNCHANGED <<home, there, recorded, confirmed, holder, abandoned, removalBounds>>
  BY DEF SaveSettles, Settles
<1>3. Becomes("save", "collect", task["save"].left, task["save"].now) /\ "collect" \in Steps
  BY <1>0, GoesBecomes DEF SaveSettles, Steps
<1>4. /\ task' \in [Holders -> Tasks] /\ task'["save"].step = "collect"
      /\ task'["save"].from = task["save"].from
      /\ \A g \in Holders : g # "save" => task'[g] = task[g]
  BY <1>0, <1>3, BecomesTask
<1> HIDE DEF c
<1>5. /\ applied' \in [Consoles -> SUBSET Ours] /\ unanswered' \in [Consoles -> SUBSET Ours]
      /\ strayed' \subseteq Ours /\ strayed \subseteq strayed'
      /\ unanswered'[c] = {}
      /\ \A d \in Consoles : Claims(d)' \subseteq Claims(d)
                             /\ there'[d] \cap Claims(d) \cap Ours \subseteq Claims(d)' \cup strayed'
  BY <1>0, <1>1, <1>2 DEF RemovalsTypeOK, Claims
<1>6. RemovalsTypeOK'
  BY <1>0, <1>2, <1>4, <1>5 DEF RemovalsTypeOK, removalBounds
<1>7. Numbered' /\ OnTheRecord' /\ NothingLeftBehind'
  BY <1>2, <1>5, ClaimsShrink DEF removalBounds
<1>8. Placed'
  BY <1>0, <1>2, <1>4, PlacedStays
<1>9. RemovalSpares'
  <2>1. task'["removal"] = task["removal"] /\ made' = made
    BY <1>0, <1>2, <1>4 DEF removalBounds
  <2> QED BY <1>5, <2>1, SparesStays
<1>10. SaveProgress'
  BY <1>1, <1>2, <1>4, <1>5 DEF SaveProgress, At, Held
<1> QED BY <1>6, <1>7, <1>8, <1>9, <1>10 DEF RemovalInv

\* It deletes what it collected, or fails at it, though it may be gone.
LEMMA SaveDeletesKeep == ASSUME RemovalInv, SaveDeletes \/ SaveFails PROVE RemovalInv'
<1> DEFINE c == Where("save")
<1>0. /\ RemovalsTypeOK /\ {"pass", "save", "removal"} \subseteq Holders /\ ~At("save", "none")
      /\ task["save"].left \subseteq Policies /\ task["save"].now \subseteq Policies
      /\ task \in [Holders -> Tasks] /\ task["save"] \in Tasks
  BY DEF RemovalInv, Holders, SaveDeletes, SaveFails, At, RemovalsTypeOK, Tasks
<1>1. c \in Consoles /\ (Held("save") => c = home) /\ home \in Consoles
  BY <1>0, WhereIs DEF RemovalInv, Placed, RemovalsTypeOK
<1>2. /\ UNCHANGED <<home, recorded, applied, unanswered, confirmed, holder, abandoned, strayed, made, targets>>
      /\ mishaps' \in 0..MaxMishaps
  BY <1>0, Bounds DEF SaveDeletes, SaveFails, removalRows, removalBounds, RemovalsTypeOK
<1>3. there' \in [Consoles -> SUBSET Policies] /\ \A d \in Consoles : there'[d] \subseteq there[d]
  <2>1. there' = there \/ \E p : there' = [there EXCEPT ![c] = @ \ {p}]
    BY DEF SaveDeletes, SaveFails
  <2> HIDE DEF c
  <2> QED BY <1>0, <1>1, <2>1 DEF RemovalsTypeOK
<1>4. /\ task' \in [Holders -> Tasks] /\ task'["save"].step # "none"
      /\ task'["save"].from = task["save"].from
      /\ \A g \in Holders : g # "save" => task'[g] = task[g]
      /\ SaveProgress'
  <2>1. CASE SaveDeletes
    <3>1. PICK p \in task["save"].left :
            /\ there' = [there EXCEPT ![c] = @ \ {p}]
            /\ task' = [task EXCEPT !["save"].left = @ \ {p}]
      BY <2>1 DEF SaveDeletes
    <3>2. At("save", "delete")
      BY <2>1 DEF SaveDeletes
    <3>3. Becomes("save", "delete", task["save"].left \ {p}, task["save"].now)
      <4>1. [task["save"] EXCEPT !.left = task["save"].left \ {p}]
              = [task["save"] EXCEPT !.step = "delete", !.left = task["save"].left \ {p}, !.now = task["save"].now]
        BY <1>0, <3>2 DEF At, Tasks
      <4> QED BY <1>0, <3>1, <4>1 DEF Becomes
    <3>4. /\ task' \in [Holders -> Tasks] /\ task'["save"].step = "delete"
          /\ task'["save"].left = task["save"].left \ {p}
          /\ task'["save"].from = task["save"].from
          /\ \A g \in Holders : g # "save" => task'[g] = task[g]
      <4>1. "save" \in Holders /\ "delete" \in Steps /\ task["save"].left \ {p} \in SUBSET Policies
        BY <1>0 DEF Steps
      <4> QED BY <1>0, <3>3, <4>1, BecomesTask
    <3> HIDE DEF c
    <3>5. there'[c] = there[c] \ {p}
      BY <1>0, <1>1, <3>1 DEF RemovalsTypeOK
    <3>6. SaveProgress'
      BY <1>1, <1>2, <3>2, <3>4, <3>5 DEF RemovalInv, SaveProgress, At, Held
    <3> QED BY <3>4, <3>6
  <2>2. CASE SaveFails
    <3>1. Becomes("save", "failed", task["save"].left, task["save"].now) /\ "failed" \in Steps
      BY <1>0, <2>2, GoesBecomes DEF SaveFails, Steps
    <3>2. /\ task' \in [Holders -> Tasks] /\ task'["save"].step = "failed"
          /\ task'["save"].from = task["save"].from
          /\ \A g \in Holders : g # "save" => task'[g] = task[g]
      BY <1>0, <3>1, BecomesTask
    <3> QED BY <3>2 DEF SaveProgress, At
  <2> QED BY <2>1, <2>2
<1> HIDE DEF c
<1>5. RemovalsTypeOK'
  BY <1>0, <1>2, <1>3, <1>4 DEF RemovalsTypeOK
<1>6. Numbered' /\ OnTheRecord' /\ NothingLeftBehind'
  <2>1. \A d \in Consoles : Claims(d)' = Claims(d)
    BY <1>2 DEF Claims
  <2> QED BY <1>2, <1>3, <2>1, ClaimsShrink
<1>7. Placed'
  BY <1>0, <1>2, <1>4, PlacedStays
<1>8. RemovalSpares'
  BY <1>0, <1>2, <1>4 DEF RemovalInv, RemovalSpares, Claims
<1> QED BY <1>4, <1>5, <1>6, <1>7, <1>8 DEF RemovalInv

\* It forgets its console when nothing is there, or when the operator says
\* so; then what is there was abandoned.
LEMMA SaveForgetsKeep ==
  ASSUME RemovalInv, SaveForgets \/ (SaveGivesUp /\ task["save"].forget)
  PROVE  RemovalInv'
<1> DEFINE c == Where("save")
<1>0. /\ RemovalsTypeOK /\ {"pass", "save", "removal"} \subseteq Holders /\ ~At("save", "none") /\ Held("save")
      /\ task["save"].left \subseteq Policies /\ task["save"].now \subseteq Policies
  BY DEF RemovalInv, Holders, SaveForgets, SaveGivesUp, At, RemovalsTypeOK, Tasks
<1>1. c \in Consoles /\ c = home
  BY <1>0, WhereIs DEF RemovalInv, Placed
<1>2. /\ recorded' = [recorded EXCEPT ![c] = {}] /\ applied' = [applied EXCEPT ![c] = {}]
      /\ unanswered' = [unanswered EXCEPT ![c] = {}]
      /\ UNCHANGED <<home, there, confirmed, holder, strayed, removalBounds>>
      /\ (abandoned' = abandoned \cup (there[c] \cap Ours) \/ (At("save", "forget") /\ UNCHANGED abandoned))
  <2>1. CASE SaveForgets
    BY <2>1 DEF SaveForgets, Forgets
  <2>2. CASE SaveGivesUp /\ task["save"].forget
    <3>1. Forgets(Where("save")) /\ abandoned' = abandoned \cup (there[Where("save")] \cap Ours) /\ UNCHANGED holder
      BY <2>2 DEF SaveGivesUp
    <3>2. UNCHANGED <<home, there, confirmed, strayed, removalBounds>>
      BY <2>2 DEF SaveGivesUp
    <3>3. recorded' = [recorded EXCEPT ![c] = {}] /\ applied' = [applied EXCEPT ![c] = {}]
          /\ unanswered' = [unanswered EXCEPT ![c] = {}]
      BY <3>1 DEF Forgets
    <3>4. abandoned' = abandoned \cup (there[c] \cap Ours) /\ UNCHANGED holder
      BY <3>1
    <3> HIDE DEF c
    <3> QED BY <3>2, <3>3, <3>4
  <2> QED BY <2>1, <2>2
<1>3. Becomes("save", "move", task["save"].left, task["save"].now) /\ "move" \in Steps
  BY <1>0, GoesBecomes DEF SaveForgets, SaveGivesUp, Steps
<1>4. /\ task' \in [Holders -> Tasks] /\ task'["save"].step = "move"
      /\ task'["save"].from = task["save"].from
      /\ \A g \in Holders : g # "save" => task'[g] = task[g]
  BY <1>0, <1>3, BecomesTask
<1> HIDE DEF c
<1>5. /\ recorded' \in [Consoles -> SUBSET Ours] /\ applied' \in [Consoles -> SUBSET Ours]
      /\ unanswered' \in [Consoles -> SUBSET Ours]
      /\ abandoned' \subseteq Ours /\ abandoned \subseteq abandoned'
      /\ \A d \in Consoles : Claims(d)' \subseteq Claims(d) /\ (d # home => Claims(d)' = Claims(d))
  BY <1>0, <1>1, <1>2 DEF RemovalsTypeOK, Claims
<1>6. there[home] \cap Ours \subseteq abandoned' \cup strayed
  <2>1. CASE At("save", "forget")
    BY <1>0, <1>1, <1>5, <2>1 DEF RemovalInv, SaveProgress, OnTheRecord, At
  <2>2. CASE ~At("save", "forget")
    BY <1>1, <1>2, <2>2
  <2> QED BY <2>1, <2>2
<1>7. RemovalsTypeOK'
  BY <1>0, <1>2, <1>4, <1>5 DEF RemovalsTypeOK, removalBounds
<1>8. Numbered' /\ OnTheRecord' /\ NothingLeftBehind'
  <2>1. \A d \in Consoles : there'[d] \cap Claims(d) \cap Ours \subseteq Claims(d)' \cup abandoned' \cup strayed'
    BY <1>2, <1>5, <1>6
  <2> QED BY <1>2, <1>5, <2>1, ClaimsShrink DEF removalBounds
<1>9. Placed'
  BY <1>0, <1>2, <1>4, PlacedStays
<1>10. RemovalSpares'
  <2>1. task'["removal"] = task["removal"] /\ made' = made
    BY <1>0, <1>2, <1>4 DEF removalBounds
  <2> QED BY <1>5, <2>1, SparesStays
<1>11. SaveProgress'
  BY <1>2, <1>4, <1>6 DEF SaveProgress, At, Held
<1> QED BY <1>7, <1>8, <1>9, <1>10, <1>11 DEF RemovalInv

\* Or gives up, and forgets nothing.
LEMMA SaveStopsKeeps == ASSUME RemovalInv, SaveGivesUp, ~task["save"].forget PROVE RemovalInv'
<1>1. /\ "save" \in Holders /\ Ends("save") /\ UNCHANGED <<Rows, confirmed, mishaps, targets>>
  BY DEF SaveGivesUp, Rows, removalBounds, Holders
<1>2. mishaps' \in 0..MaxMishaps /\ targets' \in 0..MaxTargets
  BY <1>1 DEF RemovalInv, RemovalsTypeOK
<1> QED BY <1>1, <1>2, EndsKeep

\* It moves the household to the console it was saved with, and leaves
\* nothing on the one it was on.
LEMMA SaveMovesKeeps == ASSUME RemovalInv, SaveMoves PROVE RemovalInv'
<1>0. RemovalsTypeOK /\ {"pass", "save", "removal"} \subseteq Holders /\ "nobody" \notin Holders
  BY DEF RemovalInv, Holders
<1>1. /\ Held("save") /\ At("save", "move") /\ home' \in task["save"].to /\ Ends("save")
      /\ UNCHANGED <<there, removalRows, abandoned, strayed, removalBounds>>
  BY DEF SaveMoves
<1>2. /\ task' \in [Holders -> Tasks] /\ task'["save"] = NoTask
      /\ \A g \in Holders : g # "save" => task'[g] = task[g]
      /\ holder' = "nobody"
  BY <1>0, <1>1, EndsTask DEF Ends, Held
<1>3. home' \in Consoles
  BY <1>0, <1>1 DEF RemovalsTypeOK, Tasks
<1>4. RemovalsTypeOK'
  BY <1>0, <1>1, <1>2, <1>3 DEF RemovalsTypeOK, removalRows, removalBounds
<1>5. Placed'
  BY <1>0, <1>2, NoTaskIs DEF RemovalInv, Placed, At, Held
<1>6. Numbered' /\ OnTheRecord'
  BY <1>1 DEF RemovalInv, Numbered, OnTheRecord, Claims, removalRows, removalBounds
<1>7. RemovalSpares'
  BY <1>0, <1>1, <1>2 DEF RemovalInv, RemovalSpares, Claims, removalRows, removalBounds
<1>8. SaveProgress'
  BY <1>0, <1>2 DEF SaveProgress, Held
<1>9. NothingLeftBehind'
  <2> SUFFICES ASSUME NEW c \in Consoles, c # home'
               PROVE  there[c] \cap Ours \subseteq abandoned \cup strayed
    BY <1>1 DEF NothingLeftBehind
  <2>1. CASE c # home
    BY <2>1 DEF RemovalInv, NothingLeftBehind
  <2>2. CASE c = home
    BY <1>1, <2>2 DEF RemovalInv, SaveProgress
  <2> QED BY <2>1, <2>2
<1> QED BY <1>4, <1>5, <1>6, <1>7, <1>8, <1>9 DEF RemovalInv

----------------------------------------------------------------------------
(* A removal                                                               *)

\* A removal that takes its next step, with the policies and the rows as they
\* are, and has no more to do than it had, keeps the invariant.
LEMMA RemovalAdvances ==
  ASSUME RemovalInv, task["removal"].step \in {"confirm", "remove", "done", "kept"},
         NEW step \in Steps \ {"none", "list"}, NEW left, NEW now,
         left \cup now \subseteq task["removal"].left \cup task["removal"].now,
         Becomes("removal", step, left, now),
         UNCHANGED <<home, recorded, applied, unanswered, holder, abandoned, strayed, made, targets>>,
         there' \in [Consoles -> SUBSET Policies], \A c \in Consoles : there'[c] \subseteq there[c],
         confirmed' \subseteq Policies, mishaps' \in 0..MaxMishaps
  PROVE  RemovalInv'
<1>0. RemovalsTypeOK /\ {"pass", "save", "removal"} \subseteq Holders
      /\ task["removal"].left \cup task["removal"].now \subseteq Policies
  BY DEF RemovalInv, Holders, RemovalsTypeOK, Tasks
<1>1. /\ task' \in [Holders -> Tasks] /\ task'["removal"].step = step
      /\ task'["removal"].left = left /\ task'["removal"].now = now
      /\ task'["removal"].from = task["removal"].from
      /\ \A g \in Holders : g # "removal" => task'[g] = task[g]
  <2>1. left \in SUBSET Policies /\ now \in SUBSET Policies
    BY <1>0
  <2> QED BY <1>0, <2>1, BecomesTask
<1>2. RemovalsTypeOK'
  BY <1>0, <1>1 DEF RemovalsTypeOK
<1>3. \A c \in Consoles : Claims(c)' = Claims(c)
  BY DEF Claims
<1>4. Numbered' /\ OnTheRecord' /\ NothingLeftBehind'
  BY <1>3, ClaimsShrink
<1>5. Placed'
  <2>1. ~At("removal", "none")
    BY DEF At
  <2> QED BY <1>0, <1>1, <2>1, PlacedStays
<1>6. RemovalSpares'
  BY <1>1, <1>3, SparesStays
<1>7. home \in Consoles
  BY <1>0 DEF RemovalsTypeOK
<1>8. SaveProgress'
  BY <1>0, <1>1, <1>7, SaveStays
<1> QED BY <1>2, <1>4, <1>5, <1>6, <1>8 DEF RemovalInv

\* A removal begins with what was ticked.
LEMMA RemovalBeginsKeeps == ASSUME RemovalInv, RemovalBegins PROVE RemovalInv'
<1>0. RemovalsTypeOK /\ {"pass", "save", "removal"} \subseteq Holders /\ targets' \in 0..MaxTargets
  BY Bounds DEF RemovalInv, Holders, RemovalBegins
<1>1. PICK ticked \in SUBSET (there[home] \cap Prefixed) :
        Takes("removal", [NoTask EXCEPT !.step = "list", !.left = ticked])
  BY DEF RemovalBegins
<1> DEFINE t == [NoTask EXCEPT !.step = "list", !.left = ticked]
<1>2. ticked \subseteq Policies
  BY <1>0 DEF RemovalsTypeOK
<1>3. t \in Tasks /\ t.step = "list" /\ t.now = {}
  BY <1>2, NoTaskIs DEF Tasks
<1> HIDE DEF t
<1>4. /\ task' \in [Holders -> Tasks] /\ task'["removal"].from = {home} /\ task'["removal"].step = "list"
      /\ task'["removal"].now = {}
      /\ \A g \in Holders : g # "removal" => task'[g] = task[g]
      /\ holder = "nobody" /\ holder' = "removal"
  BY <1>0, <1>1, <1>3, TakesTask DEF t
<1>5. UNCHANGED <<Rows, mishaps>> /\ confirmed' = {}
  BY DEF RemovalBegins, Rows
<1>6. RemovalsTypeOK'
  BY <1>0, <1>4, <1>5 DEF RemovalsTypeOK, Rows
<1>7. Placed'
  BY <1>0, <1>4, <1>5 DEF RemovalInv, Placed, At, Held, Rows, RemovalsTypeOK
<1>8. RemovalSpares' /\ SaveProgress'
  BY <1>4 DEF RemovalSpares, SaveProgress, Held
<1> QED BY <1>5, <1>6, <1>7, <1>8, RowsStay DEF RemovalInv

\* It goes on with what is a leftover, and so claimed by no one.
LEMMA RemovalListsKeeps == ASSUME RemovalInv, RemovalLists PROVE RemovalInv'
<1> DEFINE c == Where("removal")
           left == task["removal"].left \cap Leftovers(c)
<1>0. /\ RemovalsTypeOK /\ {"pass", "save", "removal"} \subseteq Holders /\ ~At("removal", "none")
      /\ At("removal", "list")
      /\ task \in [Holders -> Tasks] /\ task["removal"] \in Tasks
      /\ task["removal"].left \subseteq Policies /\ task["removal"].now \subseteq Policies
  BY DEF RemovalInv, Holders, RemovalLists, At, RemovalsTypeOK, Tasks
<1>1. c \in Consoles /\ task["removal"].from = {c}
  BY <1>0, WhereIs DEF RemovalInv
<1>2. task' = [task EXCEPT !["removal"].step = "confirm", !["removal"].left = left]
      /\ UNCHANGED <<Rows, confirmed, holder, targets, mishaps>>
  <2>1. task' = [task EXCEPT !["removal"].step = "confirm", !["removal"].left = @ \cap Leftovers(Where("removal"))]
    BY DEF RemovalLists
  <2> QED BY <1>0, <2>1 DEF RemovalLists, Rows, removalRows, removalBounds
<1>3. /\ task' \in [Holders -> Tasks] /\ task'["removal"].step = "confirm" /\ task'["removal"].left = left
      /\ task'["removal"].now = task["removal"].now /\ task'["removal"].from = {c}
      /\ \A g \in Holders : g # "removal" => task'[g] = task[g]
  <2> DEFINE new == [task["removal"] EXCEPT !.step = "confirm", !.left = left]
  <2>1. left \subseteq Policies
    BY <1>0
  <2>2. task' = [task EXCEPT !["removal"] = new]
    BY <1>0, <1>2
  <2> HIDE DEF left, c
  <2>3. new \in Tasks /\ new.step = "confirm" /\ new.left = left /\ new.now = task["removal"].now /\ new.from = {c}
    BY <1>0, <1>1, <2>1 DEF Tasks
  <2> HIDE DEF new, Tasks
  <2> QED BY <1>0, <2>2, <2>3
<1>4. \A p \in left : p \in Foreign \cup 1..made /\ p \notin Claims(c)
  BY <1>1 DEF RemovalInv, Numbered, Leftovers, Claims
<1> HIDE DEF left, c
<1>5. RemovalsTypeOK'
  BY <1>0, <1>2, <1>3 DEF RemovalsTypeOK, Rows
<1>6. Placed'
  BY <1>0, <1>1, <1>2, <1>3, PlacedStays DEF Rows
<1>7. task["removal"].now = {}
  BY <1>0 DEF RemovalInv, RemovalSpares, At
<1>8. RemovalSpares'
  BY <1>2, <1>3, <1>4, <1>7 DEF RemovalSpares, Claims, Rows
<1>9. SaveProgress'
  BY <1>0, <1>2, <1>3 DEF RemovalInv, SaveProgress, At, Held, Rows
<1> QED BY <1>2, <1>5, <1>6, <1>8, <1>9, RowsStay DEF RemovalInv

\* A removal confirms, deletes and settles what it has left, one after
\* another, and no more.
LEMMA RemovalWorksKeeps ==
  ASSUME RemovalInv, RemovalConfirms \/ RemovalDeletes \/ RemovalSettles
  PROVE  RemovalInv'
<1> DEFINE c == Where("removal")
           t == task["removal"]
<1>0. /\ RemovalsTypeOK /\ {"pass", "save", "removal"} \subseteq Holders /\ ~At("removal", "none")
      /\ t.step \in {"confirm", "remove", "done", "kept"}
      /\ task \in [Holders -> Tasks] /\ t \in Tasks /\ t.left \subseteq Policies /\ t.now \subseteq Policies
      /\ confirmed \subseteq Policies /\ mishaps \in 0..MaxMishaps /\ (Mishap => mishaps' \in 0..MaxMishaps)
  BY Bounds DEF RemovalInv, Holders, RemovalConfirms, RemovalDeletes, RemovalSettles, At, RemovalsTypeOK, Tasks
<1>1. c \in Consoles
  BY <1>0, WhereIs DEF RemovalInv
<1>2. {"confirm", "remove", "done", "kept"} \subseteq Steps \ {"none", "list"}
  BY DEF Steps
<1>same. there \in [Consoles -> SUBSET Policies]
  BY <1>0 DEF RemovalsTypeOK
<1> HIDE DEF c
<1>3. CASE RemovalConfirms
  <2>1. PICK p \in t.left :
          /\ confirmed' = confirmed \cup {p}
          /\ task' = [task EXCEPT !["removal"].step = "remove", !["removal"].now = {p}, !["removal"].left = @ \ {p}]
    BY <1>3 DEF RemovalConfirms
  <2>2. Becomes("removal", "remove", t.left \ {p}, {p})
    <3>1. [[[t EXCEPT !.step = "remove"] EXCEPT !.now = {p}] EXCEPT !.left = t.left \ {p}]
            = [t EXCEPT !.step = "remove", !.left = t.left \ {p}, !.now = {p}]
      BY <1>0 DEF Tasks
    <3> QED BY <1>0, <2>1, <3>1 DEF Becomes
  <2>3. (t.left \ {p}) \cup {p} \subseteq t.left \cup t.now /\ confirmed' \subseteq Policies
    BY <1>0, <2>1
  <2>4. UNCHANGED <<home, there, recorded, applied, unanswered, holder, abandoned, strayed, made, targets, mishaps>>
    BY <1>3 DEF RemovalConfirms, removalBounds
  <2> HIDE DEF t
  <2> QED BY <1>0, <1>2, <1>same, <2>2, <2>3, <2>4, RemovalAdvances DEF t
<1>4. CASE RemovalDeletes
  <2>1. PICK step \in {"done", "kept"} : Goes("removal", step)
    BY <1>4 DEF RemovalDeletes
  <2>2. Becomes("removal", step, t.left, t.now)
    BY <1>0, <1>2, <2>1, GoesBecomes
  <2>3. there' = there \/ \E p : there' = [there EXCEPT ![c] = @ \ {p}]
    BY <1>4 DEF RemovalDeletes, c
  <2>4. there' \in [Consoles -> SUBSET Policies] /\ \A d \in Consoles : there'[d] \subseteq there[d]
    BY <1>1, <1>same, <2>3
  <2>5. /\ UNCHANGED <<home, recorded, applied, unanswered, confirmed, holder, abandoned, strayed, made, targets>>
        /\ mishaps' \in 0..MaxMishaps
    BY <1>0, <1>4 DEF RemovalDeletes, removalRows
  <2> HIDE DEF t
  <2> QED BY <1>0, <1>2, <2>2, <2>4, <2>5, RemovalAdvances DEF t
<1>5. CASE RemovalSettles
  <2>1. task' = [task EXCEPT !["removal"].step = "confirm", !["removal"].now = {}]
        /\ confirmed' = confirmed \ t.now
    BY <1>5 DEF RemovalSettles
  <2>2. Becomes("removal", "confirm", t.left, {})
    <3>1. [[t EXCEPT !.step = "confirm"] EXCEPT !.now = {}]
            = [t EXCEPT !.step = "confirm", !.left = t.left, !.now = {}]
      BY <1>0 DEF Tasks
    <3> QED BY <1>0, <2>1, <3>1 DEF Becomes
  <2>3. t.left \cup {} \subseteq t.left \cup t.now /\ confirmed' \subseteq Policies
    BY <1>0, <2>1
  <2>4. UNCHANGED <<home, there, recorded, applied, unanswered, holder, abandoned, strayed, made, targets, mishaps>>
    BY <1>5 DEF RemovalSettles, removalBounds
  <2> HIDE DEF t
  <2> QED BY <1>0, <1>2, <1>same, <2>2, <2>3, <2>4, RemovalAdvances DEF t
<1> QED BY <1>3, <1>4, <1>5

----------------------------------------------------------------------------
(* The theorems                                                            *)

\* Someone deletes a policy on a console.
LEMMA DeletedThereKeeps == ASSUME RemovalInv, NEW c \in Consoles, DeletedThere(c) PROVE RemovalInv'
<1>0. RemovalsTypeOK /\ mishaps' \in 0..MaxMishaps /\ home \in Consoles
  BY Bounds DEF RemovalInv, DeletedThere, RemovalsTypeOK
<1>1. /\ \E p : there' = [there EXCEPT ![c] = @ \ {p}]
      /\ UNCHANGED <<home, recorded, applied, unanswered, confirmed, holder, task, abandoned, strayed, made, targets>>
  BY DEF DeletedThere, removalRows
<1>2. there' \in [Consoles -> SUBSET Policies] /\ \A d \in Consoles : there'[d] \subseteq there[d]
  BY <1>0, <1>1 DEF RemovalsTypeOK
<1>3. RemovalsTypeOK'
  BY <1>0, <1>1, <1>2 DEF RemovalsTypeOK
<1>4. \A d \in Consoles : Claims(d)' = Claims(d)
  BY <1>1 DEF Claims
<1>5. Numbered' /\ OnTheRecord' /\ NothingLeftBehind'
  BY <1>1, <1>2, <1>4, ClaimsShrink
<1>6. Placed' /\ RemovalSpares'
  BY <1>1, <1>4, SparesStays DEF RemovalInv, Placed, At, Held
<1>7. SaveProgress'
  BY <1>0, <1>1, <1>2, SaveStays
<1> QED BY <1>3, <1>5, <1>6, <1>7 DEF RemovalInv

\* Every step keeps the invariant.
LEMMA StepRemoval == RemovalInv /\ [RemovalsNext]_removalVars => RemovalInv'
<1> SUFFICES ASSUME RemovalInv, [RemovalsNext]_removalVars PROVE RemovalInv'
  OBVIOUS
<1>1. CASE UNCHANGED removalVars
  <2>1. UNCHANGED <<home, there, recorded, applied, unanswered, confirmed, holder, task, abandoned, strayed, made,
                    targets, mishaps>>
    BY <1>1 DEF removalVars, removalRows, removalBounds
  <2>2. RemovalsTypeOK' /\ RemovalSpares' /\ Placed'
    BY <2>1 DEF RemovalInv, RemovalsTypeOK, RemovalSpares, Placed, At, Held, Claims
  <2>3. SaveProgress'
    BY <2>1 DEF RemovalInv, SaveProgress, At, Held
  <2> QED BY <2>1, <2>2, <2>3, RowsStay DEF RemovalInv, Rows
<1> QED BY <1>1, PassBeginsKeeps, PassMakesKeeps, PassWorksKeeps, SaveBeginsKeeps, SaveLooksKeep, SaveSettlesKeeps,
           SaveDeletesKeep, SaveForgetsKeep, SaveStopsKeeps, SaveMovesKeeps, RemovalBeginsKeeps, RemovalListsKeeps,
           RemovalWorksKeeps, EndingsKeep, DeletedThereKeeps DEF RemovalsNext

\* A step takes a foreign policy only with its confirmation.
LEMMA StepConsents ==
  ASSUME RemovalInv, [RemovalsNext]_removalVars, NEW c \in Consoles, NEW p \in there[c], p \notin there'[c]
  PROVE  IF At("removal", "remove") /\ ~(At("removal", "remove"))'
           THEN p \in confirmed /\ ~OnRecord(c, p) /\ p \notin unanswered[c]
           ELSE p \in Ours
<1>0. RemovalsTypeOK /\ {"pass", "save", "removal"} \subseteq Holders /\ there \in [Consoles -> SUBSET Policies]
      /\ task \in [Holders -> Tasks]
  BY DEF RemovalInv, Holders, RemovalsTypeOK
<1>1. CASE RemovalDeletes
  <2> DEFINE d == Where("removal")
  <2>1. At("removal", "remove") /\ ~At("removal", "none")
    BY <1>1 DEF RemovalDeletes, At
  <2>2. d \in Consoles /\ task["removal"].from = {d}
    BY <1>0, <2>1, WhereIs DEF RemovalInv
  <2>3. PICK q \in task["removal"].now :
          /\ there' = there \/ ((q \in confirmed \/ OnRecord(d, q)) /\ there' = [there EXCEPT ![d] = @ \ {q}])
          /\ Goes("removal", "done") \/ Goes("removal", "kept")
    BY <1>1 DEF RemovalDeletes
  <2> HIDE DEF d
  <2>4. c = d /\ p = q /\ (q \in confirmed \/ OnRecord(d, q))
    BY <1>0, <2>2, <2>3
  <2>5. q \notin Claims(d)
    BY <2>1, <2>2 DEF RemovalInv, RemovalSpares, At
  <2>6. task'["removal"].step # "remove"
    <3>1. task["removal"] \in Tasks
      BY <1>0
    <3>2. task' = [task EXCEPT !["removal"].step = "done"] \/ task' = [task EXCEPT !["removal"].step = "kept"]
      BY <2>3 DEF Goes
    <3> QED BY <1>0, <3>1, <3>2 DEF Tasks
  <2> QED BY <2>1, <2>4, <2>5, <2>6 DEF At, OnRecord, Claims
<1>2. CASE /\ UNCHANGED task \/ task'["removal"] = task["removal"]
           /\ p \in Ours
  BY <1>2 DEF At
<1>3. CASE PassMakes
  <2>1. \/ there' = there
        \/ there' = [there EXCEPT ![Where("pass")] = @ \cup {made'}]
    BY <1>3 DEF PassMakes
  <2> QED BY <1>0, <2>1
<1>4. CASE PassUnmakes \/ SaveDeletes \/ SaveFails \/ \E d \in Consoles : DeletedThere(d)
  <2>1. CASE PassUnmakes
    <3>1. UNCHANGED task /\ At("pass", "pass")
      BY <2>1 DEF PassUnmakes
    <3>2. Where("pass") \in Consoles
      BY <1>0, <3>1, WhereIs DEF RemovalInv, At
    <3> DEFINE d == Where("pass")
    <3>3. PICK q \in recorded[d] \cup applied[d] : there' = [there EXCEPT ![d] = @ \ {q}]
      BY <2>1 DEF PassUnmakes
    <3> HIDE DEF d
    <3>4. p = q /\ q \in Ours
      BY <1>0, <3>2, <3>3 DEF RemovalsTypeOK, d
    <3> QED BY <1>2, <3>1, <3>4
  <2>2. CASE SaveDeletes
    <3>1. At("save", "delete") /\ "save" # "removal"
      BY <2>2 DEF SaveDeletes
    <3>2. Where("save") \in Consoles
      BY <1>0, <3>1, WhereIs DEF RemovalInv, At
    <3> DEFINE d == Where("save")
    <3>3. PICK q \in recorded[d] \cup applied[d] :
            /\ there' = [there EXCEPT ![d] = @ \ {q}]
            /\ task' = [task EXCEPT !["save"].left = @ \ {q}]
      BY <2>2 DEF SaveDeletes
    <3> HIDE DEF d
    <3>4. p = q /\ q \in Ours
      BY <1>0, <3>2, <3>3 DEF RemovalsTypeOK, d
    <3>5. task'["removal"] = task["removal"]
      BY <1>0, <3>3
    <3> QED BY <1>2, <3>4, <3>5
  <2>3. CASE SaveFails
    <3>1. Goes("save", "failed") /\ ~At("save", "none")
      BY <2>3 DEF SaveFails, At
    <3>2. Where("save") \in Consoles
      BY <1>0, <3>1, WhereIs DEF RemovalInv
    <3> DEFINE d == Where("save")
    <3>3. there' \in {there} \cup {[there EXCEPT ![d] = @ \ {q}] : q \in task["save"].left \cap applied[d]}
      BY <2>3 DEF SaveFails
    <3> HIDE DEF d
    <3>4. p \in Ours
      BY <1>0, <3>2, <3>3 DEF RemovalsTypeOK, d
    <3>5. task'["removal"] = task["removal"]
      BY <1>0, <3>1 DEF Goes
    <3> QED BY <1>2, <3>4, <3>5
  <2>4. ASSUME NEW d \in Consoles, DeletedThere(d)
        PROVE  UNCHANGED task /\ p \in Ours
    <3>1. UNCHANGED task /\ \E q \in there[d] \cap Ours : there' = [there EXCEPT ![d] = @ \ {q}]
      BY <2>4 DEF DeletedThere
    <3> QED BY <1>0, <3>1
  <2> QED BY <1>2, <1>4, <2>1, <2>2, <2>3, <2>4
<1>5. there' # there
  OBVIOUS
<1> QED BY <1>1, <1>3, <1>4, <1>5
      DEF RemovalsNext, removalVars, PassBegins, PassSettles, PassEnds, SaveBegins, SaveLooks, SaveSettles, SaveCollects,
          SaveDeleted, SaveGivesUp, SaveForgets, SaveMoves, RemovalBegins, RemovalLists, RemovalConfirms,
          RemovalSettles, RemovalEnds, StopsUnheld, Lapses, Dies

\* Removals is well typed (unifi-settings.ts, leftover-policies.ts).
THEOREM RemovalsTypes == RemovalsSpec => []RemovalsTypeOK
<1>1. RemovalInv => RemovalsTypeOK
  BY DEF RemovalInv
<1> QED BY <1>1, InitRemoval, StepRemoval, PTL DEF RemovalsSpec

\* For any consoles, policies, saves, removals and mishaps: whatever FamilyFi
\* made is on record while it is there, but for what the operator forgot and
\* what a save that was overtaken lost (unifi-settings.ts, reconciliation.ts).
THEOREM MadeOnTheRecord == RemovalsSpec => []OnTheRecord
<1>1. RemovalInv => OnTheRecord
  BY DEF RemovalInv
<1> QED BY <1>1, InitRemoval, StepRemoval, PTL DEF RemovalsSpec

\* On a console the household is not connected to, nothing FamilyFi made is
\* left, but for those, however a switch fails half-way, its process dies or
\* its lock is lost (unifi-settings.ts, switchUnifiTarget).
THEOREM SwitchLeavesNothing == RemovalsSpec => []NothingLeftBehind
<1>1. RemovalInv => NothingLeftBehind
  BY DEF RemovalInv
<1> QED BY <1>1, InitRemoval, StepRemoval, PTL DEF RemovalsSpec

\* A policy FamilyFi did not make goes only while the removal it was ticked
\* for has confirmed it, and such a removal takes none that FamilyFi claims
\* (leftover-policies.ts).
THEOREM ForeignGoesByConsent == RemovalsSpec => RemovedByConsent
<1> DEFINE Consented ==
      \A c \in Consoles : \A p \in there[c] \ there'[c] :
        IF At("removal", "remove") /\ ~(At("removal", "remove"))'
          THEN p \in confirmed /\ ~OnRecord(c, p) /\ p \notin unanswered[c]
          ELSE p \in Ours
<1>1. RemovalInv /\ [RemovalsNext]_removalVars => Consented
  BY StepConsents
<1>2. RemovalInv /\ [RemovalsNext]_removalVars => [Consented]_removalVars
  BY <1>1
<1> QED BY <1>2, InitRemoval, StepRemoval, PTL DEF RemovalsSpec, RemovedByConsent

=============================================================================
