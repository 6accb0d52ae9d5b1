------------------------------ MODULE Removals ------------------------------
(***************************************************************************)
(* The two removals that are not a pass's: of everything FamilyFi has on a *)
(* console the household leaves (src/src/server/unifi-settings.ts), and of *)
(* leftovers an administrator ticked (src/src/server/leftover-policies.ts),*)
(* with what passes do to the same policies and records meanwhile, under   *)
(* the reconcile lock and when it is lost.                                 *)
(*                                                                         *)
(* A policy that FamilyFi makes is known by the creation that made it.     *)
(* What a pass does to one policy is a step: PolicySync has its own steps. *)
(* A create lands before its answer is given up, if it lands at all.       *)
(***************************************************************************)
EXTENDS Naturals, FiniteSets

CONSTANTS
  Consoles,      \* consoles, each with its site
  Foreign,       \* policies FamilyFi did not make, and where they are
  Named,         \* those of them that have FamilyFi's prefix
  MaxMade,       \* bound: policies FamilyFi makes
  MaxTargets,    \* bound: saves of the connection, and removals
  MaxMishaps     \* bound: calls that fail, processes that die, leases that run out

ASSUME RemovalsAssumption ==
  /\ Named \subseteq Foreign /\ Foreign \cap 1..MaxMade = {}
  /\ MaxMade \in Nat /\ MaxTargets \in Nat /\ MaxMishaps \in Nat

VARIABLES
  home,          \* the console the household is connected to
  there,         \* the policies on each console
  recorded,      \* those an AppPolicy or RulePolicy row holds
  applied,       \* those an applied creation holds
  unanswered,    \* pending creations, by the policy each would have made
  confirmed,     \* leftovers with a standing confirmation
  holder,        \* who holds the reconcile lock
  task,          \* what each holder is doing, as long as it has not ended
  abandoned,     \* ghost: policies the operator let FamilyFi forget
  strayed,       \* ghost: policies whose creation an overtaken save failed
  made, targets, mishaps    \* how much of each bound is used up

removalRows == <<recorded, applied, unanswered, confirmed>>
removalBounds == <<made, targets, mishaps>>
removalVars == <<home, there, removalRows, holder, task, abandoned, strayed, removalBounds>>

Ours     == 1..MaxMade
Policies == Ours \cup Foreign
Holders  == {"pass", "save", "removal"}
NoTask   == [step |-> "none", from |-> {}, to |-> {}, forget |-> FALSE, left |-> {}, now |-> {}]
Tasks    == [step : {"none", "pass", "settle", "match", "collect", "delete", "failed", "forget", "move", "list", "confirm",
                     "remove", "done", "kept"},
             from : SUBSET Consoles, to : SUBSET Consoles, forget : BOOLEAN,
             left : SUBSET Policies, now : SUBSET Policies]

RemovalsInit ==
  /\ home \in Consoles
  /\ there = [c \in Consoles |-> IF c = home THEN Foreign ELSE {}]
  /\ recorded = [c \in Consoles |-> {}] /\ applied = [c \in Consoles |-> {}]
  /\ unanswered = [c \in Consoles |-> {}] /\ confirmed = {}
  /\ holder = "nobody" /\ task = [h \in Holders |-> NoTask]
  /\ abandoned = {} /\ strayed = {}
  /\ made = 0 /\ targets = 0 /\ mishaps = 0

RemovalsTypeOK ==
  /\ home \in Consoles
  /\ there \in [Consoles -> SUBSET Policies]
  /\ recorded \in [Consoles -> SUBSET Ours] /\ applied \in [Consoles -> SUBSET Ours]
  /\ unanswered \in [Consoles -> SUBSET Ours] /\ confirmed \subseteq Policies
  /\ holder \in Holders \cup {"nobody"} /\ task \in [Holders -> Tasks]
  /\ abandoned \subseteq Ours /\ strayed \subseteq Ours
  /\ made \in 0..MaxMade /\ targets \in 0..MaxTargets /\ mishaps \in 0..MaxMishaps

At(h, step) == task[h].step = step
Held(h)     == holder = h
Mishap      == mishaps < MaxMishaps /\ mishaps' = mishaps + 1

\* The console of a task: the household's when it took the lock.
Where(h) == CHOOSE c \in Consoles : c \in task[h].from

Takes(h, t) == /\ holder = "nobody" /\ At(h, "none")
               /\ holder' = h /\ task' = [task EXCEPT ![h] = [t EXCEPT !.from = {home}]]

Goes(h, step) == task' = [task EXCEPT ![h].step = step]

\* Its work done or thrown, a task gives back the lock it has.
Ends(h) == /\ task' = [task EXCEPT ![h] = NoTask]
           /\ holder' = IF Held(h) THEN "nobody" ELSE holder

----------------------------------------------------------------------------
(* A pass                                                                  *)

\* A pass begins by failing the confirmations left behind.
PassBegins ==
  /\ Takes("pass", [NoTask EXCEPT !.step = "pass"])
  /\ confirmed' = {}
  /\ UNCHANGED <<home, there, recorded, applied, unanswered, abandoned, strayed, removalBounds>>

\* It makes a policy and records it; or the answer does not come back, and
\* the creation stays pending.
PassMakes ==
  /\ At("pass", "pass") /\ Held("pass") /\ made < MaxMade
  /\ made' = made + 1
  /\ LET c == Where("pass") IN
       \/ /\ there' = [there EXCEPT ![c] = @ \cup {made'}]
          /\ applied' = [applied EXCEPT ![c] = @ \cup {made'}]
          /\ recorded' = [recorded EXCEPT ![c] = @ \cup {made'}]
          /\ UNCHANGED <<unanswered, mishaps>>
       \/ /\ Mishap
          /\ there' \in {there, [there EXCEPT ![c] = @ \cup {made'}]}
          /\ unanswered' = [unanswered EXCEPT ![c] = @ \cup {made'}]
          /\ UNCHANGED <<applied, recorded>>
  /\ UNCHANGED <<home, confirmed, holder, task, abandoned, strayed, targets>>

\* settleLostCreates: the policies listed that pending creations made are
\* theirs; a pending creation of some age that made none has failed.
Settles(c, listed, failed) ==
  /\ applied' = [applied EXCEPT ![c] = @ \cup (unanswered[c] \cap listed)]
  /\ unanswered' = [unanswered EXCEPT ![c] = @ \ (listed \cup failed)]

\* A pass fails only creations older than any answer can be.
PassSettles ==
  /\ At("pass", "pass")
  /\ LET c == Where("pass") IN
       /\ unanswered[c] # {}
       /\ \E failed \in {{}, unanswered[c] \ there[c]} : Settles(c, there[c], failed)
  /\ UNCHANGED <<home, there, recorded, confirmed, holder, task, abandoned, strayed, removalBounds>>

\* It deletes a policy that is no longer wanted, or that no row claims, and
\* clears its records.
PassUnmakes ==
  /\ At("pass", "pass") /\ Held("pass")
  /\ LET c == Where("pass") IN
       \E p \in recorded[c] \cup applied[c] :
         /\ there' = [there EXCEPT ![c] = @ \ {p}]
         /\ recorded' = [recorded EXCEPT ![c] = @ \ {p}] /\ applied' = [applied EXCEPT ![c] = @ \ {p}]
  /\ UNCHANGED <<home, unanswered, confirmed, holder, task, abandoned, strayed, removalBounds>>

PassEnds ==
  /\ At("pass", "pass") /\ Ends("pass")
  /\ UNCHANGED <<home, there, removalRows, abandoned, strayed, removalBounds>>

----------------------------------------------------------------------------
(* Saving another connection: switchUnifiTarget                            *)

Target == targets < MaxTargets /\ targets' = targets + 1

\* A console other than the one the household has is left in order.
SaveBegins ==
  /\ Target
  /\ \E c \in Consoles, forget \in BOOLEAN :
       Takes("save", [NoTask EXCEPT !.step = IF c = home THEN "move" ELSE "settle", !.to = {c},
                                    !.forget = forget])
  /\ UNCHANGED <<home, there, removalRows, abandoned, strayed, made, mishaps>>

\* removePreviousTargetPolicies: what the console has, for the creations
\* that were lost.
SaveLooks ==
  /\ At("save", "settle")
  /\ LET c == Where("save") IN
       task' = [task EXCEPT !["save"].step = IF unanswered[c] = {} THEN "collect" ELSE "match",
                            !["save"].left = IF unanswered[c] = {} THEN {} ELSE there[c]]
  /\ UNCHANGED <<home, there, removalRows, holder, abandoned, strayed, removalBounds>>

\* Lost creations are left out.
SaveIgnores ==
  /\ At("save", "match") /\ Goes("save", "collect")
  /\ UNCHANGED <<home, there, removalRows, holder, abandoned, strayed, removalBounds>>

\* No creation stays pending: nobody looks there later. Those a pass that
\* took the lock over wrote since the look are failed with the others.
SaveSettles ==
  /\ At("save", "match")
  /\ LET c == Where("save") IN
       /\ Settles(c, task["save"].left, unanswered[c])
       /\ strayed' = strayed \cup ((there[c] \cap unanswered[c]) \ task["save"].left)
  /\ Goes("save", "collect")
  /\ UNCHANGED <<home, there, recorded, confirmed, holder, abandoned, removalBounds>>

\* What FamilyFi owns there.
SaveCollects ==
  /\ At("save", "collect")
  /\ LET c == Where("save") IN
       task' = [task EXCEPT !["save"].step = "delete", !["save"].left = recorded[c] \cup applied[c]]
  /\ UNCHANGED <<home, there, removalRows, holder, abandoned, strayed, removalBounds>>

\* One policy after another, by a guarded client; one that is gone counts.
SaveDeletes ==
  /\ At("save", "delete") /\ Held("save")
  /\ LET c == Where("save") IN
       \E p \in task["save"].left :
         /\ p \in recorded[c] \cup applied[c]
         /\ there' = [there EXCEPT ![c] = @ \ {p}]
         /\ task' = [task EXCEPT !["save"].left = @ \ {p}]
  /\ UNCHANGED <<home, removalRows, holder, abandoned, strayed, removalBounds>>

SaveDeleted ==
  /\ At("save", "delete") /\ task["save"].left = {}
  /\ Goes("save", "forget")
  /\ UNCHANGED <<home, there, removalRows, holder, abandoned, strayed, removalBounds>>

\* The gateway can't be reached, or refuses; a delete may have landed.
SaveFails ==
  /\ At("save", "settle") \/ (At("save", "delete") /\ Held("save"))
  /\ Mishap
  /\ there' \in {there} \cup {[there EXCEPT ![Where("save")] = @ \ {p}] :
                                p \in task["save"].left \cap applied[Where("save")]}
  /\ Goes("save", "failed")
  /\ UNCHANGED <<home, removalRows, holder, abandoned, strayed, made, targets>>

\* forgetPreviousTarget.
Forgets(c) ==
  /\ recorded' = [recorded EXCEPT ![c] = {}] /\ applied' = [applied EXCEPT ![c] = {}]
  /\ unanswered' = [unanswered EXCEPT ![c] = {}]

\* Forgets whatever went wrong.
SaveGoesOn ==
  /\ At("save", "failed") /\ Held("save")
  /\ Forgets(Where("save"))
  /\ Goes("save", "move")
  /\ UNCHANGED <<home, there, confirmed, holder, abandoned, strayed, removalBounds>>

\* An unreachable console is only forgotten when the operator says so.
SaveGivesUp ==
  /\ At("save", "failed") /\ Held("save")
  /\ IF task["save"].forget
       THEN /\ Forgets(Where("save")) /\ Goes("save", "move")
            /\ abandoned' = abandoned \cup (there[Where("save")] \cap Ours)
            /\ UNCHANGED holder
       ELSE /\ Ends("save")
            /\ UNCHANGED <<recorded, applied, unanswered, abandoned>>
  /\ UNCHANGED <<home, there, confirmed, strayed, removalBounds>>

SaveForgets ==
  /\ At("save", "forget") /\ Held("save")
  /\ Forgets(Where("save"))
  /\ Goes("save", "move")
  /\ UNCHANGED <<home, there, confirmed, holder, abandoned, strayed, removalBounds>>

SaveMoves ==
  /\ At("save", "move") /\ Held("save")
  /\ home' \in task["save"].to
  /\ Ends("save")
  /\ UNCHANGED <<there, removalRows, abandoned, strayed, removalBounds>>

----------------------------------------------------------------------------
(* Removing leftovers: removeLeftoverPolicies                              *)

Prefixed == Ours \cup Named

RemovalBegins ==
  /\ Target
  /\ \E ticked \in SUBSET (there[home] \cap Prefixed) :
       ticked # {} /\ Takes("removal", [NoTask EXCEPT !.step = "list", !.left = ticked])
  /\ confirmed' = {}
  /\ UNCHANGED <<home, there, recorded, applied, unanswered, abandoned, strayed, made, mishaps>>

\* Leftovers as records alone tell.
UnrecordedAlone(c) == (there[c] \cap Prefixed) \ (recorded[c] \cup applied[c])

\* leftoverPolicies of unrecordedPolicies.
Leftovers(c) == (there[c] \cap Prefixed) \ (recorded[c] \cup applied[c] \cup unanswered[c])

\* What was ticked and is not a leftover now is skipped.
RemovalLists ==
  /\ At("removal", "list")
  /\ task' = [task EXCEPT !["removal"].step = "confirm",
                          !["removal"].left = @ \cap Leftovers(Where("removal"))]
  /\ UNCHANGED <<home, there, removalRows, holder, abandoned, strayed, removalBounds>>

RemovalConfirms ==
  /\ At("removal", "confirm") /\ Held("removal")
  /\ \E p \in task["removal"].left :
       /\ confirmed' = confirmed \cup {p}
       /\ task' = [task EXCEPT !["removal"].step = "remove", !["removal"].now = {p},
                               !["removal"].left = @ \ {p}]
  /\ UNCHANGED <<home, there, recorded, applied, unanswered, holder, abandoned, strayed, removalBounds>>

OnRecord(c, p) == p \in recorded[c] \cup applied[c]

\* The guarded client lets a confirmed delete through, if the confirmation
\* still stands; the call may fail, having deleted it or not. It may have
\* been sent before the lock was lost.
RemovalDeletes ==
  /\ At("removal", "remove")
  /\ LET c == Where("removal") IN
       \E p \in task["removal"].now :
         IF p \in confirmed \/ OnRecord(c, p)
           THEN \/ there' = [there EXCEPT ![c] = @ \ {p}] /\ Goes("removal", "done") /\ UNCHANGED mishaps
                \/ /\ there' \in {there, [there EXCEPT ![c] = @ \ {p}]}
                   /\ Goes("removal", "kept") /\ Mishap
           ELSE Goes("removal", "kept") /\ UNCHANGED <<there, mishaps>>
  /\ UNCHANGED <<home, removalRows, holder, abandoned, strayed, made, targets>>

\* The confirmation is settled, whether the delete was done, failed, or
\* given up as the lock was gone.
RemovalSettles ==
  /\ At("removal", "done") \/ At("removal", "kept") \/ (At("removal", "remove") /\ ~Held("removal"))
  /\ confirmed' = confirmed \ task["removal"].now
  /\ task' = [task EXCEPT !["removal"].step = "confirm", !["removal"].now = {}]
  /\ UNCHANGED <<home, there, recorded, applied, unanswered, holder, abandoned, strayed, removalBounds>>

RemovalEnds ==
  /\ \/ At("removal", "confirm") /\ task["removal"].left = {}
     \/ At("removal", "list") /\ Mishap
  /\ At("removal", "confirm") => UNCHANGED mishaps
  /\ Ends("removal")
  /\ UNCHANGED <<home, there, removalRows, abandoned, strayed, made, targets>>

----------------------------------------------------------------------------
(* The lock, and everyone else                                             *)

\* stillHeld throws: a save or a removal that lost the lock ends there.
StopsUnheld(h) ==
  /\ ~Held(h)
  /\ \/ h = "save" /\ task[h].step \in {"delete", "failed", "forget", "move"}
     \/ h = "removal" /\ At(h, "confirm")
     \/ h = "pass" /\ At(h, "pass")
  /\ Ends(h)
  /\ UNCHANGED <<home, there, removalRows, abandoned, strayed, removalBounds>>

\* A lease runs out under its holder.
Lapses ==
  /\ holder \in Holders /\ Mishap
  /\ holder' = "nobody"
  /\ UNCHANGED <<home, there, removalRows, task, abandoned, strayed, made, targets>>

\* A process dies; its lease runs out.
Dies(h) ==
  /\ ~At(h, "none") /\ Mishap
  /\ Ends(h)
  /\ UNCHANGED <<home, there, removalRows, abandoned, strayed, made, targets>>

\* Someone deletes a policy on a console.
DeletedThere(c) ==
  /\ \E p \in there[c] \cap Ours : there' = [there EXCEPT ![c] = @ \ {p}]
  /\ Mishap
  /\ UNCHANGED <<home, removalRows, holder, task, abandoned, strayed, made, targets>>

RemovalsNext ==
  \/ PassBegins \/ PassMakes \/ PassSettles \/ PassUnmakes \/ PassEnds
  \/ SaveBegins \/ SaveLooks \/ SaveSettles \/ SaveCollects \/ SaveDeletes \/ SaveDeleted \/ SaveFails
  \/ SaveGivesUp \/ SaveForgets \/ SaveMoves
  \/ RemovalBegins \/ RemovalLists \/ RemovalConfirms \/ RemovalDeletes \/ RemovalSettles \/ RemovalEnds
  \/ \E h \in Holders : StopsUnheld(h)
  \/ Lapses
  \/ \E h \in Holders : Dies(h)
  \/ \E c \in Consoles : DeletedThere(c)

RemovalsSpec == RemovalsInit /\ [][RemovalsNext]_removalVars

----------------------------------------------------------------------------
(* Properties                                                              *)

\* On a console the household is not connected to, nothing FamilyFi made is
\* left enforcing, save what the operator chose to forget: however a switch
\* fails half-way, its process dies, its lock is lost, or a lost create turns up.
NothingLeftBehind ==
  \A c \in Consoles \ {home} : there[c] \cap Ours \subseteq abandoned \cup strayed

\* Whatever FamilyFi made is on record while it is there, so that a pass, the
\* sweep or the next switch can find and delete it; but for what the operator
\* forgot, and what an overtaken save made it lose.
OnTheRecord ==
  \A c \in Consoles :
    there[c] \cap Ours \subseteq recorded[c] \cup applied[c] \cup unanswered[c] \cup abandoned \cup strayed

\* A policy FamilyFi did not make, or no longer claims, goes only while the
\* removal that its administrator ticked it for has confirmed it; and such a
\* removal never takes one that FamilyFi claims.
RemovedByConsent ==
  [][\A c \in Consoles : \A p \in there[c] \ there'[c] :
       IF At("removal", "remove") /\ ~(At("removal", "remove"))'
         THEN p \in confirmed /\ ~OnRecord(c, p) /\ p \notin unanswered[c]
         ELSE p \in Ours]_removalVars
=============================================================================
