--------------------------- MODULE UpstreamChecks ---------------------------
(***************************************************************************)
(* What a household's own DNS filters (src/src/server/upstream/probe.ts    *)
(* and discovery.ts, with the upstream routes): sweeps and single checks   *)
(* ask a scope's resolver about each category and keep the answer, while   *)
(* people change the resolvers and switch categories, and the gateway      *)
(* hands out other servers.  No lock is held while a resolver or the       *)
(* gateway is asked; each read and each write of the database is a step.   *)
(*                                                                         *)
(* A scope is the household or a group.  A context is the resolver a scope *)
(* uses: an endpoint of its own or of the household, the servers DHCP      *)
(* hands to its networks, or nothing that can be told.  A result is known  *)
(* by the context it was measured in; what was measured is left out.       *)
(***************************************************************************)
EXTENDS Naturals

CONSTANTS
  Categories,
  Endpoints,     \* DNS-over-HTTPS endpoints people enter
  Sweeps,        \* bound: probes at once that sweep
  Checks,        \* bound: probes at once that check one category
  NoEndpoint,
  MaxChanges     \* bound: changes of settings and of the gateway, reads of it that
                 \* fail, and single checks

ASSUME UpstreamAssumption == MaxChanges \in Nat /\ NoEndpoint \notin Endpoints

VARIABLES
  url,           \* each scope's own endpoint
  placed,        \* which networks the group's devices are on
  offered,       \* what the gateway's DHCP hands out
  enabled,       \* the categories with checking on
  snapshot,      \* the context saved for each scope
  results,       \* the context each category's kept result was measured in
  probes,        \* what each sweep, check and reader of the contexts is doing
  changes        \* how much of the bound is used up

upstreamSettings == <<url, placed, offered, enabled>>
upstreamVars == <<upstreamSettings, snapshot, results, probes, changes>>

Scopes   == {"household", "group"}
Unset    == <<"unset">>
Unknown  == <<"unknown">>
Contexts == {<<"doh", e>> : e \in Endpoints} \cup {<<"dhcp", n>> : n \in Nat}
            \cup {<<"dhcp", n, p>> : n \in Nat, p \in BOOLEAN} \cup {Unknown}

\* A reader refreshes the contexts alone, as every page of the feature does.
Probers  == Checks \cup Sweeps \cup {"reader"}
ProbeSteps    == {"idle", "next", "discover", "apply", "measure"}
Identity == [url : [Scopes -> Endpoints \cup {NoEndpoint}], placed : BOOLEAN]
Probing  == [step : ProbeSteps, left : SUBSET Categories, category : SUBSET Categories, off : BOOLEAN,
             endpoint : Endpoints \cup {NoEndpoint}, tries : 0..2, read : Identity,
             contexts : [Scopes -> Contexts \cup {Unset}], targets : SUBSET Scopes]

Everywhere(value) == [s \in Scopes |-> value]
AtEase == [step |-> "idle", left |-> {}, category |-> {}, off |-> FALSE, endpoint |-> NoEndpoint,
           tries |-> 0, read |-> [url |-> Everywhere(NoEndpoint), placed |-> FALSE],
           contexts |-> Everywhere(Unset), targets |-> {}]

UpstreamInit ==
  /\ url \in [Scopes -> Endpoints \cup {NoEndpoint}] /\ placed = FALSE /\ offered = 0
  /\ enabled \in {{}, Categories}
  /\ snapshot = Everywhere(Unset)
  /\ results = [c \in Categories |-> Everywhere(Unset)]
  /\ probes = [p \in Probers |-> AtEase]
  /\ changes = 0

UpstreamTypeOK ==
  /\ url \in [Scopes -> Endpoints \cup {NoEndpoint}] /\ placed \in BOOLEAN /\ offered \in Nat
  /\ enabled \subseteq Categories
  /\ snapshot \in [Scopes -> Contexts \cup {Unset}]
  /\ results \in [Categories -> [Scopes -> Contexts \cup {Unset}]]
  /\ probes \in [Probers -> Probing]
  /\ changes \in 0..MaxChanges

Doing(p, step) == probes[p].step = step

Change == changes < MaxChanges /\ changes' = changes + 1

----------------------------------------------------------------------------
(* Probes                                                                  *)

\* probeEnabledCategories reads which categories have checking on.
Sweep(p) ==
  /\ p \in Sweeps /\ Doing(p, "idle") /\ enabled # {}
  /\ probes' = [probes EXCEPT ![p] = [AtEase EXCEPT !.step = "next", !.left = enabled]]
  /\ UNCHANGED <<upstreamSettings, snapshot, results, changes>>

\* Check now: of any category.
CheckNow(p) ==
  /\ p \in Checks /\ Doing(p, "idle") /\ Change
  /\ \E c \in Categories :
       probes' = [probes EXCEPT ![p] = [AtEase EXCEPT !.step = "next", !.left = {c}]]
  /\ UNCHANGED <<upstreamSettings, snapshot, results>>

\* probeCategory, for one category after another: it notes when it starts
\* and the household's endpoint.
NextCategory(p) ==
  /\ Doing(p, "next")
  /\ \E c \in probes[p].left :
       probes' = [probes EXCEPT ![p] = [AtEase EXCEPT
         !.step = "discover", !.left = probes[p].left \ {c}, !.category = {c},
         !.endpoint = url["household"]]]
  /\ UNCHANGED <<upstreamSettings, snapshot, results, changes>>

ReadPage ==
  /\ Doing("reader", "idle")
  /\ probes' = [probes EXCEPT !["reader"].step = "discover"]
  /\ UNCHANGED <<upstreamSettings, snapshot, results, changes>>

\* The contexts of the scopes, from these settings and what was discovered.
HouseholdContext(settings, found) ==
  IF settings.url["household"] # NoEndpoint THEN <<"doh", settings.url["household"]>> ELSE found

ContextOf(s, settings, found) ==
  IF s = "group" /\ settings.url["group"] # NoEndpoint THEN <<"doh", settings.url["group"]>>
  ELSE IF s = "group" /\ settings.url["household"] = NoEndpoint /\ found # Unknown
         THEN <<"dhcp", offered, settings.placed>>
  ELSE HouseholdContext(settings, found)

Settings == [url |-> url, placed |-> placed]

\* refreshResolverContexts asks the gateway, unless the household has an
\* endpoint.  The gateway may not answer.
Discover(p) ==
  /\ Doing(p, "discover")
  /\ \E found \in {<<"dhcp", offered>>, Unknown} :
       /\ IF found = Unknown /\ url["household"] = NoEndpoint THEN Change ELSE UNCHANGED changes
       /\ probes' = [probes EXCEPT ![p].step = "apply", ![p].read = Settings,
                       ![p].contexts = [s \in Scopes |-> ContextOf(s, Settings, found)]]
  /\ UNCHANGED <<upstreamSettings, snapshot, results>>

\* Saves the contexts, and drops the results measured in others.
KeepContexts(contexts) ==
  /\ snapshot' = contexts
  /\ results' = [c \in Categories |->
       [s \in Scopes |-> IF snapshot[s] = contexts[s] THEN results[c][s] ELSE Unset]]

\* A check's targets: the household, and a group with a resolver of its own.
OwnTarget(p, s) ==
  s = "household" \/ probes[p].contexts[s] # <<"doh", probes[p].endpoint>>

Applied(p) ==
  IF p = "reader" THEN AtEase
  ELSE [AtEase EXCEPT !.step = "measure", !.left = probes[p].left, !.category = probes[p].category,
          !.off = probes[p].off, !.contexts = probes[p].contexts,
          !.targets = {s \in Scopes : OwnTarget(p, s)}]

\* Saves what was discovered, whatever was changed meanwhile.
ApplyAnyway(p) ==
  /\ Doing(p, "apply")
  /\ KeepContexts(probes[p].contexts) /\ probes' = [probes EXCEPT ![p] = Applied(p)]
  /\ UNCHANGED <<upstreamSettings, changes>>

\* Saves only what is different from before it started.
ApplyOnce(p) ==
  /\ Doing(p, "apply") /\ probes[p].read = Settings
  /\ \A s \in Scopes : snapshot[s] # Unset => probes[p].contexts[s] = snapshot[s]
  /\ KeepContexts(probes[p].contexts) /\ probes' = [probes EXCEPT ![p] = Applied(p)]
  /\ UNCHANGED <<upstreamSettings, changes>>

\* Under the lock: discovered settings that were changed meanwhile are
\* discovered again, twice at most; then the whole probe fails.
Apply(p) ==
  /\ Doing(p, "apply")
  /\ IF probes[p].read = Settings
       THEN KeepContexts(probes[p].contexts) /\ probes' = [probes EXCEPT ![p] = Applied(p)]
       ELSE /\ UNCHANGED <<snapshot, results>>
            /\ probes' = [probes EXCEPT ![p] =
                 IF probes[p].tries = 2 THEN AtEase
                 ELSE [probes[p] EXCEPT !.step = "discover", !.tries = probes[p].tries + 1]]
  /\ UNCHANGED <<upstreamSettings, changes>>

\* recordCheck: whether a result of this probe may be kept.
Kept(p, s) == ~probes[p].off /\ snapshot[s] = probes[p].contexts[s]

\* The categories that are left come next.
Onwards(p) == IF probes[p].left = {} THEN AtEase ELSE [AtEase EXCEPT !.step = "next", !.left = probes[p].left]

\* The household's result is kept before the group's.
RecordCheck(p) ==
  /\ Doing(p, "measure")
  /\ LET s == IF "household" \in probes[p].targets THEN "household" ELSE "group" IN
       /\ results' = [c \in Categories |->
            IF c \in probes[p].category /\ Kept(p, s)
              THEN [results[c] EXCEPT ![s] = probes[p].contexts[s]] ELSE results[c]]
       /\ probes' = [probes EXCEPT ![p] =
            IF probes[p].targets = {s} THEN Onwards(p)
            ELSE [@ EXCEPT !.targets = {"group"}, !.contexts["household"] = Unset]]
  /\ UNCHANGED <<upstreamSettings, snapshot, changes>>

----------------------------------------------------------------------------
(* People and the gateway                                                  *)

Dropped(s) == [c \in Categories |-> [results[c] EXCEPT ![s] = Unset]]

\* A scope is given another endpoint, or none: what was measured with the
\* last goes with it, under the lock.
SetEndpoint(s, e) ==
  /\ Change /\ url[s] # e
  /\ url' = [url EXCEPT ![s] = e]
  /\ results' = Dropped(s) /\ snapshot' = [snapshot EXCEPT ![s] = Unset]
  /\ UNCHANGED <<placed, offered, enabled, probes>>

\* A device of the group is moved, or the networks FamilyFi manages change.
Place ==
  /\ Change /\ placed' = ~placed
  /\ UNCHANGED <<url, offered, enabled, snapshot, results, probes>>

\* The gateway is set to hand out other servers.
Offer ==
  /\ Change /\ offered' = offered + 1
  /\ UNCHANGED <<url, placed, enabled, snapshot, results, probes>>

\* Checking of a category is turned off or on, or all automatic checking is
\* turned off.  A probe of it that is under way began before.
Off(cats) ==
  /\ results' = [c \in Categories |-> IF c \in cats THEN Everywhere(Unset) ELSE results[c]]
  /\ probes' = [p \in Probers |-> [probes[p] EXCEPT !.off = @ \/ probes[p].category \cap cats # {}]]

TurnOff(c) ==
  /\ Change /\ c \in enabled /\ enabled' = enabled \ {c}
  /\ Off({c})
  /\ UNCHANGED <<url, placed, offered, snapshot>>

TurnOn(c) ==
  /\ Change /\ c \notin enabled /\ enabled' = enabled \cup {c}
  /\ UNCHANGED <<url, placed, offered, snapshot, results, probes>>

TurnAllOff ==
  /\ Change
  /\ Off(Categories)
  /\ UNCHANGED <<upstreamSettings, snapshot>>

ProbeStep(p) == NextCategory(p) \/ Discover(p) \/ Apply(p) \/ RecordCheck(p)

UpstreamNext ==
  \/ \E p \in Sweeps : Sweep(p)
  \/ \E p \in Checks : CheckNow(p)
  \/ ReadPage
  \/ \E p \in Probers : NextCategory(p)
  \/ \E p \in Probers : Discover(p)
  \/ \E p \in Probers : Apply(p)
  \/ \E p \in Probers : RecordCheck(p)
  \/ \E s \in Scopes, e \in Endpoints \cup {NoEndpoint} : SetEndpoint(s, e)
  \/ Place
  \/ Offer
  \/ \E c \in Categories : TurnOff(c)
  \/ \E c \in Categories : TurnOn(c)
  \/ TurnAllOff

\* The schedule sweeps again and again, and what is asked answers or times out.
UpstreamFairness ==
  /\ \A p \in Sweeps : WF_upstreamVars(Sweep(p))
  /\ \A p \in Probers : WF_upstreamVars(ProbeStep(p))

UpstreamSpec == UpstreamInit /\ [][UpstreamNext]_upstreamVars /\ UpstreamFairness

----------------------------------------------------------------------------
(* Properties                                                              *)

\* A result that is kept was measured with the resolver its scope has, by
\* what FamilyFi last found and by what the household entered: no answer, and
\* no discovery, begun before a change of resolver brings the old one back.
OfItsResolver ==
  \A c \in Categories, s \in Scopes :
    results[c][s] # Unset =>
      /\ results[c][s] = snapshot[s]
      /\ url[s] # NoEndpoint => results[c][s] = <<"doh", url[s]>>

\* Once people and the gateway stop, the sweeps come to keep, of every
\* category with checking on and every scope with a resolver of its own, a
\* result of the resolver it has now.
ContextNow(s) == ContextOf(s, Settings, <<"dhcp", offered>>)

ComesToBeMeasured ==
  <>[](\A c \in enabled, s \in Scopes :
         s = "household" \/ ContextNow(s) # <<"doh", url["household"]>> => results[c][s] = ContextNow(s))
=============================================================================
