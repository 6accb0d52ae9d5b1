------------------------------- MODULE Pairing -------------------------------
(***************************************************************************)
(* How phones and Watches join a household and leave it: invites and their *)
(* claims (src/src/server/pairing.ts), and the revocation or removal of a  *)
(* device, which takes along everything that was paired from it            *)
(* (src/src/server/connection.ts).                                         *)
(*                                                                         *)
(* A claim and a revocation are transactions of several statements.  What  *)
(* one has written is not seen before it commits, and the rows it wrote    *)
(* are locked until then.  A removal is no transaction.  All devices act   *)
(* as one administrator; agents, which are invited like phones, names and  *)
(* the five minutes an invite lasts are left out.                          *)
(***************************************************************************)
EXTENDS Naturals

CONSTANTS
  Callers,       \* bound: invites being made, Watches joining and claims at once
  MaxDevices,    \* bound: devices, those there are at first included
  MaxInvites,    \* bound: invites
  MaxRequests,   \* bound: invites, Watches and claims altogether
  MaxRevocations \* bound: revocations and removals

ASSUME PairingAssumption ==
  MaxDevices \in Nat /\ MaxDevices >= 3 /\ {MaxInvites, MaxRequests, MaxRevocations} \subseteq Nat

VARIABLES
  device,        \* each device's record, and whether it has a session
  invite,        \* each invite
  call,          \* what each request is doing
  walk,          \* the revocation or removal under way, or whom the last revocation was of
  requests, revocations    \* how much of each bound is used up

pairingBounds == <<requests, revocations>>
pairingVars == <<device, invite, call, walk, pairingBounds>>

Paired  == 1..MaxDevices
Invites == 1..MaxInvites
Nobodys == 0    \* a browser's invite, and a device nothing paired

NoDevice == [is |-> "unused", signedIn |-> FALSE, watch |-> FALSE, again |-> FALSE, parent |-> Nobodys,
             by |-> 0]
NewPhone(p) == [NoDevice EXCEPT !.is = "active", !.signedIn = TRUE, !.parent = p]
NoInvite == [is |-> "unused", parent |-> Nobodys, replaces |-> Nobodys]
NoCall   == [step |-> "idle", from |-> Nobodys, replaces |-> Nobodys, invite |-> 0]
NoWalk   == [step |-> "none", of |-> Nobodys, whole |-> FALSE, parents |-> {}, found |-> {}, seen |-> {},
             marked |-> {}, expired |-> {}, before |-> {}, late |-> {}]

\* A phone, one it invited, and one that either of them invited and that has
\* an invite waiting; the second may be revoked, and the third paired again
\* in a place under it.
FirstDevices(p, gone) == [d \in Paired |->
  CASE d = 1 -> NewPhone(Nobodys)
    [] d = 2 -> [NewPhone(1) EXCEPT !.is = IF gone THEN "revoked" ELSE "active", !.signedIn = ~gone]
    [] d = 3 -> [NewPhone(p) EXCEPT !.again = gone]
    [] OTHER -> NoDevice]

PairingInit ==
  /\ \E p \in {1, 2}, gone \in BOOLEAN : device = FirstDevices(p, gone)
  /\ invite = [i \in Invites |-> IF i = 1 THEN [NoInvite EXCEPT !.is = "waiting", !.parent = 3] ELSE NoInvite]
  /\ call = [c \in Callers |-> NoCall]
  /\ walk = NoWalk /\ requests = 0 /\ revocations = 0

OnFile(d)  == device[d].is \in {"active", "revoked"}
Waiting(i)  == invite[i].is = "waiting"
Calling(c, step) == call[c].step = step
Walking(step)    == walk.step = step

AsksToPair(c) == Calling(c, "idle") /\ requests < MaxRequests /\ requests' = requests + 1

Revoked(ds) == [d \in Paired |->
  IF d \in ds /\ OnFile(d) THEN [device[d] EXCEPT !.is = "revoked", !.signedIn = FALSE] ELSE device[d]]

\* The rows a transaction has written.
Claiming(i)  == \E c \in Callers : Calling(c, "claimed") /\ call[c].invite = i
Expiring(i)  == walk.whole /\ i \in walk.expired
Revoking(d)  == walk.whole /\ d \in walk.marked /\ device[d].is = "active"

----------------------------------------------------------------------------
(* Invites                                                                 *)

\* A signed-in phone or a browser asks for an invite, perhaps to take the
\* place of a phone on file.
InviteAsked(c) ==
  /\ AsksToPair(c)
  /\ \E p \in {Nobodys} \cup {p \in Paired : device[p].signedIn /\ ~device[p].watch},
        r \in {Nobodys} \cup {r \in Paired : OnFile(r) /\ ~device[r].watch} :
       call' = [call EXCEPT ![c] = [NoCall EXCEPT !.step = "invite", !.from = p, !.replaces = r]]
  /\ UNCHANGED <<device, invite, walk, revocations>>

\* The phone may have been revoked meanwhile, but not removed.
InviteMade(c) ==
  /\ Calling(c, "invite")
  /\ LET p == call[c].from IN
       IF p # Nobodys /\ device[p].is = "removed" THEN UNCHANGED invite
       ELSE \E i \in Invites :
              /\ invite[i].is = "unused" /\ \A j \in Invites : j < i => invite[j].is # "unused"
              /\ invite' = [invite EXCEPT ![i] = [is |-> "waiting", parent |-> p, replaces |-> call[c].replaces]]
  /\ call' = [call EXCEPT ![c] = NoCall]
  /\ UNCHANGED <<device, walk, pairingBounds>>

\* cancelInvite.
InviteCancelled(i) ==
  /\ Waiting(i) /\ ~Claiming(i) /\ ~Expiring(i)
  /\ invite' = [invite EXCEPT ![i].is = "over"]
  /\ UNCHANGED <<device, call, walk, pairingBounds>>

----------------------------------------------------------------------------
(* Joining                                                                 *)

NextFree(d) == device[d].is = "unused" /\ \A e \in Paired : e < d => device[e].is # "unused"

\* While a revocation looks, who joins by an invite it could not have found,
\* takes the place of another, or is handed to another, is noted.
Noted(ds) == walk' = IF Walking("none") THEN walk ELSE [walk EXCEPT !.late = @ \cup ds]

WatchAsked(c) ==
  /\ AsksToPair(c)
  /\ \E p \in {p \in Paired : device[p].signedIn /\ ~device[p].watch} :
       call' = [call EXCEPT ![c] = [NoCall EXCEPT !.step = "watch", !.from = p]]
  /\ UNCHANGED <<device, invite, walk, revocations>>

\* inviteAndClaimWatch, one transaction.  A Watch that was enrolled already
\* leaves its old record revoked.
WatchJoined(c) ==
  /\ Calling(c, "watch")
  /\ LET p == call[c].from IN
       IF device[p].is = "removed" THEN UNCHANGED <<device, walk>>
       ELSE \E d \in Paired, old \in {{}} \cup {{w} : w \in {w \in Paired : device[w].watch /\ device[w].is = "active"}} :
              /\ NextFree(d) /\ \A w \in old : ~Revoking(w)
              /\ device' = [Revoked(old) EXCEPT ![d] = [NewPhone(p) EXCEPT !.watch = TRUE]]
              /\ Noted({d})
  /\ call' = [call EXCEPT ![c] = NoCall]
  /\ UNCHANGED <<invite, pairingBounds>>

\* claimInvite looks at the invite.
ClaimAsked(c) ==
  /\ AsksToPair(c)
  /\ \E i \in Invites :
       /\ Waiting(i)
       /\ call' = [call EXCEPT ![c] = [NoCall EXCEPT !.step = "claim", !.invite = i, !.from = invite[i].parent,
                                                     !.replaces = invite[i].replaces]]
  /\ UNCHANGED <<device, invite, walk, revocations>>

\* The invite is taken as it was looked at.
ClaimTakesAny(c) ==
  /\ Calling(c, "claim") /\ ~Claiming(call[c].invite) /\ ~Expiring(call[c].invite)
  /\ call' = [call EXCEPT ![c].step = "claimed"]
  /\ UNCHANGED <<device, invite, walk, pairingBounds>>

\* The transaction's first statement takes it, if it is waiting still.
ClaimTakes(c) ==
  /\ Calling(c, "claim") /\ ~Claiming(call[c].invite) /\ ~Expiring(call[c].invite)
  /\ call' = [call EXCEPT ![c] = IF Waiting(@.invite) THEN [@ EXCEPT !.step = "claimed"] ELSE NoCall]
  /\ UNCHANGED <<device, invite, walk, pairingBounds>>

\* What the place of phone r means to others: its devices are handed to
\* whoever takes it, and its invites end with it.
Handed(r, n) == [d \in Paired |->
  IF d = r THEN [NoDevice EXCEPT !.is = "removed"]
  ELSE IF device[d].parent = r THEN [device[d] EXCEPT !.parent = n] ELSE device[d]]

Ended(r) == [i \in Invites |->
  IF r # Nobodys /\ invite[i].parent = r
    THEN [invite[i] EXCEPT !.parent = Nobodys, !.is = IF @ = "waiting" THEN "over" ELSE @] ELSE invite[i]]

\* join: a phone that takes the place of another joins under what paired
\* that one.  Nothing that the place means may be locked.
ClaimJoins(c) ==
  /\ Calling(c, "claimed")
  /\ LET i == call[c].invite
         r == call[c].replaces
         p == IF r = Nobodys THEN call[c].from ELSE device[r].parent IN
       /\ p # Nobodys => OnFile(p)
       /\ r # Nobodys => /\ \A d \in Paired : d = r \/ device[d].parent = r => ~Revoking(d)
                         /\ \A j \in Invites \ {i} : invite[j].parent = r => ~Claiming(j) /\ ~Expiring(j)
       /\ \E d \in Paired :
            /\ NextFree(d)
            /\ device' = [(IF r = Nobodys THEN device ELSE Handed(r, d)) EXCEPT ![d] =
                            [NewPhone(p) EXCEPT !.by = i, !.again = (r # Nobodys)]]
            /\ Noted(IF r = Nobodys /\ i \in walk.before THEN {} ELSE {d})
       /\ invite' = [Ended(r) EXCEPT ![i].is = "claimed"]
  /\ call' = [call EXCEPT ![c] = NoCall]
  /\ UNCHANGED pairingBounds

\* The transaction fails, because what invited the device is gone or two
\* transactions wait for each other.
ClaimFails(c) ==
  /\ Calling(c, "claimed")
  /\ call' = [call EXCEPT ![c] = NoCall]
  /\ UNCHANGED <<device, invite, walk, pairingBounds>>

----------------------------------------------------------------------------
(* Revoking and removing                                                   *)

Begins(d, whole) ==
  /\ Walking("none") /\ revocations < MaxRevocations /\ revocations' = revocations + 1
  /\ walk' = [NoWalk EXCEPT !.step = "invites", !.of = d, !.whole = whole, !.parents = {d}, !.seen = {d},
                            !.marked = IF whole THEN {d} ELSE {},
                            !.before = {i \in Invites : invite[i].is # "unused"}]

\* revokeDevice, in a transaction.
RevokeBegins(d) ==
  /\ device[d].is = "active" /\ Begins(d, TRUE)
  /\ UNCHANGED <<device, invite, call, requests>>

\* removeDevice, of an active or a revoked one: it is signed out first.
RemoveBegins(d) ==
  /\ OnFile(d) /\ Begins(d, FALSE)
  /\ device' = [device EXCEPT ![d].signedIn = FALSE]
  /\ UNCHANGED <<invite, call, requests>>

\* revokeCompanions: the invites the parents left waiting end.  One that is
\* being claimed is waited for.
WalkInvites ==
  /\ Walking("invites")
  /\ LET ends == {i \in Invites : Waiting(i) /\ invite[i].parent \in walk.parents} IN
       /\ \A i \in ends : ~Claiming(i)
       /\ walk' = [walk EXCEPT !.step = "find", !.expired = IF walk.whole THEN @ \cup ends ELSE @]
       /\ invite' = IF walk.whole THEN invite
                    ELSE [i \in Invites |-> IF i \in ends THEN [invite[i] EXCEPT !.is = "over"] ELSE invite[i]]
  /\ UNCHANGED <<device, call, pairingBounds>>

Companions == {d \in Paired : OnFile(d) /\ device[d].parent \in walk.parents} \ walk.seen

\* The active ones alone.
WalkFindsActive ==
  /\ Walking("find")
  /\ LET active == {d \in Companions : device[d].is = "active"} IN
       walk' = [walk EXCEPT !.step = "mark", !.found = active, !.seen = @ \cup active]
  /\ UNCHANGED <<device, invite, call, pairingBounds>>

\* What was paired from the parents, the revoked included.
WalkFinds ==
  /\ Walking("find")
  /\ walk' = [walk EXCEPT !.step = "mark", !.found = Companions, !.seen = @ \cup Companions]
  /\ UNCHANGED <<device, invite, call, pairingBounds>>

\* They are revoked, and become the parents in turn.
WalkMarks ==
  /\ Walking("mark")
  /\ walk' = [walk EXCEPT !.step = IF walk.found # {} THEN "invites" ELSE IF walk.whole THEN "commit" ELSE "detach",
                          !.marked = IF walk.whole THEN @ \cup {d \in walk.found : OnFile(d)} ELSE @,
                          !.parents = walk.found, !.found = {}]
  /\ device' = IF walk.whole THEN device ELSE Revoked(walk.found)
  /\ UNCHANGED <<invite, call, pairingBounds>>

RevokeCommits ==
  /\ Walking("commit")
  /\ device' = Revoked(walk.marked)
  /\ invite' = [i \in Invites |-> IF i \in walk.expired THEN [invite[i] EXCEPT !.is = "over"] ELSE invite[i]]
  /\ walk' = [NoWalk EXCEPT !.of = walk.of]
  /\ UNCHANGED <<call, pairingBounds>>

\* detachDevice: what it paired is handed to what paired it.
RemoveDetaches ==
  /\ Walking("detach")
  /\ device' = [d \in Paired |-> IF device[d].parent = walk.of
                                   THEN [device[d] EXCEPT !.parent = device[walk.of].parent] ELSE device[d]]
  /\ walk' = [walk EXCEPT !.step = "delete"]
  /\ UNCHANGED <<invite, call, pairingBounds>>

\* References to the record are cleared with it.
RemoveDeletes ==
  /\ Walking("delete")
  /\ \A i \in Invites : invite[i].parent = walk.of => ~Claiming(i)
  /\ device' = Handed(walk.of, Nobodys)
  /\ invite' = [i \in Invites |-> IF invite[i].parent = walk.of THEN [invite[i] EXCEPT !.parent = Nobodys]
                                  ELSE invite[i]]
  /\ walk' = NoWalk
  /\ UNCHANGED <<call, pairingBounds>>

\* The database or the process fails: a transaction leaves nothing, a
\* removal what it has done so far.
WalkFails ==
  /\ ~Walking("none") /\ walk' = NoWalk
  /\ UNCHANGED <<device, invite, call, pairingBounds>>

\* removeRevokedDevices: what a revoked device paired is handed to the
\* nearest that stays.
RevokedRemoved ==
  /\ \E d \in Paired : device[d].is = "revoked"
  /\ LET stays[d \in 0..MaxDevices] ==
           IF d = Nobodys \/ device[d].is # "revoked" THEN d ELSE stays[device[d].parent] IN
       /\ device' = [d \in Paired |-> IF device[d].is = "revoked" THEN [NoDevice EXCEPT !.is = "removed"]
                                      ELSE [device[d] EXCEPT !.parent = stays[@]]]
       /\ invite' = [i \in Invites |-> IF invite[i].parent # stays[invite[i].parent]
                                         THEN [invite[i] EXCEPT !.parent = Nobodys] ELSE invite[i]]
       /\ Noted({d \in Paired : device[d].parent # stays[device[d].parent]})
  /\ \A d \in Paired : device'[d] # device[d] => ~Revoking(d)
  /\ \A i \in Invites : invite'[i] # invite[i] => ~Claiming(i) /\ ~Expiring(i)
  /\ UNCHANGED <<call, pairingBounds>>

PairingNext ==
  \/ \E c \in Callers :
       \/ InviteAsked(c) \/ InviteMade(c) \/ WatchAsked(c) \/ WatchJoined(c)
       \/ ClaimAsked(c) \/ ClaimTakes(c) \/ ClaimJoins(c) \/ ClaimFails(c)
  \/ \E i \in Invites : InviteCancelled(i)
  \/ \E d \in Paired : RevokeBegins(d) \/ RemoveBegins(d)
  \/ WalkInvites \/ WalkFinds \/ WalkMarks \/ RevokeCommits \/ RemoveDetaches \/ RemoveDeletes \/ WalkFails
  \/ RevokedRemoved

PairingSpec == PairingInit /\ [][PairingNext]_pairingVars

----------------------------------------------------------------------------
(* Properties                                                              *)

\* An invite admits one device, however many claim it at once and whoever
\* cancels it or is revoked meanwhile; and none once it is over.
OneJoinsAnInvite ==
  \A d \in Paired : device[d].by # 0 =>
    /\ invite[device[d].by].is = "claimed"
    /\ \A e \in Paired : device[e].by = device[d].by => e = d

Under(d, top) ==
  LET under[e \in 0..MaxDevices] == e # Nobodys /\ (device[e].parent = top \/ under[device[e].parent]) IN under[d]

\* A revocation that has gone through has found every device that was paired
\* from the device, from one of those, and so on, through records revoked
\* before, though invites are claimed while it looks; but for a Watch, a
\* re-paired phone, or the answer to an invite made, that came in only
\* meanwhile, what was handed on meanwhile, and what is under those.
RevocationReaches ==
  Walking("commit") \/ Walking("detach") =>
    \A d \in Paired : device[d].signedIn /\ Under(d, walk.of) =>
      d \in walk.marked \cup walk.late \/ \E l \in walk.late : Under(d, l)

\* Nothing paired from a device outlives a revocation of the device that has
\* gone through, but for a phone that took another's place there.
NothingOutlives ==
  Walking("none") /\ walk.of # Nobodys =>
    \A d \in Paired : device[d].signedIn /\ device[d].parent = walk.of => device[d].again
=============================================================================
