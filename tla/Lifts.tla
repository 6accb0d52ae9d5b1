------------------------------- MODULE Lifts -------------------------------
(***************************************************************************)
(* One rule, always on, of several groups: switching it, editing it, and   *)
(* lifting it for everyone or for one group (src/src/server/rule-lifts.ts);*)
(* a group's own block and unblock (group-internet.ts, group-unblock.ts);  *)
(* and the passes that end what is over and plan the gateway's policies    *)
(* from the rest (reconciliation.ts, unifi/plan-rules.ts).                 *)
(*                                                                         *)
(* A lift is a row of the database: the rule's own, a group's link to the  *)
(* rule, or a group's block, which is a hidden rule with an end.  What a   *)
(* pass plans reaches the gateway at once: PolicySync has what fails there.*)
(* Other rules of the group, and windows, are left out.                    *)
(***************************************************************************)
EXTENDS Naturals, FiniteSets

CONSTANTS
  Groups,       \* the groups the rule covers
  Asked,        \* those people lift or block
  Devices, Zones,
  Nowhere,      \* the group of a quarantined device
  Requests,     \* requests at once
  MaxAsks,      \* bound: requests, and devices that are given to another group
  MaxHour       \* bound: the clock

ASSUME LiftsAssumption ==
  /\ Asked \subseteq Groups /\ Nowhere \notin Groups
  /\ MaxAsks \in Nat /\ MaxHour \in Nat

VARIABLES
  hour,         \* the clock
  ruleOn,       \* the rule's switch
  lift,         \* each lift
  member, zone, \* each device's group, and its zone
  ask,          \* what each request is doing
  passAt,       \* the time the running pass read as it began
  offline,      \* the devices the gateway's policies block
  asks          \* how much of the bound is used up

liftVars == <<hour, ruleOn, lift, member, zone, ask, passAt, offline, asks>>

NoEnd == 2 * MaxHour + 2
Untils  == 1..NoEnd
Lifts == [active : BOOLEAN, until : Untils, kind : {"pause", "allow"}]

Rule     == <<"rule">>
Link(g)  == <<"link", g>>
Block(g) == <<"block", g>>
Links    == {Link(g) : g \in Groups}
GroupBlocks == {Block(g) : g \in Groups}
Rows     == {Rule} \cup Links \cup GroupBlocks

NotLifted == [active |-> FALSE, until |-> NoEnd, kind |-> "pause"]
NoAsk   == [step |-> "none", row |-> Rule, to |-> NotLifted, other |-> Rule, matched |-> FALSE, want |-> FALSE]
NoPass  == MaxHour + 1

LiftsInit ==
  /\ hour = 0 /\ ruleOn = TRUE
  /\ lift = [row \in Rows |-> NotLifted]
  /\ member \in [Devices -> Groups] /\ zone \in [Devices -> Zones]
  /\ ask = [r \in Requests |-> NoAsk]
  /\ passAt = NoPass /\ offline = Devices /\ asks = 0

\* isSuspended.
Lifted(row, t) == lift[row].active /\ t < lift[row].until

----------------------------------------------------------------------------
(* What the household wants                                                *)

In(groups, z) == {d \in Devices : member[d] \in groups /\ zone[d] = z}

\* A policy keeps the devices of every group as long as it is on.
RulePoliciesWhole(t) ==
  {[of |-> Rule, zone |-> z, macs |-> In(Groups, z), on |-> ruleOn /\ ~Lifted(Rule, t)] :
     z \in {z \in Zones : In(Groups, z) # {}}}

\* planRulePolicies of the rule: the groups it is lifted for leave each
\* zone's policy, unless that leaves no one.
RulePolicies(t) ==
  LET live(z) == In({g \in Groups : ~Lifted(Link(g), t)}, z) IN
  {[of |-> Rule, zone |-> z, macs |-> IF live(z) = {} THEN In(Groups, z) ELSE live(z),
    on |-> ruleOn /\ ~Lifted(Rule, t) /\ live(z) # {}] :
     z \in {z \in Zones : In(Groups, z) # {}}}

\* And of the groups' blocks, which have policies only while they are on.
BlockPolicies ==
  {[of |-> Block(p[1]), zone |-> p[2], macs |-> In({p[1]}, p[2]), on |-> TRUE] :
     p \in {q \in Groups \X Zones : lift[Block(q[1])].active /\ In({q[1]}, q[2]) # {}}}

Plan(t) == RulePolicies(t) \cup BlockPolicies

Blocks(policies, d) == \E p \in policies : p.on /\ d \in p.macs

\* A device is to be offline while its group is blocked, or the rule is on
\* and not lifted.
Wanted(d) ==
  /\ member[d] # Nowhere
  /\ \/ Lifted(Block(member[d]), hour)
     \/ ruleOn /\ ~Lifted(Rule, hour) /\ ~Lifted(Link(member[d]), hour)

----------------------------------------------------------------------------
(* Requests                                                                *)

Asks(r) == ask[r].step = "none" /\ asks < MaxAsks /\ asks' = asks + 1

\* A transaction's writes are locked until it commits.
Locked(row) ==
  \E r \in Requests : /\ ask[r].step \in {"second", "commit"}
                      /\ row = ask[r].row \/ (ask[r].matched /\ row = ask[r].other)

Granted(kind, end) == [active |-> TRUE, until |-> end, kind |-> kind]

\* runLift: a pause or an allowance of a rule that is on, until later or
\* until ended.
LiftAsked(r) ==
  /\ Asks(r) /\ ruleOn
  /\ \E row \in {Rule} \cup {Link(g) : g \in Asked}, kind \in {"pause", "allow"},
        end \in (hour + 1)..MaxHour \cup {NoEnd} :
       ask' = [ask EXCEPT ![r] = [NoAsk EXCEPT !.step = "write", !.row = row, !.to = Granted(kind, end)]]
  /\ UNCHANGED <<hour, ruleOn, lift, member, zone, passAt, offline>>

\* runLift: resume and disallow end a lift of their kind; so does the end of
\* an unblock, and the resume of a group's block.
EndAsked(r) ==
  /\ Asks(r)
  /\ \E row \in Rows :
       /\ lift[row].active
       /\ ask' = [ask EXCEPT ![r] = [NoAsk EXCEPT !.step = "write", !.row = row]]
  /\ UNCHANGED <<hour, ruleOn, lift, member, zone, passAt, offline>>

\* extendSuspensionUntil, by the shortest time.
Extended(row) == (IF lift[row].until > hour THEN lift[row].until ELSE hour) + 1

\* A pause of the rule, a group's block and an unblock can be extended, if
\* they have an end.
ExtendAsked(r) ==
  /\ Asks(r)
  /\ \E row \in Rows :
       /\ lift[row].active /\ lift[row].until <= MaxHour
       /\ \/ row \notin GroupBlocks /\ ruleOn /\ lift[row].kind = "pause"
          \/ row \in GroupBlocks /\ Lifted(row, hour)
          \/ row \in Links /\ lift[row].kind = "allow" /\ Lifted(row, hour)
       /\ ask' = [ask EXCEPT ![r] = [NoAsk EXCEPT !.step = "extend", !.row = row,
                                                  !.to = [lift[row] EXCEPT !.until = Extended(row)]]]
  /\ UNCHANGED <<hour, ruleOn, lift, member, zone, passAt, offline>>

\* The lift is written as it was read, with its new end.
ExtendsAll(r) ==
  /\ ask[r].step = "extend" /\ ~Locked(ask[r].row)
  /\ lift' = [lift EXCEPT ![ask[r].row] = ask[r].to]
  /\ ask' = [ask EXCEPT ![r] = NoAsk]
  /\ UNCHANGED <<hour, ruleOn, member, zone, passAt, offline, asks>>

\* The end alone is written, whatever has become of the lift.
Extends(r) ==
  /\ ask[r].step = "extend" /\ ~Locked(ask[r].row)
  /\ lift' = [lift EXCEPT ![ask[r].row].until = ask[r].to.until]
  /\ ask' = [ask EXCEPT ![r] = NoAsk]
  /\ UNCHANGED <<hour, ruleOn, member, zone, passAt, offline, asks>>

\* The write does not ask again whether the rule is on, or the lift the same.
Writes(r) ==
  /\ ask[r].step = "write" /\ ~Locked(ask[r].row)
  /\ lift' = [lift EXCEPT ![ask[r].row] = ask[r].to]
  /\ ask' = [ask EXCEPT ![r] = NoAsk]
  /\ UNCHANGED <<hour, ruleOn, member, zone, passAt, offline, asks>>

\* Off: one write. On: another.
TurnedOff ==
  /\ ruleOn /\ asks < MaxAsks /\ ~Locked(Rule)
  /\ ruleOn' = FALSE /\ lift' = [lift EXCEPT ![Rule] = NotLifted] /\ asks' = asks + 1
  /\ UNCHANGED <<hour, member, zone, ask, passAt, offline>>

TurnedOn ==
  /\ ~ruleOn /\ asks < MaxAsks
  /\ ruleOn' = TRUE /\ asks' = asks + 1
  /\ UNCHANGED <<hour, lift, member, zone, ask, passAt, offline>>

\* An edit reads the rule, and writes all of it: what its patch leaves out,
\* the switch perhaps, as it was.
EditAsked(r) ==
  /\ Asks(r)
  /\ \E on \in BOOLEAN :
       ask' = [ask EXCEPT ![r] = [NoAsk EXCEPT !.step = "save", !.want = on]]
  /\ UNCHANGED <<hour, ruleOn, lift, member, zone, passAt, offline>>

\* saveRule: off and paused never overlap.
EditSaved(r) ==
  /\ ask[r].step = "save" /\ ~Locked(Rule)
  /\ ruleOn' = ask[r].want
  /\ lift' = IF ask[r].want THEN lift ELSE [lift EXCEPT ![Rule] = NotLifted]
  /\ ask' = [ask EXCEPT ![r] = NoAsk]
  /\ UNCHANGED <<hour, member, zone, passAt, offline, asks>>

\* A transaction locks its first row.  A block is written first, then the
\* group's allowance is ended; an allowance first, if the rule is not lifted
\* as it is, then the block is ended.
BlockAsked(r) ==
  /\ Asks(r)
  /\ \E g \in Asked, end \in (hour + 1)..MaxHour \cup {NoEnd} :
       /\ ~Locked(Block(g))
       /\ ask' = [ask EXCEPT ![r] = [NoAsk EXCEPT !.step = "second", !.row = Block(g), !.other = Link(g),
                                                  !.to = Granted("pause", end)]]
  /\ UNCHANGED <<hour, ruleOn, lift, member, zone, passAt, offline>>

UnblockAsked(r) ==
  /\ Asks(r)
  /\ \E g \in Asked, end \in (hour + 1)..MaxHour \cup {NoEnd} :
       /\ ruleOn /\ ~Lifted(Rule, hour)
       /\ ~Lifted(Link(g), hour) \/ lift[Link(g)].kind = "allow"
       /\ ~Locked(Link(g))
       /\ ask' = [ask EXCEPT ![r] = [NoAsk EXCEPT !.step = "second", !.row = Link(g), !.other = Block(g),
                                                  !.to = Granted("allow", end)]]
  /\ UNCHANGED <<hour, ruleOn, lift, member, zone, passAt, offline>>

\* The second statement takes the row it finds to be ended, waiting for it
\* if another transaction has it.
Second(r) ==
  /\ ask[r].step = "second"
  /\ LET row == ask[r].other
         matched == lift[row].active /\ (row \in Links => lift[row].kind = "allow") IN
       /\ matched => ~Locked(row)
       /\ ask' = [ask EXCEPT ![r].step = "commit", ![r].matched = matched]
  /\ UNCHANGED <<hour, ruleOn, lift, member, zone, passAt, offline, asks>>

Commits(r) ==
  /\ ask[r].step = "commit"
  /\ lift' = [lift EXCEPT ![ask[r].row] = ask[r].to,
                          ![ask[r].other] = IF ask[r].matched THEN NotLifted ELSE @]
  /\ ask' = [ask EXCEPT ![r] = NoAsk]
  /\ UNCHANGED <<hour, ruleOn, member, zone, passAt, offline, asks>>

\* Two that wait for each other: the database ends one.
Aborts(r) ==
  /\ ask[r].step = "second" /\ Locked(ask[r].other)
  /\ ask' = [ask EXCEPT ![r] = NoAsk]
  /\ UNCHANGED <<hour, ruleOn, lift, member, zone, passAt, offline, asks>>

\* A device is given to another group, or to none.
Assigned(d) ==
  /\ asks < MaxAsks /\ asks' = asks + 1
  /\ \E g \in (Groups \cup {Nowhere}) \ {member[d]} : member' = [member EXCEPT ![d] = g]
  /\ UNCHANGED <<hour, ruleOn, lift, zone, ask, passAt, offline>>

----------------------------------------------------------------------------
(* Passes                                                                  *)

Over(row, t) == lift[row].active /\ lift[row].until <= t

\* Lifts of rules and groups are ended that are over, and no blocks.
PassEndsLifts ==
  /\ passAt = NoPass /\ passAt' = hour
  /\ \A row \in Rows : Over(row, hour) => ~Locked(row)
  /\ lift' = [row \in Rows |-> IF Over(row, hour) /\ row \notin GroupBlocks
                                 THEN [lift[row] EXCEPT !.active = FALSE, !.until = NoEnd] ELSE lift[row]]
  /\ UNCHANGED <<hour, ruleOn, member, zone, ask, offline, asks>>

\* A pass first ends the lifts that are over.
PassBegan ==
  /\ passAt = NoPass /\ passAt' = hour
  /\ \A row \in Rows : Over(row, hour) => ~Locked(row)
  /\ lift' = [row \in Rows |-> IF Over(row, hour)
                                 THEN [lift[row] EXCEPT !.active = FALSE, !.until = NoEnd] ELSE lift[row]]
  /\ UNCHANGED <<hour, ruleOn, member, zone, ask, offline, asks>>

\* It then has the gateway do what it finds, at the time it began.
PassEnded ==
  /\ passAt # NoPass /\ passAt' = NoPass
  /\ offline' = {d \in Devices : Blocks(Plan(passAt), d)}
  /\ UNCHANGED <<hour, ruleOn, lift, member, zone, ask, asks>>

Clock ==
  /\ hour < MaxHour /\ hour' = hour + 1
  /\ UNCHANGED <<ruleOn, lift, member, zone, ask, passAt, offline, asks>>

LiftsNext ==
  \/ \E r \in Requests :
       \/ LiftAsked(r) \/ EndAsked(r) \/ ExtendAsked(r) \/ Extends(r) \/ Writes(r)
       \/ EditAsked(r) \/ EditSaved(r)
       \/ BlockAsked(r) \/ UnblockAsked(r) \/ Second(r) \/ Commits(r) \/ Aborts(r)
  \/ TurnedOff \/ TurnedOn
  \/ \E d \in Devices : Assigned(d)
  \/ PassBegan \/ PassEnded
  \/ Clock

Answered(r) == Extends(r) \/ Writes(r) \/ EditSaved(r) \/ Second(r) \/ Commits(r) \/ Aborts(r)

\* A pass is asked for every half minute, and a request is answered.
LiftsFairness ==
  /\ WF_liftVars(PassBegan \/ PassEnded)
  /\ \A r \in Requests : WF_liftVars(Answered(r))

LiftsSpec == LiftsInit /\ [][LiftsNext]_liftVars /\ LiftsFairness

LiftsTypeOK ==
  /\ hour \in 0..MaxHour /\ ruleOn \in BOOLEAN
  /\ lift \in [Rows -> Lifts]
  /\ member \in [Devices -> Groups \cup {Nowhere}] /\ zone \in [Devices -> Zones]
  /\ ask \in [Requests -> [step : {"none", "write", "extend", "save", "second", "commit"}, row : Rows,
                           to : Lifts, other : Rows, matched : BOOLEAN, want : BOOLEAN]]
  /\ passAt \in 0..NoPass /\ offline \subseteq Devices /\ asks \in 0..MaxAsks

----------------------------------------------------------------------------
(* Properties                                                              *)

\* What a pass would plan now keeps offline exactly the devices that are to
\* be: one whose group the rule is lifted for is in no enabled policy, though
\* a policy left with no one keeps its devices; one that shares its zone with
\* it stays blocked.  Blocks that are over wait for the next pass to end them.
PlanIsWanted ==
  \A d \in Devices :
    (member[d] # Nowhere => ~Over(Block(member[d]), hour))
      => (Blocks(Plan(hour), d) <=> Wanted(d))

\* A lift that was ended comes back only with a new one: an extension that
\* was on its way when it ended moves its end, and no more.
EndedStaysEnded ==
  [][\A row \in Rows :
       ~lift[row].active /\ lift'[row].active
         => \E r \in Requests : ask[r].step \in {"write", "commit"} /\ ask[r].row = row
                                  /\ ask'[r].step = "none"]_liftVars

\* Once everyone is done and the clock is still, the gateway keeps offline
\* exactly the devices that are to be: a lift or a block that is over is
\* noticed, whoever extended or ended it last.
ComesToBeWanted ==
  \A d \in Devices :
    /\ <>[]Wanted(d) => <>[](d \in offline)
    /\ <>[]~Wanted(d) => <>[](d \notin offline)
=============================================================================
