---------------------------- MODULE HouseholdProofs ---------------------------
(*****************************************************************************)
(* Four parts of the household's: what lifts a rule, what its resolver does, *)
(* which devices it is paired with, and what its windows are said to do.     *)
(*                                                                           *)
(* Lifts, for any groups, devices, zones, requests at once and hours: its    *)
(* types, that what a pass plans keeps offline exactly the devices that are  *)
(* to be, and that a lift that was ended stays ended until it is asked for   *)
(* again.                                                                    *)
(*                                                                           *)
(* UpstreamChecks, for any categories, endpoints, sweeps, checks and         *)
(* changes: its types, and that a result that is kept was measured with the  *)
(* resolver its scope has.                                                   *)
(*                                                                           *)
(* Pairing, for any callers, devices and invites, whoever revokes or removes *)
(* devices meanwhile: an invite admits one device, and a revocation reaches  *)
(* whatever was paired under the device.  The first invariant is about who   *)
(* holds an invite's row: one claim, or the revocation that ends it, and no  *)
(* one once it is claimed.  The second is about what a search has been       *)
(* through; that it is a search of a tree is shown of sets of devices, and   *)
(* of a chain of parents by the first device it would fail for.              *)
(*                                                                           *)
(* Windows, for any windows, any length of a week and of a day, and as long  *)
(* as time goes on: what a client tells and draws of them is so.  A time is a*)
(* minute of a day, an occurrence begins on one day and ends on it or the    *)
(* next, and each answer is compared with the occurrences in those terms.    *)
(*****************************************************************************)
EXTENDS UpstreamChecks, Lifts, Pairing, Windows, TLAPS, WellFoundedInduction

----------------------------------------------------------------------------
(* LIFTS                                                                   *)

AskSteps == {"none", "write", "extend", "save", "second", "commit"}
Askings  == [step : AskSteps, row : Rows, to : Lifts, other : Rows, matched : BOOLEAN, want : BOOLEAN]

----------------------------------------------------------------------------
(* Rows and lifts                                                          *)

\* What is a row, of the rule, of a group that is asked for and of others.
LEMMA RowsOfGroups ==
  /\ Rule \in Rows
  /\ \A g \in Groups : Link(g) \in Rows /\ Block(g) \in Rows
  /\ \A g \in Asked : g \in Groups
  /\ Links \subseteq Rows /\ GroupBlocks \subseteq Rows
BY LiftsAssumption DEF Rows, Links, GroupBlocks

\* The end that never comes is after every hour, and an end.
LEMMA NoEndIsLast == MaxHour \in Nat /\ NoEnd \in Nat /\ NoEnd \in Untils /\ MaxHour + 1 <= NoEnd
BY LiftsAssumption, SMT DEF NoEnd, Untils

\* No lift and no request are a lift and a request.
LEMMA Nothings == NotLifted \in Lifts /\ ~NotLifted.active /\ NoAsk \in Askings /\ NoAsk.step = "none"
BY NoEndIsLast, RowsOfGroups DEF NotLifted, NoAsk, Lifts, Askings, AskSteps

\* A lift that is granted is one.
LEMMA GrantedIsLift ==
  ASSUME NEW kind \in {"pause", "allow"}, hour \in 0..MaxHour, NEW end \in (hour + 1)..MaxHour \cup {NoEnd}
  PROVE  Granted(kind, end) \in Lifts
<1>1. end \in Untils
  BY NoEndIsLast, SMT DEF Untils
<1> QED BY <1>1 DEF Granted, Lifts

\* So is one with another end, which is on if it was.
LEMMA EndChanged ==
  ASSUME NEW l \in Lifts, NEW u \in Untils
  PROVE  /\ [l EXCEPT !.until = u] \in Lifts
         /\ [l EXCEPT !.until = u].active = l.active
BY DEF Lifts

\* So is one that a pass ends.
LEMMA LiftEnded ==
  ASSUME NEW l \in Lifts
  PROVE  /\ [l EXCEPT !.active = FALSE, !.until = NoEnd] \in Lifts
         /\ ~[l EXCEPT !.active = FALSE, !.until = NoEnd].active
BY NoEndIsLast DEF Lifts

\* An extension has an end.
LEMMA ExtendedIsUntil ==
  ASSUME LiftsTypeOK, NEW row \in Rows, lift[row].until <= MaxHour
  PROVE  Extended(row) \in Untils
<1>1. lift[row].until \in Untils /\ hour \in 0..MaxHour
  BY DEF LiftsTypeOK, Lifts
<1> QED BY <1>1, NoEndIsLast, SMT DEF Extended, Untils

\* A request that is asked for takes its place among the others.
LEMMA AskChanged ==
  ASSUME LiftsTypeOK, NEW r \in Requests, NEW a \in Askings
  PROVE  [ask EXCEPT ![r] = a] \in [Requests -> Askings]
BY DEF LiftsTypeOK, Askings, AskSteps

----------------------------------------------------------------------------
(* Types                                                                   *)

\* The program starts in the types of its state.
LEMMA InitType == LiftsInit => LiftsTypeOK
<1> SUFFICES ASSUME LiftsInit PROVE LiftsTypeOK
  OBVIOUS
<1>1. hour \in 0..MaxHour /\ passAt \in 0..NoPass /\ asks \in 0..MaxAsks
  BY LiftsAssumption, SMT DEF LiftsInit, NoPass
<1>2. lift \in [Rows -> Lifts] /\ ask \in [Requests -> Askings]
  BY Nothings DEF LiftsInit
<1>3. member \in [Devices -> Groups \cup {Nowhere}]
  BY DEF LiftsInit
<1> QED BY <1>1, <1>2, <1>3 DEF LiftsInit, LiftsTypeOK, Askings, AskSteps

\* Every step of a request keeps the types.
LEMMA RequestType ==
  ASSUME LiftsTypeOK, NEW r \in Requests,
         \/ LiftAsked(r) \/ EndAsked(r) \/ ExtendAsked(r) \/ Extends(r) \/ Writes(r)
         \/ EditAsked(r) \/ EditSaved(r)
         \/ BlockAsked(r) \/ UnblockAsked(r) \/ Second(r) \/ Commits(r) \/ Aborts(r)
  PROVE  LiftsTypeOK'
<1> DEFINE Request(a) == a \in Askings /\ ask' = [ask EXCEPT ![r] = a]
<1>0. /\ ask \in [Requests -> Askings] /\ ask[r] \in Askings
      /\ ask[r].row \in Rows /\ ask[r].other \in Rows /\ ask[r].to \in Lifts /\ ask[r].want \in BOOLEAN
      /\ ask[r].to.until \in Untils /\ lift \in [Rows -> Lifts]
  BY DEF LiftsTypeOK, Askings, AskSteps, Lifts
<1>asks. Asks(r) => asks' \in 0..MaxAsks
  BY LiftsAssumption, SMT DEF Asks, LiftsTypeOK
<1>asked. ASSUME NEW a \in Askings, ask' = [ask EXCEPT ![r] = a], Asks(r),
                 UNCHANGED <<hour, ruleOn, lift, member, zone, passAt, offline>>
          PROVE  LiftsTypeOK'
  BY <1>asked, <1>asks, AskChanged DEF LiftsTypeOK, Askings, AskSteps, NoPass
<1>done. ASSUME NEW l, l \in [Rows -> Lifts], lift' = l, NEW a \in Askings, ask' = [ask EXCEPT ![r] = a],
                ruleOn' \in BOOLEAN, UNCHANGED <<hour, member, zone, passAt, offline, asks>>
         PROVE  LiftsTypeOK'
  BY <1>done, AskChanged DEF LiftsTypeOK, Askings, AskSteps, NoPass
<1>1. CASE LiftAsked(r)
  <2>1. PICK row \in {Rule} \cup {Link(g) : g \in Asked}, kind \in {"pause", "allow"},
            end \in (hour + 1)..MaxHour \cup {NoEnd} :
          ask' = [ask EXCEPT ![r] = [NoAsk EXCEPT !.step = "write", !.row = row, !.to = Granted(kind, end)]]
    BY <1>1 DEF LiftAsked
  <2>2. row \in Rows /\ Granted(kind, end) \in Lifts
    BY GrantedIsLift, RowsOfGroups DEF LiftsTypeOK
  <2>3. [NoAsk EXCEPT !.step = "write", !.row = row, !.to = Granted(kind, end)] \in Askings
    BY <2>2, Nothings DEF Askings, AskSteps
  <2> QED BY <1>1, <1>asked, <2>1, <2>3 DEF LiftAsked
<1>2. CASE EndAsked(r)
  <2>1. PICK row \in Rows : ask' = [ask EXCEPT ![r] = [NoAsk EXCEPT !.step = "write", !.row = row]]
    BY <1>2 DEF EndAsked
  <2>2. [NoAsk EXCEPT !.step = "write", !.row = row] \in Askings
    BY Nothings DEF Askings, AskSteps
  <2> QED BY <1>2, <1>asked, <2>1, <2>2 DEF EndAsked
<1>3. CASE ExtendAsked(r)
  <2>1. PICK row \in Rows :
          /\ lift[row].until <= MaxHour
          /\ ask' = [ask EXCEPT ![r] = [NoAsk EXCEPT !.step = "extend", !.row = row,
                                                     !.to = [lift[row] EXCEPT !.until = Extended(row)]]]
    BY <1>3 DEF ExtendAsked
  <2>2. [lift[row] EXCEPT !.until = Extended(row)] \in Lifts
    BY <1>0, <2>1, ExtendedIsUntil, EndChanged
  <2>3. [NoAsk EXCEPT !.step = "extend", !.row = row,
                      !.to = [lift[row] EXCEPT !.until = Extended(row)]] \in Askings
    BY <2>2, Nothings DEF Askings, AskSteps
  <2> QED BY <1>3, <1>asked, <2>1, <2>3 DEF ExtendAsked
<1>4. CASE Extends(r)
  <2>1. [lift EXCEPT ![ask[r].row].until = ask[r].to.until] \in [Rows -> Lifts]
    BY <1>0, EndChanged
  <2> QED BY <1>4, <1>done, <2>1, Nothings DEF Extends, LiftsTypeOK
<1>5. CASE Writes(r)
  <2>1. [lift EXCEPT ![ask[r].row] = ask[r].to] \in [Rows -> Lifts]
    BY <1>0
  <2> QED BY <1>5, <1>done, <2>1, Nothings DEF Writes, LiftsTypeOK
<1>6. CASE EditAsked(r)
  <2>1. PICK on \in BOOLEAN : ask' = [ask EXCEPT ![r] = [NoAsk EXCEPT !.step = "save", !.want = on]]
    BY <1>6 DEF EditAsked
  <2>2. [NoAsk EXCEPT !.step = "save", !.want = on] \in Askings
    BY Nothings DEF Askings, AskSteps
  <2> QED BY <1>6, <1>asked, <2>1, <2>2 DEF EditAsked
<1>7. CASE EditSaved(r)
  <2>1. lift' \in [Rows -> Lifts]
    BY <1>0, <1>7, Nothings DEF EditSaved
  <2> QED BY <1>0, <1>7, <1>done, <2>1, Nothings DEF EditSaved
<1>8. CASE BlockAsked(r)
  <2>1. PICK g \in Asked, end \in (hour + 1)..MaxHour \cup {NoEnd} :
          ask' = [ask EXCEPT ![r] = [NoAsk EXCEPT !.step = "second", !.row = Block(g), !.other = Link(g),
                                                  !.to = Granted("pause", end)]]
    BY <1>8 DEF BlockAsked
  <2>2. Block(g) \in Rows /\ Link(g) \in Rows /\ Granted("pause", end) \in Lifts
    BY GrantedIsLift, RowsOfGroups DEF LiftsTypeOK
  <2>3. [NoAsk EXCEPT !.step = "second", !.row = Block(g), !.other = Link(g),
                      !.to = Granted("pause", end)] \in Askings
    BY <2>2, Nothings DEF Askings, AskSteps
  <2> QED BY <1>8, <1>asked, <2>1, <2>3 DEF BlockAsked
<1>9. CASE UnblockAsked(r)
  <2>1. PICK g \in Asked, end \in (hour + 1)..MaxHour \cup {NoEnd} :
          ask' = [ask EXCEPT ![r] = [NoAsk EXCEPT !.step = "second", !.row = Link(g), !.other = Block(g),
                                                  !.to = Granted("allow", end)]]
    BY <1>9 DEF UnblockAsked
  <2>2. Block(g) \in Rows /\ Link(g) \in Rows /\ Granted("allow", end) \in Lifts
    BY GrantedIsLift, RowsOfGroups DEF LiftsTypeOK
  <2>3. [NoAsk EXCEPT !.step = "second", !.row = Link(g), !.other = Block(g),
                      !.to = Granted("allow", end)] \in Askings
    BY <2>2, Nothings DEF Askings, AskSteps
  <2> QED BY <1>9, <1>asked, <2>1, <2>3 DEF UnblockAsked
<1>10. CASE Second(r)
  <2> DEFINE matched == lift[ask[r].other].active
                        /\ (ask[r].other \in Links => lift[ask[r].other].kind = "allow")
  <2>1. matched \in BOOLEAN
    OBVIOUS
  <2>2. ask' = [ask EXCEPT ![r].step = "commit", ![r].matched = matched]
    BY <1>10 DEF Second
  <2> HIDE DEF matched
  <2>3. ask' \in [Requests -> Askings]
    BY <1>0, <2>1, <2>2 DEF Askings, AskSteps
  <2> QED BY <1>10, <2>3 DEF Second, LiftsTypeOK, Askings, AskSteps, NoPass
<1>11. CASE Commits(r)
  <2>1. lift' \in [Rows -> Lifts]
    BY <1>0, <1>11, Nothings DEF Commits
  <2> QED BY <1>11, <1>done, <2>1, Nothings DEF Commits, LiftsTypeOK
<1>12. CASE Aborts(r)
  BY <1>0, <1>12, <1>done, Nothings DEF Aborts, LiftsTypeOK
<1> QED BY <1>1, <1>2, <1>3, <1>4, <1>5, <1>6, <1>7, <1>8, <1>9, <1>10, <1>11, <1>12

\* So does every other step.
LEMMA OtherType ==
  ASSUME LiftsTypeOK,
         \/ TurnedOff \/ TurnedOn \/ (\E d \in Devices : Assigned(d)) \/ PassBegan \/ PassEnded \/ Clock
         \/ UNCHANGED liftVars
  PROVE  LiftsTypeOK'
<1>0. Rule \in Rows /\ lift \in [Rows -> Lifts]
  BY RowsOfGroups DEF LiftsTypeOK
<1>1. CASE TurnedOff
  <2>1. lift' \in [Rows -> Lifts]
    BY <1>0, <1>1, Nothings DEF TurnedOff
  <2>2. asks' \in 0..MaxAsks
    BY <1>1, LiftsAssumption, SMT DEF TurnedOff, LiftsTypeOK
  <2> QED BY <1>1, <2>1, <2>2 DEF TurnedOff, LiftsTypeOK
<1>2. CASE TurnedOn
  <2>1. asks' \in 0..MaxAsks
    BY <1>2, LiftsAssumption, SMT DEF TurnedOn, LiftsTypeOK
  <2> QED BY <1>2, <2>1 DEF TurnedOn, LiftsTypeOK
<1>3. ASSUME NEW d \in Devices, Assigned(d) PROVE LiftsTypeOK'
  <2>1. asks' \in 0..MaxAsks
    BY <1>3, LiftsAssumption, SMT DEF Assigned, LiftsTypeOK
  <2>2. member' \in [Devices -> Groups \cup {Nowhere}]
    BY <1>3 DEF Assigned, LiftsTypeOK
  <2> QED BY <1>3, <2>1, <2>2 DEF Assigned, LiftsTypeOK
<1>4. CASE PassBegan
  <2>1. lift' \in [Rows -> Lifts]
    BY <1>0, <1>4, LiftEnded DEF PassBegan
  <2>2. passAt' = hour /\ hour \in 0..MaxHour
    BY <1>4 DEF PassBegan, LiftsTypeOK
  <2>3. passAt' \in 0..NoPass
    BY <2>2, LiftsAssumption, SMT DEF NoPass
  <2> QED BY <1>4, <2>1, <2>3 DEF PassBegan, LiftsTypeOK
<1>5. CASE PassEnded
  <2>1. passAt' \in 0..NoPass
    BY <1>5, LiftsAssumption, SMT DEF PassEnded, NoPass
  <2>2. offline' \subseteq Devices
    BY <1>5 DEF PassEnded
  <2> QED BY <1>5, <2>1, <2>2 DEF PassEnded, LiftsTypeOK
<1>6. CASE Clock
  <2>1. hour' \in 0..MaxHour
    BY <1>6, LiftsAssumption, SMT DEF Clock, LiftsTypeOK
  <2> QED BY <1>6, <2>1 DEF Clock, LiftsTypeOK
<1>7. CASE UNCHANGED liftVars
  BY <1>7 DEF liftVars, LiftsTypeOK, NoPass
<1> QED BY <1>1, <1>2, <1>3, <1>4, <1>5, <1>6, <1>7

\* Every step keeps the types.
LEMMA StepType == LiftsTypeOK /\ [LiftsNext]_liftVars => LiftsTypeOK'
<1> SUFFICES ASSUME LiftsTypeOK, [LiftsNext]_liftVars PROVE LiftsTypeOK'
  OBVIOUS
<1> QED BY RequestType, OtherType DEF LiftsNext

\* Every state of Lifts has the types it declares: lifts, requests and
\* passes, whatever people and the clock do.
THEOREM LiftsTypes == LiftsSpec => []LiftsTypeOK
<1> QED BY InitType, StepType, PTL DEF LiftsSpec

----------------------------------------------------------------------------
(* What a lift is ended by                                                 *)

\* A request's step starts a lift only as its answer, of the row it is for.
LEMMA StartedByAnswer ==
  ASSUME LiftsTypeOK, NEW r \in Requests, NEW row \in Rows,
         \/ LiftAsked(r) \/ EndAsked(r) \/ ExtendAsked(r) \/ Extends(r) \/ Writes(r)
         \/ EditAsked(r) \/ EditSaved(r)
         \/ BlockAsked(r) \/ UnblockAsked(r) \/ Second(r) \/ Commits(r) \/ Aborts(r),
         ~lift[row].active, lift'[row].active
  PROVE  ask[r].step \in {"write", "commit"} /\ ask[r].row = row /\ ask'[r].step = "none"
<1>0. /\ lift \in [Rows -> Lifts] /\ ask \in [Requests -> Askings]
      /\ ask[r].row \in Rows /\ ask[r].other \in Rows /\ ask[r].to.until \in Untils
  BY DEF LiftsTypeOK, Askings, AskSteps, Lifts
<1>1. ASSUME lift' = lift PROVE FALSE
  BY <1>1
<1>2. CASE Extends(r)
  <2>1. lift'[row] = IF row = ask[r].row THEN [lift[row] EXCEPT !.until = ask[r].to.until] ELSE lift[row]
    BY <1>0, <1>2 DEF Extends
  <2> QED BY <1>0, <2>1, EndChanged
<1>3. CASE Writes(r)
  <2>1. lift'[row] = IF row = ask[r].row THEN ask[r].to ELSE lift[row]
    BY <1>0, <1>3 DEF Writes
  <2>2. ask'[r] = NoAsk
    BY <1>0, <1>3 DEF Writes
  <2> QED BY <1>3, <2>1, <2>2, Nothings DEF Writes
<1>4. CASE EditSaved(r)
  <2>1. lift' = lift \/ lift' = [lift EXCEPT ![Rule] = NotLifted]
    BY <1>4 DEF EditSaved
  <2> QED BY <1>0, <2>1, Nothings
<1>5. CASE Commits(r)
  <2>1. (lift'[row] = ask[r].to /\ row = ask[r].row) \/ lift'[row] = NotLifted \/ lift'[row] = lift[row]
    BY <1>0, <1>5 DEF Commits
  <2>2. ask'[r] = NoAsk
    BY <1>0, <1>5 DEF Commits
  <2> QED BY <1>5, <2>1, <2>2, Nothings DEF Commits
<1> QED BY <1>1, <1>2, <1>3, <1>4, <1>5
      DEF LiftAsked, EndAsked, ExtendAsked, EditAsked, BlockAsked, UnblockAsked, Second, Aborts

\* No other step starts one.
LEMMA OthersStartNone ==
  ASSUME LiftsTypeOK, NEW row \in Rows,
         \/ TurnedOff \/ TurnedOn \/ (\E d \in Devices : Assigned(d)) \/ PassBegan \/ PassEnded \/ Clock
         \/ UNCHANGED liftVars,
         ~lift[row].active
  PROVE  ~lift'[row].active
<1>0. lift \in [Rows -> Lifts] /\ lift[row] \in Lifts
  BY DEF LiftsTypeOK
<1>1. CASE TurnedOff
  BY <1>0, <1>1, Nothings DEF TurnedOff
<1>2. CASE PassBegan
  <2>1. lift'[row] = IF Over(row, hour) THEN [lift[row] EXCEPT !.active = FALSE, !.until = NoEnd] ELSE lift[row]
    BY <1>2 DEF PassBegan
  <2> QED BY <1>0, <2>1, LiftEnded
<1>3. CASE UNCHANGED lift
  BY <1>3
<1> QED BY <1>1, <1>2, <1>3 DEF TurnedOn, Assigned, PassEnded, Clock, liftVars

\* A lift that was ended, by a person, by its end or with the rule, is started
\* again only by the answer to a request for it: one to extend it that was on
\* its way moves its end and no more (rule-lifts.ts, group-internet.ts).
THEOREM LiftsStayEnded == LiftsSpec => EndedStaysEnded
<1> DEFINE Started ==
      \A row \in Rows :
        ~lift[row].active /\ lift'[row].active
          => \E r \in Requests : ask[r].step \in {"write", "commit"} /\ ask[r].row = row
                                   /\ ask'[r].step = "none"
<1>1. LiftsTypeOK /\ [LiftsNext]_liftVars => Started
  BY StartedByAnswer, OthersStartNone DEF LiftsNext
<1>2. LiftsTypeOK /\ [LiftsNext]_liftVars => [Started]_liftVars
  BY <1>1
<1> QED BY <1>2, LiftsTypes, PTL DEF LiftsSpec, EndedStaysEnded

----------------------------------------------------------------------------
(* What a pass plans                                                       *)

\* The rule's policies block a device exactly if the rule is on and lifted
\* neither for everyone nor for the device's group.
LEMMA RuleBlocks ==
  ASSUME LiftsTypeOK, NEW d \in Devices
  PROVE  Blocks(RulePolicies(hour), d) <=>
           member[d] # Nowhere /\ ruleOn /\ ~Lifted(Rule, hour) /\ ~Lifted(Link(member[d]), hour)
<1> DEFINE Live(z) == In({g \in Groups : ~Lifted(Link(g), hour)}, z)
           Policy(z) == [of |-> Rule, zone |-> z, macs |-> IF Live(z) = {} THEN In(Groups, z) ELSE Live(z),
                         on |-> ruleOn /\ ~Lifted(Rule, hour) /\ Live(z) # {}]
<1>0. member[d] \in Groups \cup {Nowhere} /\ Nowhere \notin Groups /\ zone[d] \in Zones
  BY LiftsAssumption DEF LiftsTypeOK
<1>1. RulePolicies(hour) = {Policy(z) : z \in {z \in Zones : In(Groups, z) # {}}}
  BY DEF RulePolicies
<1>2. \A z : d \in Live(z) <=> member[d] \in Groups /\ ~Lifted(Link(member[d]), hour) /\ zone[d] = z
  BY DEF In
<1>3. \A z : Policy(z).on <=> ruleOn /\ ~Lifted(Rule, hour) /\ Live(z) # {}
  OBVIOUS
<1>4. \A z : Policy(z).on => Policy(z).macs = Live(z)
  OBVIOUS
<1>5. zone[d] \in {z \in Zones : In(Groups, z) # {}} \/ member[d] = Nowhere
  BY <1>0 DEF In
<1> HIDE DEF Policy, Live
<1>6. ASSUME Blocks(RulePolicies(hour), d)
      PROVE  member[d] # Nowhere /\ ruleOn /\ ~Lifted(Rule, hour) /\ ~Lifted(Link(member[d]), hour)
  BY <1>0, <1>1, <1>2, <1>3, <1>4, <1>6 DEF Blocks
<1>7. ASSUME member[d] # Nowhere, ruleOn, ~Lifted(Rule, hour), ~Lifted(Link(member[d]), hour)
      PROVE  Blocks(RulePolicies(hour), d)
  BY <1>0, <1>1, <1>2, <1>3, <1>4, <1>5, <1>7 DEF Blocks
<1> QED BY <1>6, <1>7

\* The groups' policies block a device exactly if its group's block is on.
LEMMA GroupBlocksDevice ==
  ASSUME LiftsTypeOK, NEW d \in Devices
  PROVE  Blocks(BlockPolicies, d) <=> member[d] # Nowhere /\ lift[Block(member[d])].active
<1> DEFINE On == {p \in Groups \X Zones : lift[Block(p[1])].active /\ In({p[1]}, p[2]) # {}}
           Policy(p) == [of |-> Block(p[1]), zone |-> p[2], macs |-> In({p[1]}, p[2]), on |-> TRUE]
<1>0. member[d] \in Groups \cup {Nowhere} /\ Nowhere \notin Groups /\ zone[d] \in Zones
  BY LiftsAssumption DEF LiftsTypeOK
<1>1. BlockPolicies = {Policy(p) : p \in On}
  BY DEF BlockPolicies
<1>2. \A p \in On : d \in Policy(p).macs => p[1] = member[d] /\ p[1] \in Groups /\ lift[Block(p[1])].active
  BY DEF In
<1>3. ASSUME Blocks(BlockPolicies, d) PROVE member[d] # Nowhere /\ lift[Block(member[d])].active
  BY <1>0, <1>1, <1>2, <1>3 DEF Blocks
<1>4. ASSUME member[d] # Nowhere, lift[Block(member[d])].active PROVE Blocks(BlockPolicies, d)
  <2> DEFINE p == <<member[d], zone[d]>>
  <2>1. p \in Groups \X Zones /\ p[1] = member[d] /\ p[2] = zone[d]
    BY <1>0, <1>4
  <2>2. d \in In({p[1]}, p[2])
    BY <2>1 DEF In
  <2>3. p \in On
    BY <1>4, <2>1, <2>2
  <2>4. Policy(p).on /\ d \in Policy(p).macs
    BY <2>2
  <2> QED BY <1>1, <2>3, <2>4 DEF Blocks
<1> QED BY <1>3, <1>4

\* In every state that has its types, what a pass would plan is what is wanted.
LEMMA PlanIsRight == LiftsTypeOK => PlanIsWanted
<1> SUFFICES ASSUME LiftsTypeOK, NEW d \in Devices,
                    member[d] # Nowhere => ~Over(Block(member[d]), hour)
             PROVE  Blocks(Plan(hour), d) <=> Wanted(d)
  BY DEF PlanIsWanted
<1>1. Blocks(Plan(hour), d) <=> Blocks(RulePolicies(hour), d) \/ Blocks(BlockPolicies, d)
  BY DEF Blocks, Plan
<1>2. member[d] # Nowhere => (lift[Block(member[d])].active <=> Lifted(Block(member[d]), hour))
  <2> SUFFICES ASSUME member[d] # Nowhere
               PROVE  lift[Block(member[d])].active <=> Lifted(Block(member[d]), hour)
    OBVIOUS
  <2>1. Block(member[d]) \in Rows
    BY RowsOfGroups DEF LiftsTypeOK
  <2>2. lift[Block(member[d])].until \in Nat /\ hour \in Nat
    BY <2>1, LiftsAssumption DEF LiftsTypeOK, Lifts, Untils
  <2>3. lift[Block(member[d])].until <= hour <=> ~(hour < lift[Block(member[d])].until)
    BY <2>2, SMT
  <2> QED BY <2>3 DEF Over, Lifted
<1> QED BY <1>1, <1>2, RuleBlocks, GroupBlocksDevice DEF Wanted

\* For any groups, zones and lifts, the policies a pass plans keep offline
\* exactly the devices that are to be: a lift for one group takes it out of
\* each zone's policy and leaves the others in it, and a policy that is left
\* with no one keeps its devices and is off (unifi/plan-rules.ts).
THEOREM PlanCorrect == LiftsSpec => []PlanIsWanted
<1> QED BY LiftsTypes, PlanIsRight, PTL

----------------------------------------------------------------------------
(* UPSTREAM CHECKS                                                         *)

\* What is saved for a scope with an endpoint of its own is that endpoint.
SnapshotOfUrl ==
  \A s \in Scopes : snapshot[s] # Unset /\ url[s] # NoEndpoint => snapshot[s] = <<"doh", url[s]>>

\* What a probe found is of the settings it read.
FoundOfRead ==
  \A p \in Probers : Doing(p, "apply") =>
    \A s \in Scopes : probes[p].read.url[s] # NoEndpoint
                        => probes[p].contexts[s] = <<"doh", probes[p].read.url[s]>>

\* A result that is kept was measured with what is saved for its scope.
ResultOfSnapshot ==
  \A c \in Categories, s \in Scopes : results[c][s] # Unset => results[c][s] = snapshot[s]

ResolverInv == UpstreamTypeOK /\ SnapshotOfUrl /\ FoundOfRead /\ ResultOfSnapshot

Found == Contexts \cup {Unset}

----------------------------------------------------------------------------
(* Probes and contexts                                                     *)

\* A probe at ease is a probe.
LEMMA EaseIsProbing == AtEase \in Probing /\ AtEase.step = "idle"
<1>1. Everywhere(NoEndpoint) \in [Scopes -> Endpoints \cup {NoEndpoint}]
      /\ Everywhere(Unset) \in [Scopes -> Contexts \cup {Unset}]
  BY DEF Everywhere
<1>2. [url |-> Everywhere(NoEndpoint), placed |-> FALSE] \in Identity
  BY <1>1 DEF Identity
<1> HIDE DEF Identity, Contexts, Everywhere
<1> QED BY <1>1, <1>2, SMT DEF AtEase, Probing, ProbeSteps

\* The settings that are read are settings.
LEMMA SettingsType == UpstreamTypeOK => Settings \in Identity /\ Settings.url = url
BY DEF Settings, Identity, UpstreamTypeOK

\* What is found for a scope is a context, and of the scope's endpoint if it
\* has one.
LEMMA ContextFound ==
  ASSUME UpstreamTypeOK, NEW s \in Scopes, NEW found \in {<<"dhcp", offered>>, Unknown}
  PROVE  /\ ContextOf(s, Settings, found) \in Contexts
         /\ url[s] # NoEndpoint => ContextOf(s, Settings, found) = <<"doh", url[s]>>
<1>1. /\ url["household"] \in Endpoints \cup {NoEndpoint} /\ url["group"] \in Endpoints \cup {NoEndpoint}
      /\ offered \in Nat /\ placed \in BOOLEAN /\ s \in {"household", "group"}
  BY DEF UpstreamTypeOK, Scopes
<1>2. Settings.url = url /\ Settings.placed = placed
  BY DEF Settings
<1>3. \A e \in Endpoints : <<"doh", e>> \in Contexts
  BY DEF Contexts
<1>4. <<"dhcp", offered>> \in Contexts /\ <<"dhcp", offered, placed>> \in Contexts /\ Unknown \in Contexts
  BY <1>1 DEF Contexts
<1>5. HouseholdContext(Settings, found) \in Contexts
      /\ (url["household"] # NoEndpoint => HouseholdContext(Settings, found) = <<"doh", url["household"]>>)
  BY <1>1, <1>2, <1>3, <1>4 DEF HouseholdContext
<1> QED BY <1>1, <1>2, <1>3, <1>4, <1>5 DEF ContextOf

\* A probe in another's place leaves the rest as they were.
LEMMA ProbeChanged ==
  ASSUME UpstreamTypeOK, NEW p \in Probers, NEW probe \in Probing, probes' = [probes EXCEPT ![p] = probe]
  PROVE  /\ probes' \in [Probers -> Probing] /\ probes'[p] = probe
         /\ \A q \in Probers : q # p => probes'[q] = probes[q]
<1> HIDE DEF Probing
<1> QED BY DEF UpstreamTypeOK

\* If it has found nothing that it is to save, what probes found stays of
\* what they read.
LEMMA FoundStays ==
  ASSUME UpstreamTypeOK, FoundOfRead, NEW p \in Probers, NEW probe \in Probing, probe.step # "apply",
         probes' = [probes EXCEPT ![p] = probe]
  PROVE  FoundOfRead'
<1> HIDE DEF Probing
<1> QED BY ProbeChanged DEF FoundOfRead, Doing

\* A probe is a record of these parts.
LEMMA ProbeParts ==
  ASSUME UpstreamTypeOK, NEW p \in Probers
  PROVE  /\ probes[p] \in Probing /\ probes[p].left \subseteq Categories /\ probes[p].category \subseteq Categories
         /\ probes[p].off \in BOOLEAN /\ probes[p].tries \in 0..2
         /\ probes[p].contexts \in [Scopes -> Found] /\ probes[p].targets \subseteq Scopes
BY DEF UpstreamTypeOK, Probing, Found

----------------------------------------------------------------------------
(* The invariant                                                           *)

\* Nothing is saved or kept at first.
LEMMA InitResolver == UpstreamInit => ResolverInv
<1> SUFFICES ASSUME UpstreamInit PROVE ResolverInv
  OBVIOUS
<1>1. UpstreamTypeOK
  <2>1. probes \in [Probers -> Probing]
    BY EaseIsProbing DEF UpstreamInit
  <2>2. snapshot \in [Scopes -> Contexts \cup {Unset}]
        /\ results \in [Categories -> [Scopes -> Contexts \cup {Unset}]]
    BY DEF UpstreamInit, Everywhere
  <2>3. changes \in 0..MaxChanges /\ offered \in Nat
    BY UpstreamAssumption, SMT DEF UpstreamInit
  <2>4. placed \in BOOLEAN /\ enabled \subseteq Categories
    BY DEF UpstreamInit
  <2> QED BY <2>1, <2>2, <2>3, <2>4 DEF UpstreamInit, UpstreamTypeOK
<1>2. SnapshotOfUrl /\ ResultOfSnapshot
  BY DEF UpstreamInit, SnapshotOfUrl, ResultOfSnapshot, Everywhere
<1>3. FoundOfRead
  BY EaseIsProbing DEF UpstreamInit, FoundOfRead, Doing
<1> QED BY <1>1, <1>2, <1>3 DEF ResolverInv

\* A step of a probe that saves and keeps nothing, and is not to save, keeps
\* the invariant.
LEMMA QuietStep ==
  ASSUME ResolverInv, NEW p \in Probers, NEW probe \in Probing, probe.step # "apply",
         probes' = [probes EXCEPT ![p] = probe], changes' \in 0..MaxChanges,
         UNCHANGED <<upstreamSettings, snapshot, results>>
  PROVE  ResolverInv'
<1>1. UpstreamTypeOK'
  BY ProbeChanged DEF ResolverInv, UpstreamTypeOK, upstreamSettings
<1>2. FoundOfRead'
  BY FoundStays DEF ResolverInv
<1>3. SnapshotOfUrl' /\ ResultOfSnapshot'
  BY DEF ResolverInv, SnapshotOfUrl, ResultOfSnapshot, upstreamSettings
<1> QED BY <1>1, <1>2, <1>3 DEF ResolverInv

\* The bound on changes is kept.
LEMMA ChangeCounts == UpstreamTypeOK /\ Change => changes' \in 0..MaxChanges
BY UpstreamAssumption, SMT DEF UpstreamTypeOK, Change

\* A probe that starts, or goes on to its next category, keeps it.
LEMMA StartsKeep ==
  ASSUME ResolverInv, NEW p \in Probers, Sweep(p) \/ CheckNow(p) \/ NextCategory(p)
  PROVE  ResolverInv'
<1>0. UpstreamTypeOK /\ changes \in 0..MaxChanges /\ url["household"] \in Endpoints \cup {NoEndpoint}
      /\ enabled \subseteq Categories
  BY DEF ResolverInv, UpstreamTypeOK, Scopes
<1>1. CASE Sweep(p)
  <2>1. [AtEase EXCEPT !.step = "next", !.left = enabled] \in Probing
        /\ [AtEase EXCEPT !.step = "next", !.left = enabled].step # "apply"
    BY <1>0, EaseIsProbing DEF Probing, ProbeSteps
  <2> QED BY <1>0, <1>1, <2>1, QuietStep DEF Sweep
<1>2. CASE CheckNow(p)
  <2>1. PICK c \in Categories : probes' = [probes EXCEPT ![p] = [AtEase EXCEPT !.step = "next", !.left = {c}]]
    BY <1>2 DEF CheckNow
  <2>2. [AtEase EXCEPT !.step = "next", !.left = {c}] \in Probing
        /\ [AtEase EXCEPT !.step = "next", !.left = {c}].step # "apply"
    BY EaseIsProbing DEF Probing, ProbeSteps
  <2> QED BY <1>0, <1>2, <2>1, <2>2, QuietStep, ChangeCounts DEF CheckNow
<1>3. CASE NextCategory(p)
  <2>1. PICK c \in probes[p].left :
          probes' = [probes EXCEPT ![p] = [AtEase EXCEPT
            !.step = "discover", !.left = probes[p].left \ {c}, !.category = {c}, !.endpoint = url["household"]]]
    BY <1>3 DEF NextCategory
  <2> DEFINE probe == [AtEase EXCEPT !.step = "discover", !.left = probes[p].left \ {c}, !.category = {c},
                                     !.endpoint = url["household"]]
  <2>0. probes[p].left \subseteq Categories
    BY <1>0, ProbeParts
  <2>2. probe \in Probing /\ probe.step # "apply"
    <3>1. probes[p].left \ {c} \subseteq Categories /\ {c} \subseteq Categories
      BY <2>0, <2>1
    <3> QED BY <1>0, <3>1, EaseIsProbing DEF Probing, ProbeSteps
  <2> HIDE DEF probe
  <2> QED BY <1>0, <1>3, <2>1, <2>2, QuietStep DEF NextCategory, probe
<1> QED BY <1>1, <1>2, <1>3

\* A page that reads the contexts keeps it.
LEMMA ReadKeeps == ASSUME ResolverInv, ReadPage PROVE ResolverInv'
<1>0. "reader" \in Probers /\ UpstreamTypeOK /\ changes' \in 0..MaxChanges
  BY DEF Probers, ResolverInv, UpstreamTypeOK, ReadPage
<1>1. [probes["reader"] EXCEPT !.step = "discover"] \in Probing
      /\ [probes["reader"] EXCEPT !.step = "discover"].step # "apply"
  BY <1>0, ProbeParts DEF Probing, ProbeSteps
<1>2. probes' = [probes EXCEPT !["reader"] = [probes["reader"] EXCEPT !.step = "discover"]]
  BY <1>0 DEF ReadPage, UpstreamTypeOK
<1> QED BY <1>0, <1>1, <1>2, QuietStep DEF ReadPage

\* A discovery is of the settings it read, and keeps it.
LEMMA DiscoverKeeps ==
  ASSUME ResolverInv, NEW p \in Probers, Discover(p)
  PROVE  ResolverInv'
<1>0. UpstreamTypeOK /\ probes[p] \in Probing
  BY ProbeParts DEF ResolverInv
<1>1. PICK found \in {<<"dhcp", offered>>, Unknown} :
        /\ Change \/ UNCHANGED changes
        /\ probes' = [probes EXCEPT ![p].step = "apply", ![p].read = Settings,
                        ![p].contexts = [s \in Scopes |-> ContextOf(s, Settings, found)]]
  BY DEF Discover
<1> DEFINE contexts == [s \in Scopes |-> ContextOf(s, Settings, found)]
           probe == [probes[p] EXCEPT !.step = "apply", !.read = Settings, !.contexts = contexts]
<1>2. contexts \in [Scopes -> Contexts \cup {Unset}]
      /\ \A s \in Scopes : url[s] # NoEndpoint => contexts[s] = <<"doh", url[s]>>
  BY <1>0, ContextFound
<1> HIDE DEF contexts
<1>3. probe \in Probing /\ probe.read.url = url /\ probe.contexts = contexts
  BY <1>0, <1>2, SettingsType DEF Probing, ProbeSteps
<1>4. probes' = [probes EXCEPT ![p] = probe]
  BY <1>0, <1>1 DEF contexts, UpstreamTypeOK
<1> HIDE DEF probe
<1>5. changes' \in 0..MaxChanges
  BY <1>0, <1>1, ChangeCounts DEF UpstreamTypeOK
<1>6. UpstreamTypeOK'
  BY <1>0, <1>3, <1>4, <1>5, ProbeChanged DEF Discover, UpstreamTypeOK, upstreamSettings
<1>7. FoundOfRead'
  BY <1>0, <1>2, <1>3, <1>4, ProbeChanged DEF ResolverInv, FoundOfRead, Doing
<1>8. SnapshotOfUrl' /\ ResultOfSnapshot'
  BY DEF Discover, ResolverInv, SnapshotOfUrl, ResultOfSnapshot, upstreamSettings
<1> QED BY <1>6, <1>7, <1>8 DEF ResolverInv

\* Saving what was discovered keeps it, because what was read is the same.
LEMMA ApplyKeeps ==
  ASSUME ResolverInv, NEW p \in Probers, Apply(p)
  PROVE  ResolverInv'
<1>0. UpstreamTypeOK /\ probes[p] \in Probing /\ probes[p].contexts \in [Scopes -> Found]
      /\ changes' \in 0..MaxChanges /\ probes[p].tries \in 0..2
  BY ProbeParts DEF ResolverInv, Apply, UpstreamTypeOK
<1>1. CASE probes[p].read = Settings
  <2>1. KeepContexts(probes[p].contexts) /\ probes' = [probes EXCEPT ![p] = Applied(p)]
    BY <1>1 DEF Apply
  <2>2. Applied(p) \in Probing /\ Applied(p).step # "apply"
    <3>1. {s \in Scopes : OwnTarget(p, s)} \subseteq Scopes
      OBVIOUS
    <3> DEFINE T == {s \in Scopes : OwnTarget(p, s)}
    <3> HIDE DEF T
    <3>2. [AtEase EXCEPT !.step = "measure", !.left = probes[p].left, !.category = probes[p].category,
             !.off = probes[p].off, !.contexts = probes[p].contexts, !.targets = T] \in Probing
          /\ [AtEase EXCEPT !.step = "measure", !.left = probes[p].left, !.category = probes[p].category,
             !.off = probes[p].off, !.contexts = probes[p].contexts, !.targets = T].step # "apply"
      BY <1>0, <3>1, EaseIsProbing, ProbeParts DEF Probing, ProbeSteps, Found, T
    <3> QED BY <3>2, EaseIsProbing DEF Applied, T
  <2>3. snapshot' = probes[p].contexts
        /\ results' = [c \in Categories |->
             [s \in Scopes |-> IF snapshot[s] = probes[p].contexts[s] THEN results[c][s] ELSE Unset]]
    BY <2>1 DEF KeepContexts
  <2>4. results' \in [Categories -> [Scopes -> Contexts \cup {Unset}]]
    BY <1>0, <2>3 DEF UpstreamTypeOK
  <2>5. UpstreamTypeOK'
    BY <1>0, <2>1, <2>2, <2>3, <2>4, ProbeChanged DEF Apply, UpstreamTypeOK, upstreamSettings, Found
  <2>6. FoundOfRead'
    BY <1>0, <2>1, <2>2, FoundStays DEF ResolverInv
  <2>7. \A s \in Scopes : url[s] # NoEndpoint => probes[p].contexts[s] = <<"doh", url[s]>>
    BY <1>0, <1>1, SettingsType DEF Apply, ResolverInv, FoundOfRead
  <2>8. SnapshotOfUrl'
    BY <2>3, <2>7 DEF SnapshotOfUrl, Apply, upstreamSettings
  <2>9. ResultOfSnapshot'
    BY <2>3 DEF ResolverInv, ResultOfSnapshot
  <2> QED BY <2>5, <2>6, <2>8, <2>9 DEF ResolverInv
<1>2. CASE probes[p].read # Settings
  <2> DEFINE again == [probes[p] EXCEPT !.step = "discover", !.tries = probes[p].tries + 1]
  <2>1. \/ probes' = [probes EXCEPT ![p] = AtEase]
        \/ probes[p].tries # 2 /\ probes' = [probes EXCEPT ![p] = again]
    BY <1>2 DEF Apply
  <2>2. probes[p].tries # 2 => probes[p].tries + 1 \in 0..2
    BY <1>0, SMT
  <2>3. probes[p].tries # 2 => again \in Probing /\ again.step # "apply"
    BY <1>0, <2>2 DEF Probing, ProbeSteps
  <2> HIDE DEF again
  <2>4. UNCHANGED <<upstreamSettings, snapshot, results>>
    BY <1>2 DEF Apply
  <2> QED BY <1>0, <2>1, <2>3, <2>4, QuietStep, EaseIsProbing
<1> QED BY <1>1, <1>2

\* A result is kept only as one of what is saved, which keeps it.
LEMMA RecordKeeps ==
  ASSUME ResolverInv, NEW p \in Probers, RecordCheck(p)
  PROVE  ResolverInv'
<1>0. UpstreamTypeOK /\ probes[p] \in Probing /\ probes[p].contexts \in [Scopes -> Found]
      /\ changes' \in 0..MaxChanges
  BY ProbeParts DEF ResolverInv, RecordCheck, UpstreamTypeOK
<1> DEFINE s == IF "household" \in probes[p].targets THEN "household" ELSE "group"
           rest == [probes[p] EXCEPT !.targets = {"group"}, !.contexts["household"] = Unset]
<1>1. s \in Scopes
  BY DEF Scopes
<1>2. results' = [c \in Categories |->
        IF c \in probes[p].category /\ Kept(p, s)
          THEN [results[c] EXCEPT ![s] = probes[p].contexts[s]] ELSE results[c]]
  BY DEF RecordCheck
<1>3. probes' = [probes EXCEPT ![p] = Onwards(p)] \/ probes' = [probes EXCEPT ![p] = rest]
  BY <1>0 DEF RecordCheck, UpstreamTypeOK
<1>4. Onwards(p) \in Probing /\ Onwards(p).step # "apply"
  <2>1. [AtEase EXCEPT !.step = "next", !.left = probes[p].left] \in Probing
        /\ [AtEase EXCEPT !.step = "next", !.left = probes[p].left].step # "apply"
    BY <1>0, EaseIsProbing, ProbeParts DEF Probing, ProbeSteps
  <2> QED BY <2>1, EaseIsProbing DEF Onwards
<1>5. rest \in Probing /\ rest.step # "apply"
  <2>1. [probes[p].contexts EXCEPT !["household"] = Unset] \in [Scopes -> Contexts \cup {Unset}]
    BY <1>0 DEF Found
  <2>2. {"group"} \subseteq Scopes /\ probes[p].step = "measure"
    BY DEF Scopes, RecordCheck, Doing
  <2>3. rest = [probes[p] EXCEPT !.targets = {"group"},
                                 !.contexts = [probes[p].contexts EXCEPT !["household"] = Unset]]
    BY <1>0 DEF Probing
  <2> QED BY <1>0, <2>1, <2>2, <2>3 DEF Probing, ProbeSteps
<1> HIDE DEF rest, s
<1>6. results' \in [Categories -> [Scopes -> Contexts \cup {Unset}]]
  BY <1>0, <1>1, <1>2 DEF UpstreamTypeOK, Found
<1>7. UpstreamTypeOK'
  BY <1>0, <1>3, <1>4, <1>5, <1>6, ProbeChanged DEF RecordCheck, UpstreamTypeOK, upstreamSettings
<1>8. FoundOfRead'
  BY <1>0, <1>3, <1>4, <1>5, FoundStays DEF ResolverInv
<1>9. SnapshotOfUrl'
  BY DEF ResolverInv, RecordCheck, SnapshotOfUrl, upstreamSettings
<1>10. ResultOfSnapshot'
  <2> SUFFICES ASSUME NEW c \in Categories, NEW t \in Scopes, results'[c][t] # Unset
               PROVE  results'[c][t] = snapshot[t]
    BY DEF RecordCheck, ResultOfSnapshot
  <2>1. \/ results'[c][t] = results[c][t]
        \/ t = s /\ Kept(p, s) /\ results'[c][t] = probes[p].contexts[s]
    BY <1>0, <1>1, <1>2 DEF UpstreamTypeOK
  <2> QED BY <2>1 DEF Kept, ResolverInv, ResultOfSnapshot
<1> QED BY <1>7, <1>8, <1>9, <1>10 DEF ResolverInv

\* What people and the gateway change keeps it: a new endpoint takes with it
\* what was saved and kept for its scope.
LEMMA PeopleKeep ==
  ASSUME ResolverInv,
         \/ \E s \in Scopes, e \in Endpoints \cup {NoEndpoint} : SetEndpoint(s, e)
         \/ Place \/ Offer
         \/ \E c \in Categories : TurnOff(c) \/ TurnOn(c)
         \/ TurnAllOff
  PROVE  ResolverInv'
<1>0. UpstreamTypeOK /\ (Change => changes' \in 0..MaxChanges)
  BY ChangeCounts DEF ResolverInv
<1>1. ASSUME NEW s \in Scopes, NEW e \in Endpoints \cup {NoEndpoint}, SetEndpoint(s, e) PROVE ResolverInv'
  <2>1. /\ url' = [url EXCEPT ![s] = e] /\ snapshot' = [snapshot EXCEPT ![s] = Unset]
        /\ results' = [c \in Categories |-> [results[c] EXCEPT ![s] = Unset]]
    BY <1>1 DEF SetEndpoint, Dropped
  <2>2. UpstreamTypeOK'
    BY <1>0, <1>1, <2>1 DEF SetEndpoint, UpstreamTypeOK
  <2>3. FoundOfRead'
    BY <1>1 DEF SetEndpoint, ResolverInv, FoundOfRead, Doing
  <2>4. SnapshotOfUrl' /\ ResultOfSnapshot'
    BY <1>0, <2>1 DEF ResolverInv, UpstreamTypeOK, SnapshotOfUrl, ResultOfSnapshot
  <2> QED BY <2>2, <2>3, <2>4 DEF ResolverInv
<1>2. ASSUME NEW cats \in SUBSET Categories, Off(cats), enabled' \subseteq Categories,
             changes' \in 0..MaxChanges, UNCHANGED <<url, placed, offered, snapshot>>
      PROVE  ResolverInv'
  <2>1. \A p \in Probers :
          /\ probes'[p] = [probes[p] EXCEPT !.off = probes[p].off \/ probes[p].category \cap cats # {}]
          /\ probes'[p] \in Probing /\ probes'[p].step = probes[p].step
          /\ probes'[p].read = probes[p].read /\ probes'[p].contexts = probes[p].contexts
    <3> TAKE p \in Probers
    <3> DEFINE off == probes[p].off \/ probes[p].category \cap cats # {}
    <3>1. probes'[p] = [probes[p] EXCEPT !.off = off] /\ off \in BOOLEAN
      BY <1>2 DEF Off
    <3>2. probes[p] \in Probing
      BY <1>0, ProbeParts
    <3> HIDE DEF off
    <3>3. probes'[p] \in Probing /\ probes'[p].step = probes[p].step
          /\ probes'[p].read = probes[p].read /\ probes'[p].contexts = probes[p].contexts
      BY <3>1, <3>2 DEF Probing
    <3> QED BY <3>1, <3>3 DEF off
  <2>2. probes' \in [Probers -> Probing]
    <3>1. probes' = [p \in Probers |-> probes'[p]]
      BY <1>2 DEF Off
    <3> QED BY <2>1, <3>1
  <2>3. results' = [c \in Categories |-> IF c \in cats THEN Everywhere(Unset) ELSE results[c]]
    BY <1>2 DEF Off
  <2>4. UpstreamTypeOK'
    BY <1>0, <1>2, <2>2, <2>3 DEF UpstreamTypeOK, Everywhere
  <2>5. FoundOfRead'
    <3> SUFFICES ASSUME NEW p \in Probers, probes'[p].step = "apply", NEW s \in Scopes,
                        probes'[p].read.url[s] # NoEndpoint
                 PROVE  probes'[p].contexts[s] = <<"doh", probes'[p].read.url[s]>>
      BY DEF FoundOfRead, Doing
    <3>1. probes[p].step = "apply" /\ probes'[p].read = probes[p].read /\ probes'[p].contexts = probes[p].contexts
      BY <2>1
    <3> QED BY <3>1 DEF ResolverInv, FoundOfRead, Doing
  <2>6. SnapshotOfUrl' /\ ResultOfSnapshot'
    BY <1>0, <1>2, <2>3 DEF ResolverInv, UpstreamTypeOK, SnapshotOfUrl, ResultOfSnapshot, Everywhere
  <2> QED BY <2>4, <2>5, <2>6 DEF ResolverInv
<1>3. ASSUME NEW c \in Categories, TurnOff(c) PROVE ResolverInv'
  <2>1. enabled' \subseteq Categories /\ {c} \in SUBSET Categories
    BY <1>0, <1>3 DEF TurnOff, UpstreamTypeOK
  <2> QED BY <1>0, <1>2, <1>3, <2>1 DEF TurnOff
<1>4. CASE TurnAllOff
  <2>1. enabled' \subseteq Categories
    BY <1>0, <1>4 DEF TurnAllOff, UpstreamTypeOK, upstreamSettings
  <2> QED BY <1>0, <1>2, <1>4, <2>1 DEF TurnAllOff, upstreamSettings
<1>5. ASSUME Place \/ Offer \/ \E c \in Categories : TurnOn(c) PROVE ResolverInv'
  <2>1. UNCHANGED <<url, snapshot, results, probes>> /\ Change
    BY <1>5 DEF Place, Offer, TurnOn
  <2>2. placed' \in BOOLEAN /\ offered' \in Nat /\ enabled' \subseteq Categories
    <3>1. placed' \in BOOLEAN /\ enabled' \subseteq Categories
      BY <1>0, <1>5 DEF Place, Offer, TurnOn, UpstreamTypeOK
    <3>2. offered \in Nat /\ (offered' = offered \/ offered' = offered + 1)
      BY <1>0, <1>5 DEF Place, Offer, TurnOn, UpstreamTypeOK
    <3>3. offered' \in Nat
      BY <3>2, SMT
    <3> QED BY <3>1, <3>3
  <2>3. UpstreamTypeOK'
    BY <1>0, <2>1, <2>2 DEF UpstreamTypeOK
  <2> QED BY <2>1, <2>3 DEF ResolverInv, SnapshotOfUrl, FoundOfRead, ResultOfSnapshot, Doing
<1> QED BY <1>1, <1>3, <1>4, <1>5

\* Every step keeps it.
LEMMA StepResolver == ResolverInv /\ [UpstreamNext]_upstreamVars => ResolverInv'
<1> SUFFICES ASSUME ResolverInv, [UpstreamNext]_upstreamVars PROVE ResolverInv'
  OBVIOUS
<1>1. CASE UNCHANGED upstreamVars
  BY <1>1 DEF upstreamVars, upstreamSettings, ResolverInv, UpstreamTypeOK, SnapshotOfUrl, FoundOfRead,
              ResultOfSnapshot, Doing
<1>2. ASSUME NEW p \in Probers, Sweep(p) \/ CheckNow(p) \/ NextCategory(p) \/ Discover(p) \/ Apply(p)
                                  \/ RecordCheck(p)
      PROVE  ResolverInv'
  BY <1>2, StartsKeep, DiscoverKeeps, ApplyKeeps, RecordKeeps
<1>3. Sweeps \subseteq Probers /\ Checks \subseteq Probers
  BY DEF Probers
<1> QED BY <1>1, <1>2, <1>3, ReadKeeps, PeopleKeep DEF UpstreamNext

\* Every state of UpstreamChecks has the types it declares, and its invariant.
THEOREM UpstreamTypes == UpstreamSpec => []UpstreamTypeOK
<1> QED BY InitResolver, StepResolver, PTL DEF UpstreamSpec, ResolverInv

\* A result that is kept was measured with the resolver its scope has now, by
\* what FamilyFi last found and by what the household entered, however many
\* sweeps, checks and pages ask at once (upstream/probe.ts, discovery.ts).
THEOREM KeptIsOfItsResolver == UpstreamSpec => []OfItsResolver
<1>1. ResolverInv => OfItsResolver
  BY DEF ResolverInv, SnapshotOfUrl, ResultOfSnapshot, OfItsResolver
<1> QED BY <1>1, InitResolver, StepResolver, PTL DEF UpstreamSpec

----------------------------------------------------------------------------
(* PAIRING                                                                 *)

\* The records are of the rows there are, and have these fields.  What paired
\* a device is left open: it is found along a chain of records.
Shaped ==
  /\ device = [d \in Paired |-> device[d]] /\ \A d \in Paired : {"is", "by"} \subseteq DOMAIN device[d]
  /\ invite = [i \in Invites |-> invite[i]] /\ \A i \in Invites : "is" \in DOMAIN invite[i]
  /\ call = [c \in Callers |-> call[c]] /\ \A c \in Callers : {"step", "invite"} \subseteq DOMAIN call[c]
  /\ {"step", "whole", "expired"} \subseteq DOMAIN walk

\* A claim is of an invite, and one that took it has it for itself.
ClaimsAlone ==
  /\ \A c \in Callers : call[c].step \in {"claim", "claimed"} => call[c].invite \in Invites
  /\ \A c \in Callers : Calling(c, "claimed") => Waiting(call[c].invite)
  /\ \A b, c \in Callers :
       Calling(b, "claimed") /\ Calling(c, "claimed") /\ call[b].invite = call[c].invite => b = c

\* What a revocation is ending was not claimed, and is not being claimed.
ExpiringAlone == \A i \in Invites : Expiring(i) => invite[i].is # "claimed" /\ ~Claiming(i)

\* Who joined did so by an invite.
JoinedByInvite == \A d \in Paired : device[d].by # 0 => device[d].by \in Invites

\* Only a revocation commits.
CommitsWhole == Walking("commit") => walk.whole

JoinInv == Shaped /\ ClaimsAlone /\ ExpiringAlone /\ JoinedByInvite /\ CommitsWhole /\ OneJoinsAnInvite

----------------------------------------------------------------------------
(* Records                                                                 *)

\* A record with another parent, or none, is one, of the same invite.
LEMMA ParentChanged ==
  ASSUME NEW r, {"is", "by"} \subseteq DOMAIN r, NEW p
  PROVE  /\ {"is", "by"} \subseteq DOMAIN [r EXCEPT !.parent = p]
         /\ [r EXCEPT !.parent = p].by = r.by
OBVIOUS

\* So is one that is revoked.
LEMMA RecordRevoked ==
  ASSUME NEW r, {"is", "by"} \subseteq DOMAIN r
  PROVE  /\ {"is", "by"} \subseteq DOMAIN [r EXCEPT !.is = "revoked", !.signedIn = FALSE]
         /\ [r EXCEPT !.is = "revoked", !.signedIn = FALSE].by = r.by
OBVIOUS

\* An invite that is ended is one.
LEMMA InviteOver ==
  ASSUME NEW r, "is" \in DOMAIN r
  PROVE  "is" \in DOMAIN [r EXCEPT !.is = "over"] /\ [r EXCEPT !.is = "over"].is = "over"
OBVIOUS

\* No device and a new phone are records, and no invite's.
LEMMA NewRecords ==
  /\ {"is", "by"} \subseteq DOMAIN NoDevice /\ NoDevice.by = 0
  /\ \A p : {"is", "by"} \subseteq DOMAIN NewPhone(p) /\ NewPhone(p).by = 0
BY DEF NoDevice, NewPhone

\* Who takes the place of another takes over who was paired from it, and no
\* one's invite.
LEMMA HandedKeeps ==
  ASSUME Shaped, NEW r, NEW n
  PROVE  /\ Handed(r, n) = [d \in Paired |-> Handed(r, n)[d]]
         /\ \A d \in Paired : {"is", "by"} \subseteq DOMAIN Handed(r, n)[d]
                              /\ Handed(r, n)[d].by \in {0, device[d].by}
<1>1. ASSUME NEW d \in Paired
      PROVE  {"is", "by"} \subseteq DOMAIN Handed(r, n)[d] /\ Handed(r, n)[d].by \in {0, device[d].by}
  <2>1. \/ Handed(r, n)[d] = [NoDevice EXCEPT !.is = "removed"]
        \/ Handed(r, n)[d] = [device[d] EXCEPT !.parent = n]
        \/ Handed(r, n)[d] = device[d]
    BY DEF Handed
  <2>2. {"is", "by"} \subseteq DOMAIN [NoDevice EXCEPT !.is = "removed"]
        /\ [NoDevice EXCEPT !.is = "removed"].by = 0
    BY DEF NoDevice
  <2>3. {"is", "by"} \subseteq DOMAIN device[d]
    BY DEF Shaped
  <2> QED BY <2>1, <2>2, <2>3, ParentChanged
<1> QED BY <1>1 DEF Handed

\* Revoking devices keeps whose invite they joined by.
LEMMA RevokedKeeps ==
  ASSUME Shaped, NEW ds
  PROVE  /\ Revoked(ds) = [d \in Paired |-> Revoked(ds)[d]]
         /\ \A d \in Paired : {"is", "by"} \subseteq DOMAIN Revoked(ds)[d]
                              /\ Revoked(ds)[d].by = device[d].by
<1>1. ASSUME NEW d \in Paired
      PROVE  {"is", "by"} \subseteq DOMAIN Revoked(ds)[d] /\ Revoked(ds)[d].by = device[d].by
  <2>1. \/ Revoked(ds)[d] = [device[d] EXCEPT !.is = "revoked", !.signedIn = FALSE]
        \/ Revoked(ds)[d] = device[d]
    BY DEF Revoked
  <2>2. {"is", "by"} \subseteq DOMAIN device[d]
    BY DEF Shaped
  <2> QED BY <2>1, <2>2, RecordRevoked
<1> QED BY <1>1 DEF Revoked

\* A call is asked for and answered in its place.
LEMMA CallChanged ==
  ASSUME Shaped, NEW c \in Callers, NEW r, {"step", "invite"} \subseteq DOMAIN r, call' = [call EXCEPT ![c] = r]
  PROVE  /\ call' = [b \in Callers |-> call'[b]] /\ call'[c] = r
         /\ \A b \in Callers : {"step", "invite"} \subseteq DOMAIN call'[b] /\ (b # c => call'[b] = call[b])
BY DEF Shaped

\* No call and no walk are as they look.
LEMMA Nones ==
  /\ {"step", "invite"} \subseteq DOMAIN NoCall /\ NoCall.step = "idle"
  /\ {"step", "whole", "expired"} \subseteq DOMAIN NoWalk /\ NoWalk.step = "none" /\ NoWalk.whole = FALSE
  /\ NoWalk.expired = {}
BY DEF NoCall, NoWalk

----------------------------------------------------------------------------
(* The invariant                                                           *)

\* No one has joined at first.
LEMMA InitJoin == PairingInit => JoinInv
<1> SUFFICES ASSUME PairingInit PROVE JoinInv
  OBVIOUS
<1>1. device = [d \in Paired |-> device[d]]
      /\ \A d \in Paired : {"is", "by"} \subseteq DOMAIN device[d] /\ device[d].by = 0
  <2>1. PICK p \in {1, 2}, gone \in BOOLEAN : device = FirstDevices(p, gone)
    BY DEF PairingInit
  <2>2. device = [d \in Paired |-> device[d]]
    BY <2>1 DEF FirstDevices
  <2>3. ASSUME NEW d \in Paired PROVE {"is", "by"} \subseteq DOMAIN device[d] /\ device[d].by = 0
    <3>1. CASE d = 1
      BY <2>1, <3>1, NewRecords DEF FirstDevices
    <3>2. CASE d = 2
      <4>1. device[d] = [NewPhone(1) EXCEPT !.is = IF gone THEN "revoked" ELSE "active", !.signedIn = ~gone]
        BY <2>1, <3>2 DEF FirstDevices
      <4> QED BY <4>1 DEF NewPhone, NoDevice
    <3>3. CASE d = 3
      <4>1. device[d] = [NewPhone(p) EXCEPT !.again = gone]
        BY <2>1, <3>3 DEF FirstDevices
      <4> QED BY <4>1 DEF NewPhone, NoDevice
    <3>4. CASE d \notin {1, 2, 3}
      BY <2>1, <3>4, NewRecords DEF FirstDevices
    <3> QED BY <3>1, <3>2, <3>3, <3>4
  <2> QED BY <2>2, <2>3
<1>2. invite = [i \in Invites |-> invite[i]] /\ \A i \in Invites : "is" \in DOMAIN invite[i]
  BY DEF PairingInit, NoInvite
<1>3. call = [c \in Callers |-> call[c]] /\ \A c \in Callers : call[c] = NoCall
  BY DEF PairingInit
<1>4. walk = NoWalk
  BY DEF PairingInit
<1>5. Shaped
  BY <1>1, <1>2, <1>3, <1>4, Nones DEF Shaped
<1>6. ClaimsAlone /\ ExpiringAlone /\ CommitsWhole
  BY <1>3, <1>4, Nones DEF ClaimsAlone, ExpiringAlone, CommitsWhole, Expiring, Calling, Walking
<1>7. JoinedByInvite /\ OneJoinsAnInvite
  BY <1>1 DEF JoinedByInvite, OneJoinsAnInvite
<1> QED BY <1>5, <1>6, <1>7 DEF JoinInv

\* A step that lets no one join, takes no invite, ends only such as no one
\* has taken, and lets no revocation end more, keeps the invariant.
LEMMA QuietKeeps ==
  ASSUME JoinInv, Shaped',
         \A d \in Paired : device'[d].by \in {0, device[d].by},
         \A i \in Invites : \/ invite'[i].is = invite[i].is
                            \/ invite[i].is # "claimed" /\ ~Claiming(i) /\ invite'[i].is # "claimed",
         \A c \in Callers : \/ call'[c] = call[c]
                            \/ call'[c].step = "claim" /\ call'[c].invite \in Invites
                            \/ call'[c].step \notin {"claim", "claimed"},
         \A i \in Invites : Expiring(i)' => Expiring(i),
         CommitsWhole'
  PROVE  JoinInv'
<1>1. \A c \in Callers : Calling(c, "claimed")' => Calling(c, "claimed") /\ call'[c] = call[c]
  BY DEF Calling
<1>2. ClaimsAlone'
  <2>1. \A c \in Callers : call'[c].step \in {"claim", "claimed"} => call'[c].invite \in Invites
    BY DEF JoinInv, ClaimsAlone
  <2>2. ASSUME NEW c \in Callers, Calling(c, "claimed")'
        PROVE  Waiting(call[c].invite)'
    <3>1. Calling(c, "claimed") /\ call'[c] = call[c]
      BY <1>1, <2>2
    <3>2. call[c].invite \in Invites /\ Waiting(call[c].invite)
      BY <3>1 DEF JoinInv, ClaimsAlone, Calling
    <3>3. Claiming(call[c].invite)
      BY <3>1 DEF Claiming
    <3> QED BY <3>1, <3>2, <3>3 DEF Waiting
  <2> QED BY <1>1, <2>1, <2>2 DEF JoinInv, ClaimsAlone
<1>3. ExpiringAlone'
  BY <1>1 DEF JoinInv, ExpiringAlone, Claiming
<1>4. JoinedByInvite' /\ OneJoinsAnInvite'
  BY DEF JoinInv, JoinedByInvite, OneJoinsAnInvite
<1> QED BY <1>2, <1>3, <1>4 DEF JoinInv

\* Who asks, and whose claim fails, keeps it.
LEMMA AsksKeep ==
  ASSUME JoinInv, NEW c \in Callers, InviteAsked(c) \/ WatchAsked(c) \/ ClaimAsked(c) \/ ClaimFails(c)
  PROVE  JoinInv'
<1>1. PICK r : /\ call' = [call EXCEPT ![c] = r] /\ {"step", "invite"} \subseteq DOMAIN r
               /\ \/ r.step = "claim" /\ r.invite \in Invites
                  \/ r.step \notin {"claim", "claimed"}
  <2>1. ASSUME InviteAsked(c)
        PROVE  \E p, q : call' = [call EXCEPT ![c] = [NoCall EXCEPT !.step = "invite", !.from = p, !.replaces = q]]
    BY <2>1 DEF InviteAsked
  <2>2. ASSUME WatchAsked(c)
        PROVE  \E p : call' = [call EXCEPT ![c] = [NoCall EXCEPT !.step = "watch", !.from = p]]
    BY <2>2 DEF WatchAsked
  <2>3. ASSUME ClaimAsked(c)
        PROVE  \E i \in Invites : \E p, q :
                 call' = [call EXCEPT ![c] = [NoCall EXCEPT !.step = "claim", !.invite = i, !.from = p, !.replaces = q]]
    BY <2>3 DEF ClaimAsked
  <2>4. ASSUME ClaimFails(c) PROVE call' = [call EXCEPT ![c] = NoCall]
    BY <2>4 DEF ClaimFails
  <2>5. \A p, q : {"step", "invite"} \subseteq DOMAIN [NoCall EXCEPT !.step = "invite", !.from = p, !.replaces = q]
                  /\ [NoCall EXCEPT !.step = "invite", !.from = p, !.replaces = q].step = "invite"
    BY DEF NoCall
  <2>6. \A p : {"step", "invite"} \subseteq DOMAIN [NoCall EXCEPT !.step = "watch", !.from = p]
               /\ [NoCall EXCEPT !.step = "watch", !.from = p].step = "watch"
    BY DEF NoCall
  <2>7. \A i, p, q :
          {"step", "invite"} \subseteq DOMAIN [NoCall EXCEPT !.step = "claim", !.invite = i, !.from = p, !.replaces = q]
          /\ [NoCall EXCEPT !.step = "claim", !.invite = i, !.from = p, !.replaces = q].step = "claim"
          /\ [NoCall EXCEPT !.step = "claim", !.invite = i, !.from = p, !.replaces = q].invite = i
    BY DEF NoCall
  <2>8. CASE InviteAsked(c)
    <3>1. PICK p, q : call' = [call EXCEPT ![c] = [NoCall EXCEPT !.step = "invite", !.from = p, !.replaces = q]]
      BY <2>1, <2>8
    <3> DEFINE new == [NoCall EXCEPT !.step = "invite", !.from = p, !.replaces = q]
    <3>2. call' = [call EXCEPT ![c] = new] /\ {"step", "invite"} \subseteq DOMAIN new /\ new.step = "invite"
      BY <2>5, <3>1
    <3> HIDE DEF new
    <3> QED BY <3>2
  <2>9. CASE WatchAsked(c)
    BY <2>2, <2>6, <2>9
  <2>10. CASE ClaimAsked(c)
    <3>0. PICK i \in Invites :
            \E p, q : call' = [call EXCEPT ![c] = [NoCall EXCEPT !.step = "claim", !.invite = i, !.from = p, !.replaces = q]]
      BY <2>3, <2>10
    <3>1. PICK p, q :
            call' = [call EXCEPT ![c] = [NoCall EXCEPT !.step = "claim", !.invite = i, !.from = p, !.replaces = q]]
      BY <3>0
    <3> DEFINE new == [NoCall EXCEPT !.step = "claim", !.invite = i, !.from = p, !.replaces = q]
    <3>2. call' = [call EXCEPT ![c] = new] /\ {"step", "invite"} \subseteq DOMAIN new
          /\ new.step = "claim" /\ new.invite = i
      BY <2>7, <3>1
    <3> HIDE DEF new
    <3> QED BY <3>2
  <2>11. CASE ClaimFails(c)
    BY <2>4, <2>11, Nones
  <2> QED BY <2>8, <2>9, <2>10, <2>11
<1>2. UNCHANGED <<device, invite, walk>>
  BY DEF InviteAsked, WatchAsked, ClaimAsked, ClaimFails
<1>3. Shaped'
  BY <1>1, <1>2, CallChanged DEF JoinInv, Shaped
<1>4. \A b \in Callers : \/ call'[b] = call[b]
                         \/ call'[b].step = "claim" /\ call'[b].invite \in Invites
                         \/ call'[b].step \notin {"claim", "claimed"}
  BY <1>1, CallChanged DEF JoinInv
<1> QED BY <1>2, <1>3, <1>4, QuietKeeps DEF Expiring, CommitsWhole, Walking, JoinInv

\* An invite that is made was none, and so no one's.
LEMMA InviteMadeKeeps == ASSUME JoinInv, NEW c \in Callers, InviteMade(c) PROVE JoinInv'
<1>1. UNCHANGED <<device, walk>> /\ call' = [call EXCEPT ![c] = NoCall]
  BY DEF InviteMade
<1>2. \/ UNCHANGED invite
      \/ \E i \in Invites : \E p, q :
           invite[i].is = "unused" /\ invite' = [invite EXCEPT ![i] = [is |-> "waiting", parent |-> p, replaces |-> q]]
  BY DEF InviteMade
<1>3. invite' = [i \in Invites |-> invite'[i]] /\ \A i \in Invites : "is" \in DOMAIN invite'[i]
  BY <1>2 DEF JoinInv, Shaped
<1>4. \A i \in Invites : \/ invite'[i].is = invite[i].is
                         \/ invite[i].is = "unused" /\ invite'[i].is = "waiting"
  BY <1>2 DEF JoinInv, Shaped
<1>5. \A i \in Invites : invite[i].is = "unused" => ~Claiming(i)
  BY DEF Claiming, JoinInv, ClaimsAlone, Waiting
<1>6. Shaped'
  BY <1>1, <1>3, CallChanged, Nones DEF JoinInv, Shaped
<1>7. \A b \in Callers : call'[b] = call[b] \/ call'[b].step \notin {"claim", "claimed"}
  BY <1>1, CallChanged, Nones DEF JoinInv
<1> QED BY <1>1, <1>4, <1>5, <1>6, <1>7, QuietKeeps DEF Expiring, CommitsWhole, Walking, JoinInv

\* A Watch joins by an invite of its own.
LEMMA WatchKeeps == ASSUME JoinInv, NEW c \in Callers, WatchJoined(c) PROVE JoinInv'
<1>1. UNCHANGED invite /\ call' = [call EXCEPT ![c] = NoCall]
  BY DEF WatchJoined
<1>2. walk' = walk \/ \E ds : walk' = [walk EXCEPT !.late = @ \cup ds]
  BY DEF WatchJoined, Noted
<1>3. \/ UNCHANGED device
      \/ \E d \in Paired : \E old, p : device' = [Revoked(old) EXCEPT ![d] = [NewPhone(p) EXCEPT !.watch = TRUE]]
  BY DEF WatchJoined
<1>4. \A p : {"is", "by"} \subseteq DOMAIN [NewPhone(p) EXCEPT !.watch = TRUE]
             /\ [NewPhone(p) EXCEPT !.watch = TRUE].by = 0
  BY NewRecords DEF NewPhone, NoDevice
<1>5. /\ device' = [d \in Paired |-> device'[d]]
      /\ \A d \in Paired : {"is", "by"} \subseteq DOMAIN device'[d] /\ device'[d].by \in {0, device[d].by}
  <2>1. CASE UNCHANGED device
    BY <2>1 DEF JoinInv, Shaped
  <2>2. ASSUME NEW d \in Paired, NEW old, NEW p,
               device' = [Revoked(old) EXCEPT ![d] = [NewPhone(p) EXCEPT !.watch = TRUE]]
        PROVE  /\ device' = [e \in Paired |-> device'[e]]
               /\ \A e \in Paired : {"is", "by"} \subseteq DOMAIN device'[e] /\ device'[e].by \in {0, device[e].by}
    <3> DEFINE new == [NewPhone(p) EXCEPT !.watch = TRUE]
               revoked == Revoked(old)
    <3>1. revoked = [e \in Paired |-> revoked[e]]
          /\ \A e \in Paired : {"is", "by"} \subseteq DOMAIN revoked[e] /\ revoked[e].by = device[e].by
      BY RevokedKeeps DEF JoinInv
    <3>2. device' = [revoked EXCEPT ![d] = new] /\ {"is", "by"} \subseteq DOMAIN new /\ new.by = 0
      BY <1>4, <2>2
    <3> HIDE DEF new, revoked
    <3> QED BY <3>1, <3>2
  <2> QED BY <1>3, <2>1, <2>2
<1>6. {"step", "whole", "expired"} \subseteq DOMAIN walk' /\ walk'.step = walk.step
      /\ walk'.whole = walk.whole /\ walk'.expired = walk.expired
  BY <1>2 DEF JoinInv, Shaped
<1>7. Shaped'
  BY <1>1, <1>5, <1>6, CallChanged, Nones DEF JoinInv, Shaped
<1>8. \A b \in Callers : call'[b] = call[b] \/ call'[b].step \notin {"claim", "claimed"}
  BY <1>1, CallChanged, Nones DEF JoinInv
<1> QED BY <1>1, <1>5, <1>6, <1>7, <1>8, QuietKeeps DEF Expiring, CommitsWhole, Walking, JoinInv

\* A claim takes an invite that waits and that no one has taken.
LEMMA TakesKeep == ASSUME JoinInv, NEW c \in Callers, ClaimTakes(c) PROVE JoinInv'
<1>1. /\ UNCHANGED <<device, invite, walk>> /\ Calling(c, "claim")
      /\ ~Claiming(call[c].invite) /\ ~Expiring(call[c].invite)
  BY DEF ClaimTakes
<1>2. CASE Waiting(call[c].invite)
  <2> DEFINE taken == [call[c] EXCEPT !.step = "claimed"]
  <2>1. call' = [call EXCEPT ![c] = taken]
    BY <1>2 DEF ClaimTakes
  <2>2. {"step", "invite"} \subseteq DOMAIN call[c]
    BY DEF JoinInv, Shaped
  <2>3. {"step", "invite"} \subseteq DOMAIN taken /\ taken.step = "claimed" /\ taken.invite = call[c].invite
    BY <2>2
  <2> HIDE DEF taken
  <2>4. /\ call' = [b \in Callers |-> call'[b]] /\ call'[c] = taken
        /\ \A b \in Callers : {"step", "invite"} \subseteq DOMAIN call'[b] /\ (b # c => call'[b] = call[b])
    BY <2>1, <2>3, CallChanged DEF JoinInv
  <2>5. Shaped'
    BY <1>1, <2>4 DEF JoinInv, Shaped
  <2>6. call[c].invite \in Invites /\ call[c].step = "claim"
    BY <1>1 DEF JoinInv, ClaimsAlone, Calling
  <2>7. ClaimsAlone'
    BY <1>1, <1>2, <2>3, <2>4, <2>6 DEF JoinInv, ClaimsAlone, Calling, Claiming, Waiting
  <2>8. ExpiringAlone'
    BY <1>1, <2>3, <2>4 DEF JoinInv, ExpiringAlone, Expiring, Claiming, Calling
  <2>9. JoinedByInvite' /\ OneJoinsAnInvite' /\ CommitsWhole'
    BY <1>1 DEF JoinInv, JoinedByInvite, OneJoinsAnInvite, CommitsWhole, Walking
  <2> QED BY <2>5, <2>7, <2>8, <2>9 DEF JoinInv
<1>3. CASE ~Waiting(call[c].invite)
  <2>1. call' = [call EXCEPT ![c] = NoCall]
    BY <1>3 DEF ClaimTakes
  <2>2. Shaped'
    BY <1>1, <2>1, CallChanged, Nones DEF JoinInv, Shaped
  <2>3. \A b \in Callers : call'[b] = call[b] \/ call'[b].step \notin {"claim", "claimed"}
    BY <2>1, CallChanged, Nones DEF JoinInv
  <2> QED BY <1>1, <2>2, <2>3, QuietKeeps DEF Expiring, CommitsWhole, Walking, JoinInv
<1> QED BY <1>2, <1>3

\* A device joins by an invite that no one joined by, and no one will.
LEMMA JoinsKeep == ASSUME JoinInv, NEW c \in Callers, ClaimJoins(c) PROVE JoinInv'
<1> DEFINE i == call[c].invite
           r == call[c].replaces
           p == IF r = Nobodys THEN call[c].from ELSE device[r].parent
<1>1. PICK d \in Paired :
        device' = [(IF r = Nobodys THEN device ELSE Handed(r, d)) EXCEPT ![d] =
                     [NewPhone(p) EXCEPT !.by = i, !.again = (r # Nobodys)]]
  BY DEF ClaimJoins
<1> HIDE DEF p
<1>2. /\ Calling(c, "claimed") /\ call' = [call EXCEPT ![c] = NoCall]
      /\ invite' = [Ended(r) EXCEPT ![i].is = "claimed"]
      /\ r # Nobodys => \A j \in Invites \ {i} : invite[j].parent = r => ~Claiming(j)
  BY DEF ClaimJoins
<1>3. walk' = walk \/ \E ds : walk' = [walk EXCEPT !.late = @ \cup ds]
  BY DEF ClaimJoins, Noted
<1>4. i \in Invites /\ Waiting(i) /\ Claiming(i)
  BY <1>2 DEF JoinInv, ClaimsAlone, Calling, Claiming
<1>5. \A b \in Callers : b # c /\ Calling(b, "claimed") => call[b].invite # i
  BY <1>2 DEF JoinInv, ClaimsAlone
<1>6. /\ device' = [e \in Paired |-> device'[e]]
      /\ \A e \in Paired : {"is", "by"} \subseteq DOMAIN device'[e]
      /\ device'[d].by = i
      /\ \A e \in Paired \ {d} : device'[e].by \in {0, device[e].by}
  <2> DEFINE new == [NewPhone(p) EXCEPT !.by = i, !.again = (r # Nobodys)]
             others == IF r = Nobodys THEN device ELSE Handed(r, d)
  <2>1. {"is", "by"} \subseteq DOMAIN new /\ new.by = i
    BY NewRecords DEF NewPhone, NoDevice
  <2>2. others = [e \in Paired |-> others[e]]
        /\ \A e \in Paired : {"is", "by"} \subseteq DOMAIN others[e] /\ others[e].by \in {0, device[e].by}
    BY HandedKeeps DEF JoinInv, Shaped
  <2>3. device' = [others EXCEPT ![d] = new]
    BY <1>1
  <2> HIDE DEF new, others
  <2> QED BY <2>1, <2>2, <2>3
<1>7. /\ Ended(r) = [j \in Invites |-> Ended(r)[j]]
      /\ \A j \in Invites :
           /\ "is" \in DOMAIN Ended(r)[j]
           /\ \/ Ended(r)[j].is = invite[j].is
              \/ r # Nobodys /\ invite[j].parent = r /\ invite[j].is = "waiting" /\ Ended(r)[j].is = "over"
  <2>1. ASSUME NEW j \in Invites
        PROVE  /\ "is" \in DOMAIN Ended(r)[j]
               /\ \/ Ended(r)[j].is = invite[j].is
                  \/ r # Nobodys /\ invite[j].parent = r /\ invite[j].is = "waiting" /\ Ended(r)[j].is = "over"
    <3>1. "is" \in DOMAIN invite[j]
      BY DEF JoinInv, Shaped
    <3>2. \/ Ended(r)[j] = invite[j]
          \/ r # Nobodys /\ invite[j].parent = r
             /\ Ended(r)[j] = [invite[j] EXCEPT !.parent = Nobodys,
                                                !.is = IF invite[j].is = "waiting" THEN "over" ELSE invite[j].is]
      BY DEF Ended
    <3> QED BY <3>1, <3>2
  <2> QED BY <2>1 DEF Ended
<1>8. /\ invite' = [j \in Invites |-> invite'[j]] /\ \A j \in Invites : "is" \in DOMAIN invite'[j]
      /\ invite'[i].is = "claimed"
      /\ \A j \in Invites \ {i} : invite'[j] = Ended(r)[j]
  <2> DEFINE ended == Ended(r)
  <2>1. invite' = [ended EXCEPT ![i].is = "claimed"]
    BY <1>2
  <2>2. ended = [j \in Invites |-> ended[j]] /\ \A j \in Invites : "is" \in DOMAIN ended[j]
    BY <1>7
  <2> HIDE DEF ended
  <2>3. /\ invite' = [j \in Invites |-> invite'[j]] /\ \A j \in Invites : "is" \in DOMAIN invite'[j]
        /\ invite'[i].is = "claimed"
        /\ \A j \in Invites \ {i} : invite'[j] = ended[j]
    BY <1>4, <2>1, <2>2
  <2> QED BY <2>3 DEF ended
<1>9. {"step", "whole", "expired"} \subseteq DOMAIN walk' /\ walk'.step = walk.step
      /\ walk'.whole = walk.whole /\ walk'.expired = walk.expired
  BY <1>3 DEF JoinInv, Shaped
<1>10. /\ call' = [b \in Callers |-> call'[b]] /\ call'[c] = NoCall
       /\ \A b \in Callers : {"step", "invite"} \subseteq DOMAIN call'[b] /\ (b # c => call'[b] = call[b])
  BY <1>2, CallChanged, Nones DEF JoinInv
<1> HIDE DEF i, r
<1>11. Shaped'
  BY <1>6, <1>8, <1>9, <1>10 DEF Shaped
<1>12. \A b \in Callers : Calling(b, "claimed")' => Calling(b, "claimed") /\ call'[b] = call[b] /\ b # c
  BY <1>10, Nones DEF Calling
<1>13. ClaimsAlone'
  <2>1. \A b \in Callers : call'[b].step \in {"claim", "claimed"} => call'[b].invite \in Invites
    BY <1>10, Nones DEF JoinInv, ClaimsAlone
  <2>2. ASSUME NEW b \in Callers, Calling(b, "claimed")'
        PROVE  Waiting(call[b].invite)'
    <3>1. Calling(b, "claimed") /\ call'[b] = call[b] /\ b # c
      BY <1>12, <2>2
    <3>2. call[b].invite \in Invites \ {i} /\ Waiting(call[b].invite) /\ Claiming(call[b].invite)
      BY <1>5, <3>1 DEF JoinInv, ClaimsAlone, Calling, Claiming
    <3>3. invite'[call[b].invite].is = invite[call[b].invite].is
      BY <1>2, <1>7, <1>8, <3>2
    <3> QED BY <3>1, <3>2, <3>3 DEF Waiting
  <2> QED BY <1>12, <2>1, <2>2 DEF JoinInv, ClaimsAlone
<1>14. ExpiringAlone'
  <2> SUFFICES ASSUME NEW j \in Invites, Expiring(j)'
               PROVE  invite'[j].is # "claimed" /\ ~Claiming(j)'
    BY DEF ExpiringAlone
  <2>1. Expiring(j) /\ invite[j].is # "claimed" /\ ~Claiming(j)
    BY <1>9 DEF Expiring, JoinInv, ExpiringAlone
  <2>2. j # i
    BY <1>4, <2>1
  <2>3. invite'[j].is # "claimed"
    BY <1>7, <1>8, <2>1, <2>2
  <2> QED BY <1>12, <2>1, <2>3 DEF Claiming
<1>15. \A e \in Paired : device[e].by # i
  BY <1>4, PairingAssumption DEF JoinInv, OneJoinsAnInvite, Waiting, JoinedByInvite, Invites
<1>16. JoinedByInvite' /\ CommitsWhole'
  BY <1>4, <1>6, <1>9 DEF JoinInv, JoinedByInvite, CommitsWhole, Walking
<1>17. OneJoinsAnInvite'
  <2> SUFFICES ASSUME NEW e \in Paired, device'[e].by # 0
               PROVE  /\ invite'[device'[e].by].is = "claimed"
                      /\ \A f \in Paired : device'[f].by = device'[e].by => f = e
    BY DEF OneJoinsAnInvite
  <2>1. CASE e = d
    BY <1>6, <1>8, <1>15, <2>1
  <2>2. CASE e # d
    <3>1. device'[e].by = device[e].by /\ device[e].by # 0 /\ device[e].by # i
      BY <1>6, <1>15, <2>2
    <3>2. invite[device[e].by].is = "claimed" /\ device[e].by \in Invites \ {i}
      BY <3>1 DEF JoinInv, OneJoinsAnInvite, JoinedByInvite
    <3>3. invite'[device[e].by].is = "claimed"
      BY <1>7, <1>8, <3>2
    <3>4. ASSUME NEW f \in Paired, device'[f].by = device'[e].by PROVE f = e
      BY <1>6, <3>1, <3>4 DEF JoinInv, OneJoinsAnInvite
    <3> QED BY <3>1, <3>3, <3>4
  <2> QED BY <2>1, <2>2
<1> QED BY <1>11, <1>13, <1>14, <1>16, <1>17 DEF JoinInv

\* An invite is cancelled only if no one has taken it.
LEMMA CancelKeeps == ASSUME JoinInv, NEW i \in Invites, InviteCancelled(i) PROVE JoinInv'
<1>1. UNCHANGED <<device, call, walk>> /\ invite' = [invite EXCEPT ![i].is = "over"]
      /\ invite[i].is = "waiting" /\ ~Claiming(i)
  BY DEF InviteCancelled, Waiting
<1>2. \A j \in Invites : "is" \in DOMAIN invite[j]
  BY DEF JoinInv, Shaped
<1>3. invite' = [j \in Invites |-> invite'[j]] /\ \A j \in Invites : "is" \in DOMAIN invite'[j]
  BY <1>1, <1>2 DEF JoinInv, Shaped
<1>4. \A j \in Invites : j # i => invite'[j].is = invite[j].is
  BY <1>1, <1>2 DEF JoinInv, Shaped
<1>5. invite'[i].is = "over"
  BY <1>1, <1>2 DEF JoinInv, Shaped
<1>6. Shaped'
  BY <1>1, <1>3 DEF JoinInv, Shaped
<1> QED BY <1>1, <1>4, <1>5, <1>6, QuietKeeps DEF Expiring, CommitsWhole, Walking, JoinInv

\* A revocation or a removal begins with nothing to end.
LEMMA BeginsKeep ==
  ASSUME JoinInv, NEW d \in Paired, RevokeBegins(d) \/ RemoveBegins(d)
  PROVE  JoinInv'
<1>1. UNCHANGED <<invite, call>> /\ \E whole \in BOOLEAN : Begins(d, whole)
  BY DEF RevokeBegins, RemoveBegins
<1>2. {"step", "whole", "expired"} \subseteq DOMAIN walk' /\ walk'.step = "invites" /\ walk'.expired = {}
  BY <1>1 DEF Begins, NoWalk
<1>3. UNCHANGED device \/ device' = [device EXCEPT ![d].signedIn = FALSE]
  BY DEF RevokeBegins, RemoveBegins
<1>4. \A e \in Paired : {"is", "by"} \subseteq DOMAIN device[e]
  BY DEF JoinInv, Shaped
<1>5. /\ device' = [e \in Paired |-> device'[e]]
      /\ \A e \in Paired : {"is", "by"} \subseteq DOMAIN device'[e] /\ device'[e].by = device[e].by
  BY <1>3, <1>4 DEF JoinInv, Shaped
<1>6. Shaped'
  BY <1>1, <1>2, <1>5 DEF JoinInv, Shaped
<1> QED BY <1>1, <1>2, <1>5, <1>6, QuietKeeps DEF Expiring, CommitsWhole, Walking, JoinInv

\* A walk ends the invites it finds waiting, that no one has taken.
LEMMA InvitesKeep == ASSUME JoinInv, WalkInvites PROVE JoinInv'
<1> DEFINE ends == {i \in Invites : Waiting(i) /\ invite[i].parent \in walk.parents}
<1>1. /\ UNCHANGED <<device, call>> /\ \A i \in ends : ~Claiming(i)
      /\ walk' = [walk EXCEPT !.step = "find", !.expired = IF walk.whole THEN walk.expired \cup ends ELSE walk.expired]
      /\ invite' = IF walk.whole THEN invite
                   ELSE [i \in Invites |-> IF i \in ends THEN [invite[i] EXCEPT !.is = "over"] ELSE invite[i]]
  BY DEF WalkInvites, JoinInv, Shaped
<1>2. \A i \in ends : invite[i].is = "waiting"
  BY DEF Waiting
<1> HIDE DEF ends
<1>3. /\ {"step", "whole", "expired"} \subseteq DOMAIN walk' /\ walk'.step = "find" /\ walk'.whole = walk.whole
      /\ walk'.expired = IF walk.whole THEN walk.expired \cup ends ELSE walk.expired
  BY <1>1 DEF JoinInv, Shaped
<1>4. \A i \in Invites : "is" \in DOMAIN invite[i]
  BY DEF JoinInv, Shaped
<1>5. CASE walk.whole
  <2>1. UNCHANGED <<device, call, invite>>
    BY <1>1, <1>5
  <2>2. Shaped'
    BY <1>3, <2>1 DEF JoinInv, Shaped
  <2>3. ClaimsAlone'
    BY <2>1 DEF JoinInv, ClaimsAlone, Calling, Waiting
  <2>4. ExpiringAlone'
    BY <1>1, <1>2, <1>3, <1>5, <2>1 DEF JoinInv, ExpiringAlone, Expiring, Claiming, Calling
  <2>5. JoinedByInvite' /\ OneJoinsAnInvite' /\ CommitsWhole'
    BY <1>3, <2>1 DEF JoinInv, JoinedByInvite, OneJoinsAnInvite, CommitsWhole, Walking
  <2> QED BY <2>2, <2>3, <2>4, <2>5 DEF JoinInv
<1>6. CASE ~walk.whole
  <2>1. invite' = [i \in Invites |-> IF i \in ends THEN [invite[i] EXCEPT !.is = "over"] ELSE invite[i]]
    BY <1>1, <1>6
  <2>2. invite' = [i \in Invites |-> invite'[i]] /\ \A i \in Invites : "is" \in DOMAIN invite'[i]
    BY <1>4, <2>1
  <2>3. \A i \in Invites : IF i \in ends THEN invite'[i].is = "over" ELSE invite'[i].is = invite[i].is
    BY <1>4, <2>1, InviteOver
  <2>4. Shaped'
    BY <1>1, <1>3, <2>2 DEF JoinInv, Shaped
  <2>5. (\A i \in Invites : Expiring(i)' => Expiring(i)) /\ CommitsWhole'
    BY <1>3, <1>6 DEF Expiring, CommitsWhole, Walking
  <2> QED BY <1>1, <1>2, <2>3, <2>4, <2>5, QuietKeeps
<1> QED BY <1>5, <1>6

\* What a walk finds and marks has to do with no invite.
LEMMA MarksKeep == ASSUME JoinInv, WalkFinds \/ WalkMarks PROVE JoinInv'
<1>1. UNCHANGED <<invite, call>> /\ (UNCHANGED device \/ \E ds : device' = Revoked(ds))
  BY DEF WalkFinds, WalkMarks
<1>2. {"step", "whole", "expired"} \subseteq DOMAIN walk' /\ (walk'.step = "commit" => walk.whole)
      /\ walk'.whole = walk.whole /\ walk'.expired = walk.expired
  BY DEF WalkFinds, WalkMarks, JoinInv, Shaped
<1>3. /\ device' = [e \in Paired |-> device'[e]]
      /\ \A e \in Paired : {"is", "by"} \subseteq DOMAIN device'[e] /\ device'[e].by = device[e].by
  BY <1>1, RevokedKeeps DEF JoinInv, Shaped
<1>4. Shaped'
  BY <1>1, <1>2, <1>3 DEF JoinInv, Shaped
<1> QED BY <1>1, <1>2, <1>3, <1>4, QuietKeeps DEF Expiring, CommitsWhole, Walking, JoinInv

\* What a revocation ends, as it commits, no one has taken.
LEMMA CommitKeeps == ASSUME JoinInv, RevokeCommits PROVE JoinInv'
<1>0. walk.whole
  BY DEF RevokeCommits, JoinInv, CommitsWhole
<1>1. JoinInv'
  <2>1. /\ UNCHANGED call /\ device' = Revoked(walk.marked) /\ walk' = [NoWalk EXCEPT !.of = walk.of]
        /\ invite' = [i \in Invites |-> IF i \in walk.expired THEN [invite[i] EXCEPT !.is = "over"] ELSE invite[i]]
    BY DEF RevokeCommits
  <2>2. {"step", "whole", "expired"} \subseteq DOMAIN walk' /\ walk'.step = "none" /\ walk'.whole = FALSE
    BY <2>1 DEF NoWalk
  <2>3. \A i \in Invites : "is" \in DOMAIN invite[i]
    BY DEF JoinInv, Shaped
  <2>4. invite' = [i \in Invites |-> invite'[i]] /\ \A i \in Invites : "is" \in DOMAIN invite'[i]
    BY <2>1, <2>3
  <2>5. \A i \in Invites : IF Expiring(i) THEN invite'[i].is = "over" ELSE invite'[i].is = invite[i].is
    BY <1>0, <2>1, <2>3, InviteOver DEF Expiring
  <2>6. /\ device' = [e \in Paired |-> device'[e]]
        /\ \A e \in Paired : {"is", "by"} \subseteq DOMAIN device'[e] /\ device'[e].by = device[e].by
    BY <2>1, RevokedKeeps DEF JoinInv
  <2>7. Shaped'
    BY <2>1, <2>2, <2>4, <2>6 DEF JoinInv, Shaped
  <2>8. \A i \in Invites : \/ invite'[i].is = invite[i].is
                           \/ invite[i].is # "claimed" /\ ~Claiming(i) /\ invite'[i].is # "claimed"
    BY <2>5 DEF JoinInv, ExpiringAlone
  <2> QED BY <2>1, <2>2, <2>6, <2>7, <2>8, QuietKeeps DEF Expiring, CommitsWhole, Walking, JoinInv
<1> QED BY <1>1

\* A removal hands on what the device paired, and deletes it: no one joins,
\* and no invite changes but for what made it.
LEMMA RemovalKeeps == ASSUME JoinInv, RemoveDetaches \/ RemoveDeletes \/ WalkFails PROVE JoinInv'
<1>1. /\ UNCHANGED call
      /\ \/ walk' = [walk EXCEPT !.step = "delete"]
         \/ walk' = NoWalk
  BY DEF RemoveDetaches, RemoveDeletes, WalkFails
<1>2. /\ {"step", "whole", "expired"} \subseteq DOMAIN walk' /\ walk'.step # "commit"
      /\ \A i \in Invites : Expiring(i)' => Expiring(i)
  BY <1>1, Nones DEF JoinInv, Shaped, Expiring
<1>3. \A e \in Paired : {"is", "by"} \subseteq DOMAIN device[e]
  BY DEF JoinInv, Shaped
<1>4. /\ device' = [e \in Paired |-> device'[e]]
      /\ \A e \in Paired : {"is", "by"} \subseteq DOMAIN device'[e] /\ device'[e].by \in {0, device[e].by}
  <2>1. CASE RemoveDetaches
    BY <1>3, <2>1, ParentChanged DEF RemoveDetaches
  <2>2. CASE RemoveDeletes
    <3>1. device' = Handed(walk.of, Nobodys)
      BY <2>2 DEF RemoveDeletes
    <3> QED BY <3>1, HandedKeeps DEF JoinInv
  <2>3. CASE WalkFails
    BY <1>3, <2>3 DEF WalkFails, JoinInv, Shaped
  <2> QED BY <2>1, <2>2, <2>3
<1>5. \A i \in Invites : "is" \in DOMAIN invite[i]
  BY DEF JoinInv, Shaped
<1>6. /\ invite' = [i \in Invites |-> invite'[i]]
      /\ \A i \in Invites : "is" \in DOMAIN invite'[i] /\ invite'[i].is = invite[i].is
  <2>1. CASE UNCHANGED invite
    BY <1>5, <2>1 DEF JoinInv, Shaped
  <2>2. CASE RemoveDeletes
    <3>1. invite' = [i \in Invites |-> IF invite[i].parent = walk.of THEN [invite[i] EXCEPT !.parent = Nobodys]
                                       ELSE invite[i]]
      BY <2>2 DEF RemoveDeletes
    <3> QED BY <1>5, <3>1
  <2> QED BY <2>1, <2>2 DEF RemoveDetaches, WalkFails
<1>7. Shaped'
  BY <1>1, <1>2, <1>4, <1>6 DEF JoinInv, Shaped
<1> QED BY <1>1, <1>2, <1>4, <1>6, <1>7, QuietKeeps DEF CommitsWhole, Walking

\* Nor when all revoked records are removed, whoever is handed to whom.
LEMMA RevokedRemovedKeeps == ASSUME JoinInv, RevokedRemoved PROVE JoinInv'
<1>1. PICK stays :
        /\ device' = [d \in Paired |-> IF device[d].is = "revoked" THEN [NoDevice EXCEPT !.is = "removed"]
                                       ELSE [device[d] EXCEPT !.parent = stays[device[d].parent]]]
        /\ invite' = [i \in Invites |-> IF invite[i].parent # stays[invite[i].parent]
                                          THEN [invite[i] EXCEPT !.parent = Nobodys] ELSE invite[i]]
        /\ \E ds : Noted(ds)
  BY DEF RevokedRemoved
<1>2. UNCHANGED call
  BY DEF RevokedRemoved
<1>3. /\ {"step", "whole", "expired"} \subseteq DOMAIN walk' /\ walk'.step = walk.step
      /\ walk'.whole = walk.whole /\ walk'.expired = walk.expired
  BY <1>1 DEF Noted, JoinInv, Shaped
<1>4. /\ device' = [d \in Paired |-> device'[d]]
      /\ \A d \in Paired : {"is", "by"} \subseteq DOMAIN device'[d] /\ device'[d].by \in {0, device[d].by}
  <2>1. ASSUME NEW d \in Paired
        PROVE  {"is", "by"} \subseteq DOMAIN device'[d] /\ device'[d].by \in {0, device[d].by}
    <3>1. \/ device'[d] = [NoDevice EXCEPT !.is = "removed"]
          \/ device'[d] = [device[d] EXCEPT !.parent = stays[device[d].parent]]
      BY <1>1
    <3>2. {"is", "by"} \subseteq DOMAIN [NoDevice EXCEPT !.is = "removed"]
          /\ [NoDevice EXCEPT !.is = "removed"].by = 0
      BY DEF NoDevice
    <3>3. {"is", "by"} \subseteq DOMAIN device[d]
      BY DEF JoinInv, Shaped
    <3> QED BY <3>1, <3>2, <3>3, ParentChanged
  <2> QED BY <1>1, <2>1
<1>5. \A i \in Invites : "is" \in DOMAIN invite[i]
  BY DEF JoinInv, Shaped
<1>6. /\ invite' = [i \in Invites |-> invite'[i]]
      /\ \A i \in Invites : "is" \in DOMAIN invite'[i] /\ invite'[i].is = invite[i].is
  BY <1>1, <1>5
<1>7. Shaped'
  BY <1>2, <1>3, <1>4, <1>6 DEF JoinInv, Shaped
<1> QED BY <1>2, <1>3, <1>4, <1>6, <1>7, QuietKeeps DEF Expiring, CommitsWhole, Walking, JoinInv

\* Every step keeps the invariant.
LEMMA StepJoin == JoinInv /\ [PairingNext]_pairingVars => JoinInv'
<1> SUFFICES ASSUME JoinInv, [PairingNext]_pairingVars PROVE JoinInv'
  OBVIOUS
<1>1. CASE UNCHANGED pairingVars
  BY <1>1 DEF pairingVars, JoinInv, Shaped, ClaimsAlone, ExpiringAlone, JoinedByInvite, CommitsWhole,
              OneJoinsAnInvite, Calling, Claiming, Expiring, Waiting, Walking
<1>2. ASSUME NEW c \in Callers,
             \/ InviteAsked(c) \/ InviteMade(c) \/ WatchAsked(c) \/ WatchJoined(c)
             \/ ClaimAsked(c) \/ ClaimTakes(c) \/ ClaimJoins(c) \/ ClaimFails(c)
      PROVE  JoinInv'
  BY <1>2, AsksKeep, InviteMadeKeeps, WatchKeeps, TakesKeep, JoinsKeep
<1> QED BY <1>1, <1>2, CancelKeeps, BeginsKeep, InvitesKeep, MarksKeep, CommitKeeps, RemovalKeeps,
           RevokedRemovedKeeps DEF PairingNext

\* For any number of callers, devices and invites: an invite admits one
\* device, however many claim it at once, whoever cancels it, and whatever is
\* revoked or removed meanwhile; and none once it is over (pairing.ts, claimInvite).
THEOREM InvitesAdmitOne == PairingSpec => []OneJoinsAnInvite
<1>1. JoinInv => OneJoinsAnInvite
  BY DEF JoinInv
<1> QED BY <1>1, InitJoin, StepJoin, PTL DEF PairingSpec

----------------------------------------------------------------------------
(* Types of what is paired                                                 *)

Someone == 0..MaxDevices

DeviceRecords == [is : {"unused", "active", "revoked", "removed"}, signedIn : BOOLEAN, watch : BOOLEAN,
                  again : BOOLEAN, parent : Someone, by : 0..MaxInvites]
InviteRecords == [is : {"unused", "waiting", "claimed", "over"}, parent : Someone, replaces : Someone]
CallRecords == [step : {"idle", "invite", "watch", "claim", "claimed"}, from : Someone, replaces : Someone,
                invite : 0..MaxInvites]
WalkSteps == {"none", "invites", "find", "mark", "commit", "detach", "delete"}
WalkRecords == [step : WalkSteps, of : Someone, whole : BOOLEAN, parents : SUBSET Paired, found : SUBSET Paired,
                seen : SUBSET Paired, marked : SUBSET Paired, expired : SUBSET Invites, before : SUBSET Invites,
                late : SUBSET Paired]

PairingTypeOK ==
  /\ device \in [Paired -> DeviceRecords]
  /\ invite \in [Invites -> InviteRecords]
  /\ call \in [Callers -> CallRecords]
  /\ walk \in WalkRecords
  /\ (walk.step # "none") => walk.of \in Paired

\* The devices are among the records a record can name, and no device is nobody.
LEMMA Bounds == 0 \in Someone /\ 0 \in 0..MaxInvites /\ Paired \subseteq Someone /\ Invites \subseteq 0..MaxInvites
                /\ 1 \in Paired /\ 2 \in Paired /\ 3 \in Paired /\ 0 \notin Paired /\ 0 \notin Invites
                /\ Someone = Paired \cup {0} 
BY PairingAssumption DEF Someone, Paired, Invites

\* The records things begin with are records.
LEMMA Blank ==
  /\ NoDevice \in DeviceRecords /\ \A p \in Someone : NewPhone(p) \in DeviceRecords
  /\ NoInvite \in InviteRecords /\ NoCall \in CallRecords /\ NoWalk \in WalkRecords
BY Bounds DEF NoDevice, NewPhone, NoInvite, NoCall, NoWalk, DeviceRecords, InviteRecords, CallRecords, WalkRecords,
              WalkSteps, Nobodys

\* Initially the types hold.
LEMMA InitPairingType == PairingInit => PairingTypeOK
<1> SUFFICES ASSUME PairingInit PROVE PairingTypeOK
  OBVIOUS
<1>1. device \in [Paired -> DeviceRecords]
  <2>1. PICK p \in {1, 2}, gone \in BOOLEAN : device = FirstDevices(p, gone)
    BY DEF PairingInit
  <2>2. p \in Someone /\ 1 \in Someone /\ Nobodys \in Someone
    BY Bounds DEF Nobodys
  <2>3. [NewPhone(1) EXCEPT !.is = IF gone THEN "revoked" ELSE "active", !.signedIn = ~gone] \in DeviceRecords
    BY <2>2, Blank DEF DeviceRecords
  <2>4. [NewPhone(p) EXCEPT !.again = gone] \in DeviceRecords
    BY <2>2, Blank DEF DeviceRecords
  <2>5. NewPhone(Nobodys) \in DeviceRecords /\ NoDevice \in DeviceRecords
    BY <2>2, Blank
  <2>6. ASSUME NEW d \in Paired
        PROVE  (CASE d = 1 -> NewPhone(Nobodys)
    [] d = 2 -> [NewPhone(1) EXCEPT !.is = IF gone THEN "revoked" ELSE "active", !.signedIn = ~gone]
    [] d = 3 -> [NewPhone(p) EXCEPT !.again = gone]
    [] OTHER -> NoDevice) \in DeviceRecords
    BY <2>3, <2>4, <2>5 DEF Paired
  <2> QED BY <2>1, <2>6 DEF FirstDevices
<1>2. invite \in [Invites -> InviteRecords]
  <2>1. [NoInvite EXCEPT !.is = "waiting", !.parent = 3] \in InviteRecords
    BY Bounds, Blank DEF InviteRecords
  <2> QED BY <2>1, Blank DEF PairingInit
<1>3. call \in [Callers -> CallRecords] /\ walk \in WalkRecords /\ walk.step = "none"
  BY Blank DEF PairingInit, NoWalk
<1> QED BY <1>1, <1>2, <1>3 DEF PairingTypeOK

\* Devices that are revoked are devices.
LEMMA RevokedType == ASSUME PairingTypeOK, NEW ds PROVE Revoked(ds) \in [Paired -> DeviceRecords]
BY DEF PairingTypeOK, Revoked, DeviceRecords

\* So are those handed on.
LEMMA HandedType == ASSUME PairingTypeOK, NEW r, NEW n \in Someone PROVE Handed(r, n) \in [Paired -> DeviceRecords]
<1>1. [NoDevice EXCEPT !.is = "removed"] \in DeviceRecords
  BY Blank DEF DeviceRecords
<1>2. ASSUME NEW d \in Paired PROVE [device[d] EXCEPT !.parent = n] \in DeviceRecords
  BY DEF PairingTypeOK, DeviceRecords
<1> QED BY <1>1, <1>2 DEF Handed, PairingTypeOK

\* And invites that end are invites.
LEMMA EndedType == ASSUME PairingTypeOK, NEW r PROVE Ended(r) \in [Invites -> InviteRecords]
<1>1. ASSUME NEW i \in Invites, NEW is \in {"over", invite[i].is}
      PROVE  [invite[i] EXCEPT !.parent = Nobodys, !.is = is] \in InviteRecords
  <2>1. Nobodys \in Someone /\ invite[i] \in InviteRecords
    BY Bounds DEF PairingTypeOK, Nobodys
  <2>2. is \in {"unused", "waiting", "claimed", "over"}
    BY <2>1 DEF InviteRecords
  <2> QED BY <2>1, <2>2 DEF InviteRecords
<1>2. ASSUME NEW i \in Invites PROVE Ended(r)[i] \in InviteRecords
  <2>1. \/ Ended(r)[i] = invite[i]
        \/ Ended(r)[i] = [invite[i] EXCEPT !.parent = Nobodys, !.is = IF @ = "waiting" THEN "over" ELSE @]
    BY DEF Ended
  <2>2. [invite[i] EXCEPT !.parent = Nobodys, !.is = IF @ = "waiting" THEN "over" ELSE @]
          = [invite[i] EXCEPT !.parent = Nobodys, !.is = IF invite[i].is = "waiting" THEN "over" ELSE invite[i].is]
    BY DEF PairingTypeOK, InviteRecords
  <2> QED BY <1>1, <2>1, <2>2 DEF PairingTypeOK
<1> QED BY <1>2 DEF Ended

\* A step of a call keeps the types.
LEMMA CallsType ==
  ASSUME PairingTypeOK, NEW c \in Callers,
         InviteAsked(c) \/ InviteMade(c) \/ WatchAsked(c) \/ ClaimAsked(c) \/ ClaimTakes(c) \/ ClaimFails(c)
  PROVE  PairingTypeOK'
<1>1. UNCHANGED <<device, walk>>
  BY DEF InviteAsked, InviteMade, WatchAsked, ClaimAsked, ClaimTakes, ClaimFails
<1>2. call' \in [Callers -> CallRecords]
  <2>1. CASE InviteAsked(c)
    <3>1. PICK p \in Someone, r \in Someone :
            call' = [call EXCEPT ![c] = [NoCall EXCEPT !.step = "invite", !.from = p, !.replaces = r]]
      BY <2>1, Bounds DEF InviteAsked, Nobodys
    <3>2. [NoCall EXCEPT !.step = "invite", !.from = p, !.replaces = r] \in CallRecords
      BY Blank DEF CallRecords
    <3> QED BY <3>1, <3>2 DEF PairingTypeOK
  <2>2. CASE WatchAsked(c)
    <3>1. PICK p \in Someone : call' = [call EXCEPT ![c] = [NoCall EXCEPT !.step = "watch", !.from = p]]
      BY <2>2, Bounds DEF WatchAsked
    <3>2. [NoCall EXCEPT !.step = "watch", !.from = p] \in CallRecords
      BY Blank DEF CallRecords
    <3> QED BY <3>1, <3>2 DEF PairingTypeOK
  <2>3. CASE ClaimAsked(c)
    <3>1. PICK i \in Invites :
            call' = [call EXCEPT ![c] = [NoCall EXCEPT !.step = "claim", !.invite = i, !.from = invite[i].parent,
                                                       !.replaces = invite[i].replaces]]
      BY <2>3 DEF ClaimAsked
    <3>2. invite[i].parent \in Someone /\ invite[i].replaces \in Someone /\ i \in 0..MaxInvites
      BY Bounds DEF PairingTypeOK, InviteRecords
    <3>3. [NoCall EXCEPT !.step = "claim", !.invite = i, !.from = invite[i].parent,
                         !.replaces = invite[i].replaces] \in CallRecords
      BY <3>2, Blank DEF CallRecords
    <3> QED BY <3>1, <3>3 DEF PairingTypeOK
  <2>4. CASE ClaimTakes(c)
    BY <2>4, Blank DEF ClaimTakes, PairingTypeOK, CallRecords
  <2> QED BY <2>1, <2>2, <2>3, <2>4, Blank DEF InviteMade, ClaimFails, PairingTypeOK
<1>3. invite' \in [Invites -> InviteRecords]
  <2>1. CASE InviteMade(c)
    BY <2>1 DEF InviteMade, PairingTypeOK, CallRecords, InviteRecords
  <2> QED BY <2>1 DEF InviteAsked, WatchAsked, ClaimAsked, ClaimTakes, ClaimFails, PairingTypeOK
<1> QED BY <1>1, <1>2, <1>3 DEF PairingTypeOK

\* Noting who joins changes neither what is walked nor how far.
LEMMA NotedType == ASSUME PairingTypeOK, NEW ds \in SUBSET Paired, Noted(ds) PROVE walk' \in WalkRecords /\ walk'.step = walk.step /\ walk'.of = walk.of
BY DEF PairingTypeOK, Noted, WalkRecords

\* A Watch that joins keeps them.
LEMMA WatchType == ASSUME PairingTypeOK, NEW c \in Callers, WatchJoined(c) PROVE PairingTypeOK'
<1>1. UNCHANGED invite /\ call' \in [Callers -> CallRecords]
  BY Blank DEF WatchJoined, PairingTypeOK
<1>2. CASE UNCHANGED <<device, walk>>
  BY <1>1, <1>2 DEF PairingTypeOK
<1>3. CASE ~UNCHANGED <<device, walk>>
  <2> DEFINE olds == {{}} \cup {{w} : w \in {w \in Paired : device[w].watch /\ device[w].is = "active"}}
  <2>1. PICK d \in Paired, old \in olds :
          /\ device' = [Revoked(old) EXCEPT ![d] = [NewPhone(call[c].from) EXCEPT !.watch = TRUE]]
          /\ Noted({d})
    BY <1>3 DEF WatchJoined
  <2>2. [NewPhone(call[c].from) EXCEPT !.watch = TRUE] \in DeviceRecords
    BY Blank DEF PairingTypeOK, CallRecords, DeviceRecords
  <2>3. device' \in [Paired -> DeviceRecords]
    BY <2>1, <2>2, RevokedType
  <2> QED BY <1>1, <2>1, <2>3, NotedType DEF PairingTypeOK
<1> QED BY <1>2, <1>3

\* A phone that joins keeps them.
LEMMA JoinsType == ASSUME PairingTypeOK, NEW c \in Callers, ClaimJoins(c) PROVE PairingTypeOK'
<1> DEFINE i == call[c].invite
           r == call[c].replaces
           p == IF r = Nobodys THEN call[c].from ELSE device[r].parent
<1>1. r \in Someone /\ p \in Someone /\ i \in 0..MaxInvites
  BY Bounds DEF PairingTypeOK, CallRecords, DeviceRecords, Nobodys
<1>2. call' \in [Callers -> CallRecords]
  BY Blank DEF ClaimJoins, PairingTypeOK
<1>3. invite' \in [Invites -> InviteRecords]
  <2>1. invite' = [Ended(r) EXCEPT ![i].is = "claimed"]
    BY DEF ClaimJoins
  <2>2. \A j \in Invites : [Ended(r)[j] EXCEPT !.is = "claimed"] \in InviteRecords
    BY EndedType DEF InviteRecords
  <2> QED BY <2>1, <2>2, EndedType
<1>4. PICK d \in Paired :
        /\ device' = [(IF r = Nobodys THEN device ELSE Handed(r, d)) EXCEPT ![d] =
                        [NewPhone(p) EXCEPT !.by = i, !.again = (r # Nobodys)]]
        /\ Noted(IF r = Nobodys /\ i \in walk.before THEN {} ELSE {d})
  BY DEF ClaimJoins
<1>5. [NewPhone(p) EXCEPT !.by = i, !.again = (r # Nobodys)] \in DeviceRecords
  BY <1>1, Blank DEF DeviceRecords
<1>6. device' \in [Paired -> DeviceRecords]
  <2>1. d \in Someone
    BY Bounds
  <2>2. (IF r = Nobodys THEN device ELSE Handed(r, d)) \in [Paired -> DeviceRecords]
    BY <2>1, HandedType DEF PairingTypeOK
  <2> QED BY <1>4, <1>5, <2>2
<1> QED BY <1>2, <1>3, <1>4, <1>6, NotedType DEF PairingTypeOK

\* A step of a revocation or removal keeps them.
LEMMA WalksType ==
  ASSUME PairingTypeOK,
         \/ \E d \in Paired : RevokeBegins(d) \/ RemoveBegins(d)
         \/ WalkInvites \/ WalkFinds \/ WalkMarks \/ RevokeCommits \/ RemoveDetaches \/ RemoveDeletes \/ WalkFails
  PROVE  PairingTypeOK'
<1>1. UNCHANGED call
  BY DEF RevokeBegins, RemoveBegins, WalkInvites, WalkFinds, WalkMarks, RevokeCommits, RemoveDetaches, RemoveDeletes,
         WalkFails
<1>2. walk' \in WalkRecords /\ (walk'.step # "none" => walk'.of \in Paired)
  <2>1. ASSUME NEW d \in Paired, NEW whole \in BOOLEAN, Begins(d, whole)
        PROVE  walk' \in WalkRecords /\ (walk'.step # "none" => walk'.of \in Paired)
    <3>1. {i \in Invites : invite[i].is # "unused"} \in SUBSET Invites
      OBVIOUS
    <3>2. d \in Someone /\ {d} \in SUBSET Paired /\ (IF whole THEN {d} ELSE {}) \in SUBSET Paired
      BY Bounds
    <3> QED BY <2>1, <3>1, <3>2, Blank DEF Begins, WalkRecords, WalkSteps
  <2>2. CASE WalkInvites
    <3> DEFINE ends == {i \in Invites : Waiting(i) /\ invite[i].parent \in walk.parents}
    <3>1. walk' = [walk EXCEPT !.step = "find", !.expired = IF walk.whole THEN walk.expired \cup ends ELSE walk.expired]
      BY <2>2 DEF WalkInvites, PairingTypeOK, WalkRecords
    <3>2. ends \in SUBSET Invites
      OBVIOUS
    <3> HIDE DEF ends
    <3>3. walk' \in WalkRecords /\ walk'.of = walk.of
      BY <3>1, <3>2 DEF PairingTypeOK, WalkRecords, WalkSteps
    <3>4. walk.step = "invites"
      BY <2>2 DEF WalkInvites, Walking
    <3> QED BY <3>3, <3>4 DEF PairingTypeOK
  <2>3. CASE WalkFinds
    <3>1. Companions \in SUBSET Paired
      BY DEF Companions
    <3>2. walk' = [walk EXCEPT !.step = "mark", !.found = Companions, !.seen = walk.seen \cup Companions]
      BY <2>3 DEF WalkFinds, PairingTypeOK, WalkRecords
    <3>3. walk' \in WalkRecords /\ walk'.of = walk.of
      BY <3>1, <3>2 DEF PairingTypeOK, WalkRecords, WalkSteps
    <3>4. walk.step = "find"
      BY <2>3 DEF WalkFinds, Walking
    <3> QED BY <3>3, <3>4 DEF PairingTypeOK
  <2>4. CASE WalkMarks
    <3> DEFINE marks == {d \in walk.found : OnFile(d)}
               next == IF walk.found # {} THEN "invites" ELSE IF walk.whole THEN "commit" ELSE "detach"
    <3>1. walk' = [walk EXCEPT !.step = next, !.marked = IF walk.whole THEN walk.marked \cup marks ELSE walk.marked,
                               !.parents = walk.found, !.found = {}]
      BY <2>4 DEF WalkMarks, PairingTypeOK, WalkRecords
    <3>2. marks \in SUBSET Paired /\ next \in WalkSteps
      BY DEF PairingTypeOK, WalkRecords, WalkSteps
    <3> HIDE DEF marks, next
    <3>3. walk' \in WalkRecords /\ walk'.of = walk.of
      BY <3>1, <3>2 DEF PairingTypeOK, WalkRecords
    <3>4. walk.step = "mark"
      BY <2>4 DEF WalkMarks, Walking
    <3> QED BY <3>3, <3>4 DEF PairingTypeOK
  <2>5. CASE RevokeCommits
    <3>1. walk.of \in Someone /\ walk' = [NoWalk EXCEPT !.of = walk.of]
      BY <2>5 DEF RevokeCommits, PairingTypeOK, WalkRecords
    <3>2. walk'.step = "none"
      BY <3>1 DEF NoWalk
    <3> QED BY <3>1, <3>2, Blank DEF WalkRecords
  <2>6. CASE RemoveDetaches
    BY <2>6 DEF RemoveDetaches, PairingTypeOK, WalkRecords, WalkSteps, Walking
  <2>7. NoWalk.step = "none"
    BY DEF NoWalk
  <2> QED BY <2>1, <2>2, <2>3, <2>4, <2>5, <2>6, <2>7, Blank DEF RevokeBegins, RemoveBegins, RemoveDeletes, WalkFails
<1>3. device' \in [Paired -> DeviceRecords]
  <2>1. CASE \E d \in Paired : RemoveBegins(d)
    <3>1. PICK d \in Paired : device' = [device EXCEPT ![d].signedIn = FALSE]
      BY <2>1 DEF RemoveBegins
    <3>2. [device[d] EXCEPT !.signedIn = FALSE] \in DeviceRecords
      BY DEF PairingTypeOK, DeviceRecords
    <3> QED BY <3>1, <3>2 DEF PairingTypeOK
  <2>2. CASE RemoveDetaches
    BY <2>2 DEF RemoveDetaches, PairingTypeOK, DeviceRecords, Walking
  <2>3. CASE RemoveDeletes
    BY <2>3, HandedType, Bounds DEF RemoveDeletes, Nobodys
  <2> QED BY <2>1, <2>2, <2>3, RevokedType DEF RevokeBegins, WalkInvites, WalkFinds, WalkMarks, RevokeCommits, WalkFails,
             PairingTypeOK
<1>4. invite' \in [Invites -> InviteRecords]
  <2>1. ASSUME NEW i \in Invites PROVE [invite[i] EXCEPT !.is = "over"] \in InviteRecords
                                    /\ [invite[i] EXCEPT !.parent = Nobodys] \in InviteRecords
    BY Bounds DEF PairingTypeOK, InviteRecords, Nobodys
  <2> QED BY <2>1 DEF RevokeBegins, RemoveBegins, WalkInvites, WalkFinds, WalkMarks, RevokeCommits, RemoveDetaches,
             RemoveDeletes, WalkFails, PairingTypeOK
<1> QED BY <1>1, <1>2, <1>3, <1>4 DEF PairingTypeOK

\* How the devices that were revoked are passed over, to the nearest that stays.
Stays == CHOOSE stays : stays = [d \in Someone |-> IF d = Nobodys \/ device[d].is # "revoked" THEN d
                                                 ELSE stays[device[d].parent]]
RevokedRemovedBy(stays) ==
       /\ device' = [d \in Paired |-> IF device[d].is = "revoked" THEN [NoDevice EXCEPT !.is = "removed"]
                                      ELSE [device[d] EXCEPT !.parent = stays[@]]]
       /\ invite' = [i \in Invites |-> IF invite[i].parent # stays[invite[i].parent]
                                         THEN [invite[i] EXCEPT !.parent = Nobodys] ELSE invite[i]]
       /\ Noted({d \in Paired : device[d].parent # stays[device[d].parent]})

\* The devices that were revoked are removed as the function says.
LEMMA RemovedByStays == RevokedRemoved => RevokedRemovedBy(Stays)
BY DEF RevokedRemoved, RevokedRemovedBy, Stays, Someone

----------------------------------------------------------------------------
(* A tree of devices                                                       *)

\* No device is paired from itself, however many devices lie between.
Treelike == \A S \in SUBSET Paired : S # {} => \E d \in S : device[d].parent \notin S

\* A device is paired from one that there is or was.
KnownParents == \A d \in Paired : device[d].parent # Nobodys => device[device[d].parent].is # "unused"

\* There is such a function: a device's chain of parents ends, at the one it is.
LEMMA StaysExists ==
  ASSUME PairingTypeOK, Treelike
  PROVE  Stays = [d \in Someone |-> IF d = Nobodys \/ device[d].is # "revoked" THEN d ELSE Stays[device[d].parent]]
<1> DEFINE Stop(x)   == x = Nobodys \/ device[x].is # "revoked"
           Closed(C) == \A x \in C : ~Stop(x) => device[x].parent \in C
           Chain(d)  == {x \in Someone : \A C \in SUBSET Someone : d \in C /\ Closed(C) => x \in C}
           Stops(d)  == {x \in Chain(d) : Stop(x)}
           g         == [d \in Someone |-> CHOOSE x \in Stops(d) : TRUE]
<1>1. \A x \in Someone : ~Stop(x) => x \in Paired /\ device[x].parent \in Someone
  BY Bounds DEF PairingTypeOK, DeviceRecords, Nobodys
<1>2. ASSUME NEW d \in Someone, Stop(d) PROVE Stops(d) = {d}
  <2>1. Closed({d})
    BY <1>2
  <2> HIDE DEF Stop, Closed
  <2> QED BY <1>2, <2>1
<1>3. ASSUME NEW d \in Someone, ~Stop(d) PROVE Stops(d) = Stops(device[d].parent)
  <2> DEFINE p == device[d].parent
  <2>1. ASSUME NEW x \in Stops(d) PROVE x \in Stops(p)
    <3>1. x \in Someone /\ Stop(x) /\ x # d
      BY <1>3
    <3>2. ASSUME NEW C \in SUBSET Someone, p \in C, Closed(C) PROVE x \in C
      <4>1. C \cup {d} \in SUBSET Someone /\ d \in C \cup {d}
        OBVIOUS
      <4>2. Closed(C \cup {d})
        BY <3>2
      <4>3. x \in C \cup {d}
        BY <4>1, <4>2
      <4> QED BY <4>3, <3>1
    <3> QED BY <3>1, <3>2
  <2>2. ASSUME NEW x \in Stops(p) PROVE x \in Stops(d)
    <3>1. ASSUME NEW C \in SUBSET Someone, d \in C, Closed(C) PROVE x \in C
      <4>1. p \in C
        BY <3>1, <1>3
      <4> QED BY <3>1, <4>1
    <3> QED BY <3>1
  <2> QED BY <2>1, <2>2
<1>4. ASSUME NEW d \in Someone PROVE g[d] = IF Stop(d) THEN d ELSE g[device[d].parent]
  <2>1. CASE Stop(d)
    <3>1. Stops(d) = {d}
      BY <1>2, <2>1
    <3>2. g[d] = CHOOSE x \in {d} : TRUE
      BY <3>1
    <3> QED BY <3>2, <2>1
  <2>2. CASE ~Stop(d)
    <3>1. Stops(d) = Stops(device[d].parent) /\ device[d].parent \in Someone
      BY <1>3, <1>1, <2>2
    <3> HIDE DEF Stops, Stop
    <3> QED BY <3>1, <2>2
  <2> HIDE DEF g, Stop
  <2> QED BY <2>1, <2>2
<1>5. g = [d \in Someone |-> IF d = Nobodys \/ device[d].is # "revoked" THEN d ELSE g[device[d].parent]]
  <2> HIDE DEF Stops
  <2>1. g = [d \in Someone |-> g[d]]
    OBVIOUS
  <2> HIDE DEF g
  <2> QED BY <1>4, <2>1
<1> HIDE DEF g
<1> QED BY <1>5 DEF Stays

\* Whoever stays is found among those a chain of parents leads to.
LEMMA StaysWell ==
  ASSUME PairingTypeOK, Treelike, NEW D \in SUBSET Someone, NEW Q,
         \A d \in D : IF d = Nobodys \/ device[d].is # "revoked" THEN d \in Q ELSE device[d].parent \in D
  PROVE  \A d \in D : Stays[d] \in Q
<1> DEFINE B == {d \in D \cap Paired : Stays[d] \notin Q}
<1>0. \A d \in D : Stays[d] = IF d = Nobodys \/ device[d].is # "revoked" THEN d ELSE Stays[device[d].parent]
  BY StaysExists
<1>1. B = {}
  <2> SUFFICES ASSUME B # {} PROVE FALSE
    OBVIOUS
  <2>1. PICK d \in B : device[d].parent \notin B
    BY DEF Treelike
  <2>2. d \in D /\ d # Nobodys /\ device[d].parent \in Someone /\ Stays[d] \notin Q
    BY Bounds DEF PairingTypeOK, DeviceRecords, Nobodys
  <2>3. device[d].is = "revoked" /\ device[d].parent \in D /\ Stays[d] = Stays[device[d].parent]
    BY <1>0, <2>2
  <2>4. device[d].parent = Nobodys \/ device[d].parent \in Paired
    BY <2>2, Bounds DEF Nobodys
  <2> QED BY <1>0, <2>1, <2>2, <2>3, <2>4
<1> QED BY <1>0, <1>1, Bounds DEF Nobodys

\* Losing parents, devices stay a tree.
LEMMA TreeFewer ==
  ASSUME Treelike, PairingTypeOK, \A d \in Paired : device'[d].parent \in {device[d].parent, Nobodys}
  PROVE  Treelike'
<1> SUFFICES ASSUME NEW S \in SUBSET Paired, S # {} PROVE \E d \in S : device'[d].parent \notin S
  BY DEF Treelike
<1> QED BY Bounds DEF Treelike, Nobodys

\* So they do with a new one, which may take the place of another.
LEMMA TreeNew ==
  ASSUME Treelike, PairingTypeOK, NEW n \in Paired, NEW p \in Someone, NEW r \in Someone,
         p # n, r # n, \A d \in Paired : device[d].parent # n,
         device'[n].parent = p,
         r # Nobodys => p = device[r].parent /\ device'[r].parent = Nobodys,
         \A d \in Paired \ {n, r} : device'[d].parent = IF r # Nobodys /\ device[d].parent = r THEN n ELSE device[d].parent
  PROVE  Treelike'
<1> SUFFICES ASSUME NEW S \in SUBSET Paired, S # {}, \A d \in S : device'[d].parent \in S PROVE FALSE
  BY DEF Treelike
<1> DEFINE T == (S \ {n}) \cup (IF r # Nobodys /\ n \in S THEN {r} ELSE {})
<1>1. T \in SUBSET Paired
  BY Bounds DEF Nobodys
<1>2. n \in S => p \in S \ {n}
  OBVIOUS
<1>3. T # {}
  BY <1>2
<1>4. PICK d \in T : device[d].parent \notin T
  BY <1>1, <1>3 DEF Treelike
<1>5. r # Nobodys => r \notin S
  BY Bounds DEF Nobodys
<1>6. CASE d = r
  BY <1>1, <1>2, <1>4, <1>5, <1>6, Bounds DEF Nobodys
<1>7. CASE d # r
  <2>1. d \in S \ {n, r} /\ d \in Paired
    BY <1>7
  <2>2. device'[d].parent \in S
    BY <2>1
  <2>3. r = Nobodys \/ device[d].parent # r
    BY <2>1, <2>2, <1>4, <1>1
  <2>4. device[d].parent \in S \ {n}
    BY <2>1, <2>2, <2>3
  <2> QED BY <2>4, <1>4
<1> QED BY <1>6, <1>7

\* And with those a device paired handed to what paired it.
LEMMA TreeDetached ==
  ASSUME Treelike, PairingTypeOK, NEW r \in Paired,
         \A d \in Paired : device'[d].parent = IF device[d].parent = r THEN device[r].parent ELSE device[d].parent
  PROVE  Treelike'
<1> SUFFICES ASSUME NEW S \in SUBSET Paired, S # {}, \A d \in S : device'[d].parent \in S PROVE FALSE
  BY DEF Treelike
<1> DEFINE T == IF \E d \in S : device[d].parent = r THEN S \cup {r} ELSE S
<1>1. T \in SUBSET Paired /\ T # {}
  OBVIOUS
<1>2. PICK d \in T : device[d].parent \notin T
  BY <1>1 DEF Treelike
<1>3. \A e \in S : device[e].parent \in S \/ (device[e].parent = r /\ device[r].parent \in S)
  OBVIOUS
<1> QED BY <1>2, <1>3

\* And with all that were revoked passed over.
LEMMA TreePassed ==
  ASSUME Treelike, PairingTypeOK,
         \A d \in Paired : device'[d].parent = IF device[d].is = "revoked" THEN Nobodys ELSE Stays[device[d].parent]
  PROVE  Treelike'
<1> SUFFICES ASSUME NEW S \in SUBSET Paired, S # {}, \A d \in S : device'[d].parent \in S PROVE FALSE
  BY DEF Treelike
<1> DEFINE T == S \cup {d \in Paired : device[d].is = "revoked" /\ Stays[d] \in S}
<1>1. T \in SUBSET Paired /\ T # {}
  OBVIOUS
<1>2. PICK d \in T : device[d].parent \notin T
  BY <1>1 DEF Treelike
<1>3. d \in Paired /\ d \in Someone /\ device[d].parent \in Someone /\ d # Nobodys
  BY <1>1, Bounds DEF PairingTypeOK, DeviceRecords, Nobodys
<1>4. Stays[device[d].parent] \in S
  <2>1. CASE device[d].is = "revoked"
    <3>1. d \notin S
      BY <2>1, Bounds DEF Nobodys
    <3> QED BY <1>2, <1>3, <2>1, <3>1, StaysExists
  <2>2. CASE device[d].is # "revoked"
    BY <1>2, <1>3, <2>2
  <2> QED BY <2>1, <2>2
<1>5. device[d].parent # Nobodys
  BY <1>4, StaysExists, Bounds DEF Nobodys
<1>6. device[d].parent \in Paired
  BY <1>3, <1>5, Bounds DEF Nobodys
<1> QED BY <1>2, <1>3, <1>4, <1>6, StaysExists

Known(d) == d # Nobodys => device[d].is # "unused"

\* Who is not on file is signed out, and of no one.
OffFile == \A d \in Paired : ~OnFile(d) => device[d].parent = Nobodys /\ ~device[d].signedIn

KnownCalls ==
  /\ \A c \in Callers : Known(call[c].from) /\ Known(call[c].replaces)
  /\ \A c \in Callers : Calling(c, "watch") => call[c].from # Nobodys
  /\ \A c \in Callers : call[c].step \in {"claim", "claimed"} => invite[call[c].invite].is # "unused"

KnownInvites == \A i \in Invites : Known(invite[i].parent) /\ Known(invite[i].replaces)

\* A claim looked at whom its invite is of, as long as both are there.
ClaimOfInviter ==
  \A c \in Callers :
    /\ call[c].step \in {"claim", "claimed"} /\ Waiting(call[c].invite)
    /\ call[c].from # Nobodys /\ OnFile(call[c].from)
    => invite[call[c].invite].parent = call[c].from

TreeInv == PairingTypeOK /\ Treelike /\ KnownParents /\ OffFile /\ KnownCalls /\ KnownInvites /\ ClaimOfInviter

\* Devices come to be known, and what leaves the file does not come back.
Onward == \A d \in Paired : device[d].is # "unused" => device'[d].is # "unused" /\ (OnFile(d)' => OnFile(d))

TreeKept == Treelike' /\ KnownParents' /\ OffFile' /\ Onward

\* Initially devices are a tree.
LEMMA InitTree == PairingInit => TreeInv
<1> SUFFICES ASSUME PairingInit PROVE TreeInv
  OBVIOUS
<1>1. PairingTypeOK
  BY InitPairingType
<1>2. PICK p \in {1, 2}, gone \in BOOLEAN : device = FirstDevices(p, gone)
  BY DEF PairingInit
<1>3. /\ device[1].parent = 0 /\ device[2].parent = 1 /\ device[3].parent = p
      /\ device[1].is = "active" /\ device[2].is \in {"active", "revoked"} /\ device[3].is = "active"
      /\ \A d \in Paired \ {1, 2, 3} : device[d] = NoDevice
  <2>1. \A q \in Someone : NewPhone(q).parent = q /\ NewPhone(q).is = "active" /\ NewPhone(q) \in DeviceRecords
    BY Blank DEF NewPhone, NoDevice
  <2>2. p \in Someone /\ 1 \in Someone /\ 0 \in Someone
    BY Bounds
  <2>3. /\ device[1] = NewPhone(0)
        /\ device[2] = [NewPhone(1) EXCEPT !.is = IF gone THEN "revoked" ELSE "active", !.signedIn = ~gone]
        /\ device[3] = [NewPhone(p) EXCEPT !.again = gone]
        /\ \A d \in Paired \ {1, 2, 3} : device[d] = NoDevice
    BY <1>2, Bounds DEF FirstDevices, Nobodys
  <2> QED BY <2>1, <2>2, <2>3 DEF DeviceRecords
<1>4. NoDevice.parent = 0 /\ NoDevice.signedIn = FALSE /\ NoDevice.is = "unused"
  BY DEF NoDevice, Nobodys
<1>5. Treelike
  <2> SUFFICES ASSUME NEW S \in SUBSET Paired, S # {}, \A d \in S : device[d].parent \in S PROVE FALSE
    BY DEF Treelike
  <2>1. \A d \in S : d \in {1, 2, 3}
    BY <1>3, <1>4, Bounds
  <2>2. 1 \notin S
    BY <1>3, Bounds
  <2>3. 2 \notin S
    BY <1>3, <2>2
  <2> QED BY <1>3, <2>1, <2>2, <2>3
<1>6. KnownParents /\ OffFile
  BY <1>3, <1>4, Bounds DEF KnownParents, OffFile, OnFile, Nobodys
<1>7. /\ \A c \in Callers : call[c] = NoCall
      /\ \A i \in Invites : invite[i].parent \in {0, 3} /\ invite[i].replaces = 0
  BY DEF PairingInit, NoInvite, Nobodys
<1>8. NoCall.from = 0 /\ NoCall.replaces = 0 /\ NoCall.step = "idle"
  BY DEF NoCall, Nobodys
<1>9. KnownCalls /\ KnownInvites /\ ClaimOfInviter
  BY <1>3, <1>7, <1>8 DEF KnownCalls, KnownInvites, ClaimOfInviter, Known, Calling, Nobodys
<1> QED BY <1>1, <1>5, <1>6, <1>9 DEF TreeInv

\* No device changes.
LEMMA SameTree == ASSUME TreeInv, UNCHANGED device PROVE TreeKept
BY DEF TreeInv, TreeKept, Treelike, KnownParents, OffFile, OnFile, Onward

\* Devices are revoked, or signed out.
LEMMA RevokedTree ==
  ASSUME TreeInv, NEW ds, device' = Revoked(ds)
  PROVE  TreeKept
<1>1. ASSUME NEW d \in Paired
      PROVE  /\ device'[d].parent = device[d].parent
             /\ device'[d].is # device[d].is => OnFile(d) /\ device'[d].is = "revoked"
             /\ device'[d].signedIn => device[d].signedIn
  BY DEF Revoked, TreeInv, PairingTypeOK, DeviceRecords
<1>2. Treelike'
  BY <1>1, TreeFewer DEF TreeInv
<1>3. Onward /\ OffFile'
  BY <1>1 DEF TreeInv, OffFile, OnFile, Onward
<1>4. KnownParents'
  BY <1>1, <1>3, Bounds DEF TreeInv, KnownParents, PairingTypeOK, DeviceRecords, Onward, Nobodys
<1> QED BY <1>2, <1>3, <1>4 DEF TreeKept

\* Signing one out leaves them so.
LEMMA SignedOutTree ==
  ASSUME TreeInv, NEW d \in Paired, device' = [device EXCEPT ![d].signedIn = FALSE]
  PROVE  TreeKept
<1>1. ASSUME NEW e \in Paired
      PROVE  device'[e].parent = device[e].parent /\ device'[e].is = device[e].is
             /\ (device'[e].signedIn => device[e].signedIn)
  BY DEF TreeInv, PairingTypeOK, DeviceRecords
<1>2. Treelike'
  BY <1>1, TreeFewer DEF TreeInv
<1> QED BY <1>1, <1>2 DEF TreeInv, PairingTypeOK, DeviceRecords, TreeKept, KnownParents, OffFile, OnFile, Onward

\* What a removal hands on stays a tree.
LEMMA DetachedTree == ASSUME TreeInv, RemoveDetaches PROVE TreeKept
<1>1. walk.of \in Paired
  BY DEF RemoveDetaches, Walking, TreeInv, PairingTypeOK
<1>2. ASSUME NEW d \in Paired
      PROVE  /\ device'[d].parent = IF device[d].parent = walk.of THEN device[walk.of].parent ELSE device[d].parent
             /\ device'[d].is = device[d].is /\ device'[d].signedIn = device[d].signedIn
  BY DEF RemoveDetaches, TreeInv, PairingTypeOK, DeviceRecords
<1>3. Treelike'
  BY <1>1, <1>2, TreeDetached DEF TreeInv
<1>4. KnownParents'
  <2>1. \A d \in Paired : device[d].parent \in Someone
    BY DEF TreeInv, PairingTypeOK, DeviceRecords
  <2> QED BY <2>1, <1>1, <1>2, Bounds DEF KnownParents, TreeInv, Nobodys
<1>5. OffFile' /\ Onward
  BY <1>1, <1>2, Bounds DEF TreeInv, OffFile, OnFile, Onward, Nobodys
<1> QED BY <1>3, <1>4, <1>5 DEF TreeKept

\* So it does without the device.
LEMMA DeletedTree == ASSUME TreeInv, RemoveDeletes PROVE TreeKept
<1>1. walk.of \in Paired /\ walk.of \in Someone /\ Nobodys \in Someone /\ device' = Handed(walk.of, Nobodys)
  BY Bounds DEF RemoveDeletes, Walking, TreeInv, PairingTypeOK, Nobodys
<1>0. ASSUME NEW d \in Paired
      PROVE  /\ d = walk.of => device'[d].is = "removed" /\ device'[d].parent = Nobodys /\ device'[d].signedIn = FALSE
             /\ d # walk.of => /\ device'[d].is = device[d].is /\ device'[d].signedIn = device[d].signedIn
                               /\ device'[d].parent = IF device[d].parent = walk.of THEN Nobodys ELSE device[d].parent
  <2>1. device'[d] = IF d = walk.of THEN [NoDevice EXCEPT !.is = "removed"]
                     ELSE IF device[d].parent = walk.of THEN [device[d] EXCEPT !.parent = Nobodys] ELSE device[d]
    BY <1>1 DEF Handed
  <2>2. device[d] \in DeviceRecords
    BY DEF TreeInv, PairingTypeOK
  <2> QED BY <2>1, <2>2 DEF NoDevice, DeviceRecords
<1>2. Treelike'
  <2>1. \A d \in Paired : device'[d].parent \in {device[d].parent, Nobodys}
    BY <1>0
  <2> QED BY <2>1, TreeFewer DEF TreeInv
<1>3. KnownParents'
  <2> SUFFICES ASSUME NEW d \in Paired, device'[d].parent # Nobodys PROVE device'[device'[d].parent].is # "unused"
    BY DEF KnownParents
  <2>1. device'[d].parent = device[d].parent
    BY <1>0
  <2>2. device[d].parent \in Paired
    BY <2>1, Bounds DEF TreeInv, PairingTypeOK, DeviceRecords, Nobodys
  <2> QED BY <1>0, <2>1, <2>2 DEF TreeInv, KnownParents
<1>4. OffFile' /\ Onward
  BY <1>0 DEF TreeInv, OffFile, OnFile, Onward
<1> QED BY <1>2, <1>3, <1>4 DEF TreeKept

\* A new device joins, and may take the place of another.
LEMMA JoinedTree ==
  ASSUME TreeInv, NEW n \in Paired, device[n].is = "unused", NEW p \in Someone, Known(p),
         NEW r \in Someone, Known(r), r # Nobodys => p = device[r].parent,
         device'[n].parent = p, device'[n].is = "active",
         \A d \in Paired \ {n} :
           /\ r # Nobodys /\ d = r => device'[d].is = "removed" /\ device'[d].parent = Nobodys /\ ~device'[d].signedIn
           /\ d # r => /\ device'[d].is = device[d].is \/ (OnFile(d) /\ device'[d].is = "revoked")
                       /\ device'[d].signedIn => device[d].signedIn
                       /\ device'[d].parent = IF r # Nobodys /\ device[d].parent = r THEN n ELSE device[d].parent
  PROVE  TreeKept
<1>1. \A d \in Paired : device[d].parent # n
  BY Bounds DEF TreeInv, KnownParents, Nobodys
<1>2. p # n /\ r # n
  BY Bounds DEF Known, Nobodys
<1>3. Treelike'
  <2>1. r # Nobodys => r \in Paired \ {n}
    BY <1>2, Bounds DEF Nobodys
  <2> QED BY <1>1, <1>2, <2>1, TreeNew DEF TreeInv
<1>4. Onward
  BY <1>2, Bounds DEF Onward, OnFile, Nobodys
<1>5. KnownParents'
  <2> SUFFICES ASSUME NEW d \in Paired, device'[d].parent # Nobodys PROVE device'[device'[d].parent].is # "unused"
    BY DEF KnownParents
  <2>1. device'[d].parent \in {p, n, device[d].parent} /\ (device'[d].parent = device[d].parent => device[d].parent # Nobodys)
    <3>1. CASE d = n
      BY <3>1
    <3>2. CASE d # n /\ d = r
      BY <3>2, Bounds DEF Nobodys
    <3>3. CASE d # n /\ d # r
      BY <3>3
    <3> QED BY <3>1, <3>2, <3>3
  <2>2. device'[d].parent = n \/ (device'[d].parent \in Paired /\ device[device'[d].parent].is # "unused")
    BY <2>1, Bounds DEF TreeInv, KnownParents, PairingTypeOK, DeviceRecords, Known, Nobodys
  <2> QED BY <2>2, <1>4 DEF Onward
<1>6. OffFile'
  <2> SUFFICES ASSUME NEW d \in Paired, ~OnFile(d)' PROVE device'[d].parent = Nobodys /\ ~device'[d].signedIn
    BY DEF OffFile
  <2>1. d # n
    BY DEF OnFile
  <2>2. CASE r # Nobodys /\ d = r
    BY <2>1, <2>2
  <2>3. CASE d # r
    <3>1. ~OnFile(d)
      BY <2>1, <2>3 DEF OnFile
    <3>2. device[d].parent = Nobodys /\ ~device[d].signedIn
      BY <3>1 DEF TreeInv, OffFile
    <3> QED BY <2>1, <2>3, <3>2
  <2> QED BY <2>2, <2>3, Bounds DEF Nobodys
<1> QED BY <1>3, <1>4, <1>5, <1>6 DEF TreeKept

\* And without all that were revoked.
LEMMA PassedTree == ASSUME TreeInv, RevokedRemoved PROVE TreeKept
<1>1. RevokedRemovedBy(Stays)
  BY RemovedByStays
<1>2. ASSUME NEW d \in Paired
      PROVE  /\ device[d].is = "revoked" => device'[d].is = "removed" /\ device'[d].parent = Nobodys /\ ~device'[d].signedIn
             /\ device[d].is # "revoked" => /\ device'[d].is = device[d].is /\ device'[d].signedIn = device[d].signedIn
                                            /\ device'[d].parent = Stays[device[d].parent]
  BY <1>1 DEF RevokedRemovedBy, NoDevice, TreeInv, PairingTypeOK, DeviceRecords
<1>3. Treelike'
  BY <1>2, TreePassed DEF TreeInv
<1>4. Onward
  BY <1>2 DEF Onward, OnFile
<1>5. \A d \in Paired : LET q == Stays[device[d].parent] IN q = Nobodys \/ (q \in Paired /\ device[q].is # "unused")
  <2> DEFINE D == {x \in Someone : Known(x)}
  <2>1. \A x \in D : IF x = Nobodys \/ device[x].is # "revoked" THEN x \in D ELSE device[x].parent \in D
    BY Bounds DEF Known, TreeInv, KnownParents, PairingTypeOK, DeviceRecords, Nobodys
  <2>2. \A x \in D : Stays[x] \in D
    BY <2>1, StaysWell DEF TreeInv
  <2>3. \A d \in Paired : device[d].parent \in D
    BY DEF TreeInv, KnownParents, Known, PairingTypeOK, DeviceRecords
  <2> QED BY <2>2, <2>3, Bounds DEF Known, Nobodys
<1>6. KnownParents'
  BY <1>2, <1>4, <1>5 DEF KnownParents, Onward
<1>7. OffFile'
  <2>1. Stays[Nobodys] = Nobodys
    BY StaysExists, Bounds DEF TreeInv, Nobodys
  <2> QED BY <1>2, <2>1 DEF TreeInv, OffFile, OnFile
<1> QED BY <1>3, <1>4, <1>6, <1>7 DEF TreeKept

----------------------------------------------------------------------------
(* What is known                                                           *)

\* Who stays is someone.
LEMMA StaysSomeone == ASSUME PairingTypeOK, Treelike PROVE \A d \in Someone : Stays[d] \in Someone
<1>1. \A d \in Someone : IF d = Nobodys \/ device[d].is # "revoked" THEN d \in Someone ELSE device[d].parent \in Someone
  BY Bounds DEF PairingTypeOK, DeviceRecords, Nobodys
<1> QED BY <1>1, StaysWell

\* Removing them keeps the types.
LEMMA PassedType == ASSUME TreeInv, RevokedRemoved PROVE PairingTypeOK'
<1>1. RevokedRemovedBy(Stays)
  BY RemovedByStays
<1>2. \A d \in Someone : Stays[d] \in Someone
  BY StaysSomeone DEF TreeInv
<1>3. device' \in [Paired -> DeviceRecords]
  <2>1. [NoDevice EXCEPT !.is = "removed"] \in DeviceRecords
    BY Blank DEF DeviceRecords
  <2>2. ASSUME NEW d \in Paired PROVE [device[d] EXCEPT !.parent = Stays[@]] \in DeviceRecords
    <3>1. device[d] \in DeviceRecords /\ Stays[device[d].parent] \in Someone
      BY <1>2 DEF TreeInv, PairingTypeOK, DeviceRecords
    <3> QED BY <3>1 DEF DeviceRecords
  <2> QED BY <1>1, <2>1, <2>2 DEF RevokedRemovedBy, TreeInv, PairingTypeOK
<1>4. invite' \in [Invites -> InviteRecords]
  <2>1. \A i \in Invites : [invite[i] EXCEPT !.parent = Nobodys] \in InviteRecords
    BY Bounds DEF TreeInv, PairingTypeOK, InviteRecords, Nobodys
  <2> QED BY <1>1, <2>1 DEF RevokedRemovedBy, TreeInv, PairingTypeOK
<1>5. UNCHANGED call
  BY DEF RevokedRemoved
<1>6. walk' \in WalkRecords /\ walk'.step = walk.step /\ walk'.of = walk.of
  <2> DEFINE ds == {d \in Paired : device[d].parent # Stays[device[d].parent]}
  <2>1. ds \in SUBSET Paired /\ Noted(ds)
    BY <1>1 DEF RevokedRemovedBy
  <2> QED BY <2>1, NotedType DEF TreeInv
<1> QED BY <1>3, <1>4, <1>5, <1>6 DEF TreeInv, PairingTypeOK

\* Every step keeps the types.
LEMMA StepPairingType == ASSUME TreeInv, [PairingNext]_pairingVars PROVE PairingTypeOK'
<1>0. PairingTypeOK
  BY DEF TreeInv
<1>1. CASE UNCHANGED pairingVars
  BY <1>0, <1>1 DEF pairingVars, PairingTypeOK
<1>2. ASSUME NEW c \in Callers,
             \/ InviteAsked(c) \/ InviteMade(c) \/ WatchAsked(c) \/ WatchJoined(c)
             \/ ClaimAsked(c) \/ ClaimTakes(c) \/ ClaimJoins(c) \/ ClaimFails(c)
      PROVE  PairingTypeOK'
  BY <1>0, <1>2, CallsType, WatchType, JoinsType
<1>3. ASSUME NEW i \in Invites, InviteCancelled(i) PROVE PairingTypeOK'
  BY <1>0, <1>3 DEF InviteCancelled, PairingTypeOK, InviteRecords
<1>4. CASE RevokedRemoved
  BY <1>4, PassedType
<1> QED BY <1>0, <1>1, <1>2, <1>3, <1>4, WalksType DEF PairingNext

\* What becomes of the invites: one that was made stays known, waits no more
\* once it waited no more, and loses whom it is of only with who is gone.
InvitesKept ==
  \A i \in Invites :
    /\ Known(invite'[i].parent) /\ Known(invite'[i].replaces)
    /\ invite[i].is # "unused" =>
         /\ invite'[i].is # "unused" /\ (Waiting(i)' => Waiting(i))
         /\ \/ invite'[i].parent = invite[i].parent
            \/ /\ invite'[i].parent = Nobodys
               /\ Waiting(i)' /\ invite[i].parent # Nobodys => device'[invite[i].parent].is \notin {"active", "revoked"}

\* And of the calls.
CallsKept ==
  \A c \in Callers :
    \/ call'[c] = call[c]
    \/ call'[c] = NoCall
    \/ call'[c].step = "invite" /\ Known(call'[c].from) /\ Known(call'[c].replaces)
    \/ call'[c].step = "watch" /\ Known(call'[c].from) /\ Known(call'[c].replaces) /\ call'[c].from # Nobodys
    \/ /\ call'[c].step = "claim" /\ call'[c].invite \in Invites /\ Waiting(call'[c].invite)
       /\ call'[c].from = invite[call'[c].invite].parent
       /\ call'[c].replaces = invite[call'[c].invite].replaces
    \/ /\ call'[c].step = "claimed" /\ call[c].step = "claim" /\ ~Expiring(call[c].invite)
       /\ Waiting(call[c].invite)
       /\ call'[c].invite = call[c].invite /\ call'[c].from = call[c].from /\ call'[c].replaces = call[c].replaces

\* Who is known stays known.
LEMMA KnownStays == ASSUME Onward, NEW p \in Someone, Known(p) PROVE Known(p)'
BY Bounds DEF Onward, Known, Nobodys

\* Together they keep what is known.
LEMMA TreeStep ==
  ASSUME TreeInv, ClaimsAlone, PairingTypeOK', TreeKept, InvitesKept, CallsKept
  PROVE  TreeInv'
<1>1. \A i \in Invites : invite'[i].parent \in Someone /\ invite'[i].replaces \in Someone
  BY DEF PairingTypeOK, InviteRecords
<1>2. KnownInvites'
  BY <1>1, KnownStays DEF TreeKept, InvitesKept, KnownInvites
<1>3. ASSUME NEW c \in Callers PROVE Known(call'[c].from) /\ Known(call'[c].replaces)
  <2>1. NoCall.from = Nobodys /\ NoCall.replaces = Nobodys
    BY DEF NoCall
  <2>2. Known(Nobodys)
    BY DEF Known
  <2> QED BY <2>1, <2>2 DEF CallsKept, TreeInv, KnownCalls, KnownInvites
<1>4. ASSUME NEW c \in Callers, call'[c].step \in {"claim", "claimed"}
      PROVE  /\ call'[c].invite \in Invites /\ invite[call'[c].invite].is # "unused"
             /\ \/ call[c].step \in {"claim", "claimed"} /\ call'[c].invite = call[c].invite /\ call'[c].from = call[c].from
                \/ call'[c].from = invite[call'[c].invite].parent
  BY <1>4 DEF CallsKept, ClaimsAlone, TreeInv, KnownCalls, Waiting, NoCall
<1>5. KnownCalls'
  <2>1. \A c \in Callers : call'[c].from \in Someone /\ call'[c].replaces \in Someone
    BY DEF PairingTypeOK, CallRecords
  <2>2. \A c \in Callers : Known(call[c].from)' /\ Known(call[c].replaces)'
    BY <1>3, <2>1, KnownStays DEF TreeKept
  <2>3. \A c \in Callers : Calling(c, "watch")' => call'[c].from # Nobodys
    BY DEF CallsKept, TreeInv, KnownCalls, Calling, NoCall
  <2>4. \A c \in Callers : call'[c].step \in {"claim", "claimed"} => invite'[call'[c].invite].is # "unused"
    BY <1>4 DEF InvitesKept
  <2> QED BY <2>2, <2>3, <2>4 DEF KnownCalls
<1>6. ClaimOfInviter'
  <2> SUFFICES ASSUME NEW c \in Callers, call'[c].step \in {"claim", "claimed"}, Waiting(call[c].invite)',
                      call'[c].from # Nobodys, OnFile(call[c].from)'
               PROVE  invite'[call'[c].invite].parent = call'[c].from
    BY DEF ClaimOfInviter
  <2> DEFINE i == call'[c].invite
             p == call'[c].from
  <2>1. i \in Invites /\ invite[i].is # "unused" /\ p \in Paired
    BY <1>4, Bounds DEF PairingTypeOK, CallRecords, Nobodys
  <2>2. Waiting(i)
    BY <2>1 DEF InvitesKept, Waiting
  <2>3. OnFile(p)
    <3>1. Known(p)
      BY <1>3
    <3> QED BY <2>1, <3>1 DEF TreeKept, Onward, Known, OnFile
  <2>4. invite[i].parent = p
    BY <1>4, <2>2, <2>3 DEF TreeInv, ClaimOfInviter
  <2> QED BY <2>1, <2>4 DEF InvitesKept, OnFile, Waiting
<1> QED BY <1>2, <1>5, <1>6 DEF TreeInv, TreeKept

\* Nothing becomes of invites, or of calls.
LEMMA SameInvites == ASSUME TreeInv, UNCHANGED invite PROVE InvitesKept
BY DEF InvitesKept, TreeInv, KnownInvites, Waiting

\* Nothing becomes of calls, or one ends.
LEMMA SameCalls ==
  ASSUME TreeInv, UNCHANGED call \/ \E c \in Callers : call' = [call EXCEPT ![c] = NoCall] PROVE CallsKept
BY DEF CallsKept, TreeInv, PairingTypeOK

\* Invites that end, and whom they are of stays.
LEMMA OverInvites ==
  ASSUME TreeInv, NEW ends, invite' = [i \in Invites |-> IF i \in ends THEN [invite[i] EXCEPT !.is = "over"] ELSE invite[i]]
  PROVE  InvitesKept
BY DEF InvitesKept, TreeInv, KnownInvites, PairingTypeOK, InviteRecords, Waiting

\* A step but for these three keeps the invites.
LEMMA InvitesKeptBy ==
  ASSUME TreeInv, JoinInv, [PairingNext]_pairingVars,
         \A c \in Callers : ~ClaimJoins(c) /\ ~InviteMade(c), ~RevokedRemoved
  PROVE  InvitesKept
<1>1. CASE UNCHANGED pairingVars
  BY <1>1, SameInvites DEF pairingVars
<1>2. ASSUME NEW i \in Invites, InviteCancelled(i) PROVE InvitesKept
  <2>1. invite' = [j \in Invites |-> IF j \in {i} THEN [invite[j] EXCEPT !.is = "over"] ELSE invite[j]]
    BY <1>2 DEF InviteCancelled, TreeInv, PairingTypeOK
  <2> QED BY <2>1, OverInvites
<1>3. CASE WalkInvites
  <2>1. CASE walk.whole
    BY <1>3, <2>1, SameInvites DEF WalkInvites
  <2>2. CASE ~walk.whole
    <3> DEFINE ends == {i \in Invites : Waiting(i) /\ invite[i].parent \in walk.parents}
    <3>1. invite' = [i \in Invites |-> IF i \in ends THEN [invite[i] EXCEPT !.is = "over"] ELSE invite[i]]
      BY <1>3, <2>2 DEF WalkInvites
    <3> QED BY <3>1, OverInvites
  <2> QED BY <2>1, <2>2
<1>4. CASE RevokeCommits
  <2>1. invite' = [i \in Invites |-> IF i \in walk.expired THEN [invite[i] EXCEPT !.is = "over"] ELSE invite[i]]
    BY <1>4 DEF RevokeCommits
  <2> QED BY <2>1, OverInvites
<1>5. CASE RemoveDeletes
  <2>1. walk.of \in Paired
    BY <1>5 DEF RemoveDeletes, Walking, TreeInv, PairingTypeOK
  <2>2. device'[walk.of].is = "removed"
    BY <1>5, <2>1 DEF RemoveDeletes, Handed, NoDevice
  <2>3. ASSUME NEW i \in Invites
        PROVE  /\ invite'[i].is = invite[i].is /\ invite'[i].replaces = invite[i].replaces
               /\ invite'[i].parent = IF invite[i].parent = walk.of THEN Nobodys ELSE invite[i].parent
    BY <1>5 DEF RemoveDeletes, TreeInv, PairingTypeOK, InviteRecords
  <2>4. Known(Nobodys)
    BY DEF Known
  <2>5. ASSUME NEW i \in Invites PROVE Known(invite'[i].parent) /\ Known(invite'[i].replaces)
    BY <2>3, <2>4 DEF TreeInv, KnownInvites
  <2> QED BY <2>2, <2>3, <2>5 DEF InvitesKept, Waiting
<1>6. ASSUME NEW c \in Callers,
             \/ InviteAsked(c) \/ InviteMade(c) \/ WatchAsked(c) \/ WatchJoined(c)
             \/ ClaimAsked(c) \/ ClaimTakes(c) \/ ClaimJoins(c) \/ ClaimFails(c)
      PROVE  UNCHANGED invite
  BY <1>6 DEF InviteAsked, WatchAsked, WatchJoined, ClaimAsked, ClaimTakes, ClaimFails
<1>7. ASSUME \/ \E d \in Paired : RevokeBegins(d) \/ RemoveBegins(d)
             \/ WalkFinds \/ WalkMarks \/ RemoveDetaches \/ WalkFails
      PROVE  UNCHANGED invite
  BY <1>7 DEF RevokeBegins, RemoveBegins, WalkFinds, WalkMarks, RemoveDetaches, WalkFails
<1> QED BY <1>1, <1>2, <1>3, <1>4, <1>5, <1>6, <1>7, SameInvites DEF PairingNext

\* An invite that is made is of someone known.
LEMMA MadeInvites == ASSUME TreeInv, NEW c \in Callers, InviteMade(c) PROVE InvitesKept
<1>1. CASE UNCHANGED invite
  BY <1>1, SameInvites
<1>2. CASE ~UNCHANGED invite
  <2>1. PICK i \in Invites :
          /\ invite[i].is = "unused"
          /\ invite' = [invite EXCEPT ![i] = [is |-> "waiting", parent |-> call[c].from, replaces |-> call[c].replaces]]
    BY <1>2 DEF InviteMade
  <2> QED BY <2>1 DEF InvitesKept, TreeInv, PairingTypeOK, KnownInvites, KnownCalls, Waiting
<1> QED BY <1>1, <1>2

\* Those of a phone whose place is taken end, and are no one's.
LEMMA JoinsInvites == ASSUME TreeInv, JoinInv, NEW c \in Callers, ClaimJoins(c) PROVE InvitesKept
<1> DEFINE i == call[c].invite
           r == call[c].replaces
<1>1. i \in Invites /\ Waiting(i) /\ invite' = [Ended(r) EXCEPT ![i].is = "claimed"]
  BY DEF ClaimJoins, JoinInv, ClaimsAlone, Calling
<1>2. ASSUME NEW j \in Invites
      PROVE  /\ Ended(r)[j].replaces = invite[j].replaces
             /\ \/ Ended(r)[j].is = invite[j].is /\ Ended(r)[j].parent = invite[j].parent
                \/ /\ Ended(r)[j].parent = Nobodys
                   /\ Ended(r)[j].is = IF invite[j].is = "waiting" THEN "over" ELSE invite[j].is
  BY DEF Ended, TreeInv, PairingTypeOK, InviteRecords
<1>3. Ended(r) \in [Invites -> InviteRecords]
  BY EndedType DEF TreeInv
<1>4. ASSUME NEW j \in Invites
      PROVE  /\ invite'[j].replaces = Ended(r)[j].replaces /\ invite'[j].parent = Ended(r)[j].parent
             /\ invite'[j].is = IF j = i THEN "claimed" ELSE Ended(r)[j].is
  BY <1>1, <1>3 DEF InviteRecords
<1>5. ASSUME NEW j \in Invites PROVE Known(invite'[j].parent) /\ Known(invite'[j].replaces)
  <2>1. Known(Nobodys)
    BY DEF Known
  <2> QED BY <1>2, <1>4, <2>1 DEF TreeInv, KnownInvites
<1> HIDE DEF i, r
<1> QED BY <1>1, <1>2, <1>4, <1>5 DEF InvitesKept, Waiting

\* Those of who is passed over are no one's.
LEMMA PassedInvites == ASSUME TreeInv, RevokedRemoved PROVE InvitesKept
<1>1. RevokedRemovedBy(Stays)
  BY RemovedByStays
<1>2. ASSUME NEW i \in Invites
      PROVE  /\ invite'[i].is = invite[i].is /\ invite'[i].replaces = invite[i].replaces
             /\ invite'[i].parent = IF invite[i].parent # Stays[invite[i].parent] THEN Nobodys ELSE invite[i].parent
  BY <1>1 DEF RevokedRemovedBy, TreeInv, PairingTypeOK, InviteRecords
<1>3. ASSUME NEW i \in Invites, invite[i].parent # Stays[invite[i].parent], invite[i].parent # Nobodys
      PROVE  device'[invite[i].parent].is = "removed"
  <2>1. invite[i].parent \in Someone /\ invite[i].parent \in Paired
    BY <1>3, Bounds DEF TreeInv, PairingTypeOK, InviteRecords, Nobodys
  <2>2. device[invite[i].parent].is = "revoked"
    BY <1>3, <2>1, StaysExists DEF TreeInv
  <2> QED BY <1>1, <2>1, <2>2 DEF RevokedRemovedBy, NoDevice
<1>4. ASSUME NEW i \in Invites PROVE Known(invite'[i].parent) /\ Known(invite'[i].replaces)
  <2>1. Known(Nobodys)
    BY DEF Known
  <2> QED BY <1>2, <2>1 DEF TreeInv, KnownInvites
<1> QED BY <1>2, <1>3, <1>4 DEF InvitesKept, Waiting

\* So every step does.
LEMMA StepInvites == ASSUME TreeInv, JoinInv, [PairingNext]_pairingVars PROVE InvitesKept
<1>1. \A c \in Callers : (ClaimJoins(c) => InvitesKept) /\ (InviteMade(c) => InvitesKept)
  BY JoinsInvites, MadeInvites
<1>2. RevokedRemoved => InvitesKept
  BY PassedInvites
<1> QED BY <1>1, <1>2, InvitesKeptBy

\* Who asks is known, and who is asked about.
LEMMA StepCalls == ASSUME TreeInv, JoinInv, [PairingNext]_pairingVars PROVE CallsKept
<1>1. \A d \in Paired : OnFile(d) \/ device[d].signedIn => Known(d)
  BY DEF TreeInv, OffFile, OnFile, Known
<1>2. Known(Nobodys)
  BY DEF Known
<1>3. NoCall.replaces = Nobodys
  BY DEF NoCall
<1>4. ASSUME NEW c \in Callers, InviteAsked(c) PROVE CallsKept
  <2>1. PICK p \in {Nobodys} \cup {p \in Paired : device[p].signedIn /\ ~device[p].watch},
             r \in {Nobodys} \cup {r \in Paired : OnFile(r) /\ ~device[r].watch} :
          call' = [call EXCEPT ![c] = [NoCall EXCEPT !.step = "invite", !.from = p, !.replaces = r]]
    BY <1>4 DEF InviteAsked
  <2>2. Known(p) /\ Known(r)
    BY <1>1, <1>2
  <2>3. /\ \A b \in Callers \ {c} : call'[b] = call[b]
        /\ call'[c].step = "invite" /\ call'[c].from = p /\ call'[c].replaces = r
    BY <2>1 DEF TreeInv, PairingTypeOK, NoCall
  <2> QED BY <2>2, <2>3 DEF CallsKept
<1>5. ASSUME NEW c \in Callers, WatchAsked(c) PROVE CallsKept
  <2>1. PICK p \in {p \in Paired : device[p].signedIn /\ ~device[p].watch} :
          call' = [call EXCEPT ![c] = [NoCall EXCEPT !.step = "watch", !.from = p]]
    BY <1>5 DEF WatchAsked
  <2>2. Known(p) /\ p # Nobodys
    BY <1>1, Bounds DEF Nobodys
  <2>3. /\ \A b \in Callers \ {c} : call'[b] = call[b]
        /\ call'[c].step = "watch" /\ call'[c].from = p /\ call'[c].replaces = Nobodys
    BY <2>1 DEF TreeInv, PairingTypeOK, NoCall
  <2> QED BY <1>2, <2>2, <2>3 DEF CallsKept
<1>6. ASSUME NEW c \in Callers, ClaimAsked(c) PROVE CallsKept
  <2>1. PICK i \in Invites :
          /\ Waiting(i)
          /\ call' = [call EXCEPT ![c] = [NoCall EXCEPT !.step = "claim", !.invite = i, !.from = invite[i].parent,
                                                        !.replaces = invite[i].replaces]]
    BY <1>6 DEF ClaimAsked
  <2>2. /\ \A b \in Callers \ {c} : call'[b] = call[b]
        /\ call'[c].step = "claim" /\ call'[c].invite = i /\ call'[c].from = invite[i].parent
        /\ call'[c].replaces = invite[i].replaces
    BY <2>1 DEF TreeInv, PairingTypeOK, NoCall
  <2> QED BY <2>1, <2>2 DEF CallsKept
<1>7. ASSUME NEW c \in Callers, ClaimTakes(c) PROVE CallsKept
  <2>1. CASE Waiting(call[c].invite)
    <3>1. call' = [call EXCEPT ![c] = [@ EXCEPT !.step = "claimed"]]
      BY <1>7, <2>1 DEF ClaimTakes
    <3>2. /\ \A b \in Callers \ {c} : call'[b] = call[b]
          /\ call'[c].step = "claimed" /\ call'[c].invite = call[c].invite /\ call'[c].from = call[c].from
          /\ call'[c].replaces = call[c].replaces
      BY <3>1 DEF TreeInv, PairingTypeOK, CallRecords
    <3> QED BY <1>7, <2>1, <3>2 DEF CallsKept, ClaimTakes, Calling
  <2>2. CASE ~Waiting(call[c].invite)
    <3>1. call' = [call EXCEPT ![c] = NoCall]
      BY <1>7, <2>2 DEF ClaimTakes
    <3> QED BY <3>1, SameCalls
  <2> QED BY <2>1, <2>2
<1>8. ASSUME NEW c \in Callers, InviteMade(c) \/ WatchJoined(c) \/ ClaimJoins(c) \/ ClaimFails(c) PROVE CallsKept
  <2>1. call' = [call EXCEPT ![c] = NoCall]
    BY <1>8 DEF InviteMade, WatchJoined, ClaimJoins, ClaimFails
  <2> QED BY <2>1, SameCalls
<1>9. ASSUME \/ UNCHANGED pairingVars \/ \E i \in Invites : InviteCancelled(i)
             \/ \E d \in Paired : RevokeBegins(d) \/ RemoveBegins(d)
             \/ WalkInvites \/ WalkFinds \/ WalkMarks \/ RevokeCommits \/ RemoveDetaches \/ RemoveDeletes \/ WalkFails
             \/ RevokedRemoved
      PROVE  UNCHANGED call
  BY <1>9 DEF pairingVars, InviteCancelled, RevokeBegins, RemoveBegins, WalkInvites, WalkFinds, WalkMarks,
              RevokeCommits, RemoveDetaches, RemoveDeletes, WalkFails, RevokedRemoved
<1> QED BY <1>4, <1>5, <1>6, <1>7, <1>8, <1>9, SameCalls DEF PairingNext

\* What joining as a new device n does to each device: a Watch enrolled
\* before is revoked.
LEMMA WatchFields ==
  ASSUME TreeInv, NEW n \in Paired, NEW p \in Someone, NEW old,
         device' = [Revoked(old) EXCEPT ![n] = [NewPhone(p) EXCEPT !.watch = TRUE]]
  PROVE  /\ device'[n].parent = p /\ device'[n].is = "active"
         /\ \A d \in Paired \ {n} :
              /\ device'[d].is = device[d].is \/ (OnFile(d) /\ device'[d].is = "revoked")
              /\ device'[d].signedIn => device[d].signedIn
              /\ device'[d].parent = device[d].parent
<1>1. Revoked(old) \in [Paired -> DeviceRecords]
  BY RevokedType DEF TreeInv
<1>2. device'[n] = [NewPhone(p) EXCEPT !.watch = TRUE] /\ \A d \in Paired \ {n} : device'[d] = Revoked(old)[d]
  BY <1>1
<1>3. ASSUME NEW d \in Paired
      PROVE  /\ Revoked(old)[d].is = device[d].is \/ (OnFile(d) /\ Revoked(old)[d].is = "revoked")
             /\ Revoked(old)[d].signedIn => device[d].signedIn
             /\ Revoked(old)[d].parent = device[d].parent
  BY DEF Revoked, TreeInv, PairingTypeOK, DeviceRecords
<1>4. [NewPhone(p) EXCEPT !.watch = TRUE].parent = p /\ [NewPhone(p) EXCEPT !.watch = TRUE].is = "active"
  BY DEF NewPhone, NoDevice
<1> QED BY <1>2, <1>3, <1>4

\* Devices stay a tree when a Watch joins.
LEMMA WatchTree == ASSUME TreeInv, NEW c \in Callers, WatchJoined(c) PROVE TreeKept
<1>1. CASE UNCHANGED device
  BY <1>1, SameTree
<1>2. CASE ~UNCHANGED device
  <2> DEFINE p == call[c].from
  <2>1. PICK n \in Paired, old \in SUBSET Paired :
          /\ device[n].is = "unused"
          /\ device' = [Revoked(old) EXCEPT ![n] = [NewPhone(p) EXCEPT !.watch = TRUE]]
    BY <1>2 DEF WatchJoined, NextFree
  <2>2. p \in Someone /\ Known(p) /\ Nobodys \in Someone /\ Known(Nobodys)
    BY Bounds DEF TreeInv, PairingTypeOK, CallRecords, KnownCalls, Known, Nobodys
  <2> HIDE DEF p
  <2>3. /\ device'[n].parent = p /\ device'[n].is = "active"
        /\ \A d \in Paired \ {n} :
             /\ device'[d].is = device[d].is \/ (OnFile(d) /\ device'[d].is = "revoked")
             /\ device'[d].signedIn => device[d].signedIn
             /\ device'[d].parent = device[d].parent
    BY <2>1, <2>2, WatchFields
  <2> DEFINE r == Nobodys
  <2>4. r \in Someone /\ Known(r) /\ r = Nobodys
    BY <2>2
  <2> HIDE DEF r
  <2>5. \A d \in Paired \ {n} :
           /\ r # Nobodys /\ d = r => device'[d].is = "removed" /\ device'[d].parent = Nobodys /\ ~device'[d].signedIn
           /\ d # r => /\ device'[d].is = device[d].is \/ (OnFile(d) /\ device'[d].is = "revoked")
                       /\ device'[d].signedIn => device[d].signedIn
                       /\ device'[d].parent = IF r # Nobodys /\ device[d].parent = r THEN n ELSE device[d].parent
    BY <2>3, <2>4
  <2>6. r # Nobodys => p = device[r].parent
    BY <2>4
  <2> QED BY <2>1, <2>2, <2>3, <2>4, <2>5, <2>6, JoinedTree
<1> QED BY <1>1, <1>2

\* What a claim that joins as n does to each device: n takes the place of r.
LEMMA JoinsFields ==
  ASSUME TreeInv, JoinInv, NEW c \in Callers, ClaimJoins(c)
  PROVE  LET i == call[c].invite
             r == call[c].replaces
             p == IF r = Nobodys THEN call[c].from ELSE device[r].parent IN
         \E n \in Paired :
           /\ device[n].is = "unused" /\ Noted(IF r = Nobodys /\ i \in walk.before THEN {} ELSE {n})
           /\ device'[n].parent = p /\ device'[n].is = "active" /\ (p # Nobodys => OnFile(p))
           /\ \A d \in Paired \ {n} :
                /\ r # Nobodys /\ d = r => device'[d].is = "removed" /\ device'[d].parent = Nobodys /\ ~device'[d].signedIn
                /\ d # r => /\ device'[d].is = device[d].is /\ device'[d].signedIn = device[d].signedIn
                            /\ device'[d].parent = IF r # Nobodys /\ device[d].parent = r THEN n ELSE device[d].parent
<1> DEFINE i == call[c].invite
           r == call[c].replaces
           p == IF r = Nobodys THEN call[c].from ELSE device[r].parent
<1>1. PICK n \in Paired :
        /\ NextFree(n)
        /\ device' = [(IF r = Nobodys THEN device ELSE Handed(r, n)) EXCEPT ![n] =
                        [NewPhone(p) EXCEPT !.by = i, !.again = (r # Nobodys)]]
        /\ Noted(IF r = Nobodys /\ i \in walk.before THEN {} ELSE {n})
  BY DEF ClaimJoins
<1>2. p # Nobodys => OnFile(p)
  BY DEF ClaimJoins
<1>3. r \in Someone
  BY DEF TreeInv, PairingTypeOK, CallRecords
<1> HIDE DEF r, p, i
<1> DEFINE before == IF r = Nobodys THEN device ELSE Handed(r, n)
<1>4. before \in [Paired -> DeviceRecords]
  BY HandedType, Bounds DEF TreeInv, PairingTypeOK
<1>5. device'[n] = [NewPhone(p) EXCEPT !.by = i, !.again = (r # Nobodys)] /\ \A d \in Paired \ {n} : device'[d] = before[d]
  BY <1>1, <1>4
<1>6. device'[n].parent = p /\ device'[n].is = "active"
  BY <1>5 DEF NewPhone, NoDevice
<1>7. ASSUME NEW d \in Paired \ {n}
      PROVE  /\ r # Nobodys /\ d = r => device'[d].is = "removed" /\ device'[d].parent = Nobodys /\ ~device'[d].signedIn
             /\ d # r => /\ device'[d].is = device[d].is /\ device'[d].signedIn = device[d].signedIn
                         /\ device'[d].parent = IF r # Nobodys /\ device[d].parent = r THEN n ELSE device[d].parent
  <2>1. CASE r = Nobodys
    BY <1>5, <2>1, Bounds DEF Nobodys
  <2>2. CASE r # Nobodys
    <3>1. device'[d] = Handed(r, n)[d]
      BY <1>5, <2>2
    <3>2. /\ d = r => Handed(r, n)[d].is = "removed" /\ Handed(r, n)[d].parent = Nobodys /\ Handed(r, n)[d].signedIn = FALSE
          /\ d # r => /\ Handed(r, n)[d].is = device[d].is /\ Handed(r, n)[d].signedIn = device[d].signedIn
                      /\ Handed(r, n)[d].parent = IF device[d].parent = r THEN n ELSE device[d].parent
      <4>1. Handed(r, n)[d] = IF d = r THEN [NoDevice EXCEPT !.is = "removed"]
                              ELSE IF device[d].parent = r THEN [device[d] EXCEPT !.parent = n] ELSE device[d]
        BY DEF Handed
      <4>2. device[d] \in DeviceRecords
        BY DEF TreeInv, PairingTypeOK
      <4> QED BY <4>1, <4>2 DEF NoDevice, DeviceRecords
    <3> QED BY <2>2, <3>1, <3>2
  <2> QED BY <2>1, <2>2
<1> HIDE DEF before
<1>8. device[n].is = "unused"
  BY <1>1 DEF NextFree
<1> QED BY <1>1, <1>2, <1>6, <1>7, <1>8 DEF r, p, i

\* And when a phone does.
LEMMA JoinsTree == ASSUME TreeInv, JoinInv, NEW c \in Callers, ClaimJoins(c) PROVE TreeKept
<1> DEFINE r == call[c].replaces
           p == IF r = Nobodys THEN call[c].from ELSE device[r].parent
<1>1. PICK n \in Paired :
           /\ device[n].is = "unused"
           /\ device'[n].parent = p /\ device'[n].is = "active" /\ (p # Nobodys => OnFile(p))
           /\ \A d \in Paired \ {n} :
                /\ r # Nobodys /\ d = r => device'[d].is = "removed" /\ device'[d].parent = Nobodys /\ ~device'[d].signedIn
                /\ d # r => /\ device'[d].is = device[d].is /\ device'[d].signedIn = device[d].signedIn
                            /\ device'[d].parent = IF r # Nobodys /\ device[d].parent = r THEN n ELSE device[d].parent
  BY JoinsFields
<1>2. r \in Someone /\ Known(r)
  BY DEF TreeInv, PairingTypeOK, CallRecords, KnownCalls
<1>3. p \in Someone
  BY <1>2, Bounds DEF TreeInv, PairingTypeOK, CallRecords, DeviceRecords, Nobodys
<1>4. Known(p) /\ (r # Nobodys => p = device[r].parent)
  BY <1>1 DEF Known, OnFile
<1> HIDE DEF r, p
<1>5. \A d \in Paired \ {n} :
           /\ r # Nobodys /\ d = r => device'[d].is = "removed" /\ device'[d].parent = Nobodys /\ ~device'[d].signedIn
           /\ d # r => /\ device'[d].is = device[d].is \/ (OnFile(d) /\ device'[d].is = "revoked")
                       /\ device'[d].signedIn => device[d].signedIn
                       /\ device'[d].parent = IF r # Nobodys /\ device[d].parent = r THEN n ELSE device[d].parent
  <2> SUFFICES ASSUME NEW d \in Paired \ {n}
               PROVE  /\ r # Nobodys /\ d = r => device'[d].is = "removed" /\ device'[d].parent = Nobodys /\ ~device'[d].signedIn
                      /\ d # r => /\ device'[d].is = device[d].is \/ (OnFile(d) /\ device'[d].is = "revoked")
                                  /\ device'[d].signedIn => device[d].signedIn
                                  /\ device'[d].parent = IF r # Nobodys /\ device[d].parent = r THEN n ELSE device[d].parent
    OBVIOUS
  <2> QED BY <1>1
<1> QED BY <1>1, <1>2, <1>3, <1>4, <1>5, JoinedTree

\* And with every step.
LEMMA StepTree == ASSUME TreeInv, JoinInv, [PairingNext]_pairingVars PROVE TreeKept
<1>1. ASSUME NEW d \in Paired, RemoveBegins(d) PROVE TreeKept
  <2>1. device' = [device EXCEPT ![d].signedIn = FALSE]
    BY <1>1 DEF RemoveBegins
  <2> QED BY <2>1, SignedOutTree
<1>2. CASE WalkMarks
  BY <1>2, SameTree, RevokedTree DEF WalkMarks
<1>3. CASE RevokeCommits
  <2>1. device' = Revoked(walk.marked)
    BY <1>3 DEF RevokeCommits
  <2> QED BY <2>1, RevokedTree
<1>4. ASSUME NEW c \in Callers,
             InviteAsked(c) \/ InviteMade(c) \/ WatchAsked(c) \/ ClaimAsked(c) \/ ClaimTakes(c) \/ ClaimFails(c)
      PROVE  UNCHANGED device
  BY <1>4 DEF InviteAsked, InviteMade, WatchAsked, ClaimAsked, ClaimTakes, ClaimFails
<1>5. ASSUME \/ UNCHANGED pairingVars \/ \E i \in Invites : InviteCancelled(i)
             \/ \E d \in Paired : RevokeBegins(d)
             \/ WalkInvites \/ WalkFinds \/ WalkFails
      PROVE  UNCHANGED device
  BY <1>5 DEF pairingVars, InviteCancelled, RevokeBegins, WalkInvites, WalkFinds, WalkFails
<1>6. \A c \in Callers : (WatchJoined(c) => TreeKept) /\ (ClaimJoins(c) => TreeKept)
  BY WatchTree, JoinsTree
<1> QED BY <1>1, <1>2, <1>3, <1>4, <1>5, <1>6, SameTree, DetachedTree, DeletedTree, PassedTree DEF PairingNext

\* Every step keeps what is known.
LEMMA StepTreeInv == ASSUME TreeInv, JoinInv, [PairingNext]_pairingVars PROVE TreeInv'
<1>1. PairingTypeOK' /\ TreeKept /\ InvitesKept /\ CallsKept /\ ClaimsAlone
  BY StepPairingType, StepTree, StepInvites, StepCalls DEF JoinInv
<1> QED BY <1>1, TreeStep

----------------------------------------------------------------------------
(* What a revocation finds                                                 *)

\* A revocation or removal that looks for what was paired from a device.
Looking == walk.step \notin {"none", "delete"}

\* Whose companions it has found, and whose invites it has ended.
Searched == walk.seen \ (IF Walking("mark") THEN walk.found ELSE walk.parents)
Closed   == walk.seen \ (CASE Walking("mark") -> walk.found [] Walking("invites") -> walk.parents [] OTHER -> {})

\* What it knows of is of devices there are.
LooksAround ==
  /\ walk.of \in walk.seen /\ walk.parents \cup walk.found \subseteq walk.seen
  /\ ~Walking("mark") => walk.found = {}
  /\ walk.step \in {"commit", "detach"} => walk.parents = {}
  /\ Walking("commit") => walk.whole
  /\ Walking("detach") => ~walk.whole
  /\ \A d \in walk.seen : device[d].is # "unused"
  /\ \A i \in walk.before : invite[i].is # "unused"

\* What was paired from who was searched was found, or joined meanwhile.
FindsAll == \A d \in Paired : device[d].parent \in Searched => d \in walk.seen \cup walk.late

\* Who was found is signed out, or about to be.
SignsOut == \A d \in walk.seen \ walk.found : device[d].signedIn => walk.whole /\ d \in walk.marked

\* No one can join any more by an invite there was of who was looked at.
EndsInvites == \A i \in walk.before : Waiting(i) /\ invite[i].parent \in Closed => Expiring(i)

\* And no one is joining by one.
NoneJoins ==
  \A c \in Callers :
    Calling(c, "claimed") /\ call[c].replaces = Nobodys /\ call[c].invite \in walk.before /\ call[c].from # Nobodys
      /\ OnFile(call[c].from)
    => call[c].from \notin Closed

ReachInv == Looking => LooksAround /\ FindsAll /\ SignsOut /\ EndsInvites /\ NoneJoins

\* A step that leaves the search as it is but for who is noted keeps what it
\* found: who joins under who was searched is noted, and no one signs in.
LEMMA ReachFrame ==
  ASSUME TreeInv, JoinInv, ReachInv, TreeKept, InvitesKept, CallsKept, NEW ds,
         Looking => walk' = [walk EXCEPT !.late = @ \cup ds], walk.step = "none" => walk'.step = "none",
         walk.step = "delete" => walk'.step = "delete",
         Looking => \A d \in Paired : device'[d].parent \in Searched => d \in ds \/ device'[d].parent = device[d].parent,
         \A d \in Paired : device[d].is # "unused" => (device'[d].signedIn => device[d].signedIn)
  PROVE  ReachInv'
<1>1. CASE ~Looking
  BY <1>1 DEF ReachInv, Looking
<1>2. CASE Looking
  <2>1. /\ walk'.step = walk.step /\ walk'.of = walk.of /\ walk'.whole = walk.whole /\ walk'.parents = walk.parents
        /\ walk'.found = walk.found /\ walk'.seen = walk.seen /\ walk'.marked = walk.marked
        /\ walk'.expired = walk.expired /\ walk'.before = walk.before /\ walk'.late = walk.late \cup ds
    BY <1>2 DEF TreeInv, PairingTypeOK, WalkRecords
  <2>2. /\ walk.seen \subseteq Paired /\ walk.before \subseteq Invites /\ Searched \subseteq walk.seen /\ Closed \subseteq walk.seen
        /\ Searched' = Searched /\ Closed' = Closed
    BY <2>1 DEF TreeInv, PairingTypeOK, WalkRecords, Searched, Closed, Walking
  <2>3. LooksAround'
    BY <1>2, <2>1, <2>2 DEF ReachInv, LooksAround, Walking, TreeKept, Onward, InvitesKept
  <2>4. FindsAll'
    BY <1>2, <2>1, <2>2 DEF ReachInv, FindsAll
  <2>5. SignsOut'
    BY <1>2, <2>1, <2>2 DEF ReachInv, SignsOut, LooksAround
  <2>6. EndsInvites'
    <3> SUFFICES ASSUME NEW i \in walk.before, Waiting(i)', invite'[i].parent \in Closed PROVE walk.whole /\ i \in walk.expired
      BY <2>1, <2>2 DEF EndsInvites, Expiring
    <3>1. i \in Invites /\ invite[i].is # "unused"
      BY <1>2, <2>2 DEF ReachInv, LooksAround
    <3>2. Waiting(i) /\ invite'[i].parent # Nobodys
      BY <2>2, <3>1, Bounds DEF InvitesKept, Waiting, Nobodys
    <3>3. invite[i].parent \in Closed
      BY <3>1, <3>2 DEF InvitesKept, Waiting
    <3> QED BY <1>2, <3>2, <3>3 DEF ReachInv, EndsInvites, Expiring
  <2>7. NoneJoins'
    <3> SUFFICES ASSUME NEW c \in Callers, call'[c].step = "claimed", call'[c].replaces = Nobodys,
                        call'[c].invite \in walk.before, call'[c].from # Nobodys,
                        device'[call'[c].from].is \in {"active", "revoked"}, call'[c].from \in Closed
                 PROVE  FALSE
      BY <2>1, <2>2 DEF NoneJoins, Calling, OnFile
    <3>1. call'[c].from \in Paired /\ OnFile(call'[c].from)
      BY <1>2, <2>2 DEF ReachInv, LooksAround, TreeKept, Onward, OnFile
    <3>2. CASE call'[c] = call[c]
      BY <1>2, <3>1, <3>2 DEF ReachInv, NoneJoins, Calling
    <3>3. CASE call'[c] # call[c]
      <4> DEFINE i == call[c].invite
      <4>1. /\ call[c].step = "claim" /\ ~Expiring(i) /\ Waiting(i)
            /\ call'[c].invite = i /\ call'[c].from = call[c].from
        BY <3>3 DEF CallsKept, NoCall
      <4>2. invite[i].parent = call[c].from
        BY <3>1, <4>1 DEF TreeInv, ClaimOfInviter
      <4> QED BY <1>2, <4>1, <4>2 DEF ReachInv, EndsInvites
    <3> QED BY <3>2, <3>3
  <2> QED BY <2>3, <2>4, <2>5, <2>6, <2>7 DEF ReachInv
<1> QED BY <1>1, <1>2

\* Noting who joins leaves the search as it is.
LEMMA NotedFrame ==
  ASSUME TreeInv, NEW ds, Noted(ds)
  PROVE  /\ Looking => walk' = [walk EXCEPT !.late = @ \cup ds]
         /\ walk.step = "none" => walk'.step = "none"
         /\ walk.step = "delete" => walk'.step = "delete"
BY DEF Noted, Looking, Walking, TreeInv, PairingTypeOK, WalkRecords

\* So does a step that is not about it.
LEMMA SameFrame ==
  ASSUME TreeInv, UNCHANGED walk
  PROVE  /\ Looking => walk' = [walk EXCEPT !.late = @ \cup {}]
         /\ walk.step = "none" => walk'.step = "none"
         /\ walk.step = "delete" => walk'.step = "delete"
BY DEF TreeInv, PairingTypeOK, WalkRecords

\* What a step keeps, together.
LEMMA KeptBySteps ==
  ASSUME TreeInv, JoinInv, [PairingNext]_pairingVars
  PROVE  TreeKept /\ InvitesKept /\ CallsKept
BY StepTree, StepInvites, StepCalls

\* A step of a call that pairs no one.
LEMMA CallReaches ==
  ASSUME TreeInv, JoinInv, ReachInv, [PairingNext]_pairingVars, UNCHANGED <<device, walk>>
  PROVE  ReachInv'
<1>1. \A d \in Paired : device[d].is # "unused" => (device'[d].signedIn => device[d].signedIn)
  OBVIOUS
<1>2. \A d \in Paired : device'[d].parent \in Searched => d \in {} \/ device'[d].parent = device[d].parent
  OBVIOUS
<1>3. /\ Looking => walk' = [walk EXCEPT !.late = @ \cup {}]
      /\ walk.step = "none" => walk'.step = "none"
      /\ walk.step = "delete" => walk'.step = "delete"
  BY SameFrame
<1> QED BY <1>1, <1>2, <1>3, KeptBySteps, ReachFrame

\* A Watch that joins is noted.
LEMMA WatchReaches ==
  ASSUME TreeInv, JoinInv, ReachInv, NEW c \in Callers, WatchJoined(c)
  PROVE  ReachInv'
<1>0. [PairingNext]_pairingVars
  BY DEF PairingNext
<1>1. CASE UNCHANGED <<device, walk>>
  BY <1>0, <1>1, CallReaches
<1>2. CASE ~UNCHANGED <<device, walk>>
  <2> DEFINE p == call[c].from
             olds == {{}} \cup {{w} : w \in {w \in Paired : device[w].watch /\ device[w].is = "active"}}
  <2>1. PICK n \in Paired, old \in olds :
          /\ device[n].is = "unused" /\ Noted({n})
          /\ device' = [Revoked(old) EXCEPT ![n] = [NewPhone(p) EXCEPT !.watch = TRUE]]
    BY <1>2 DEF WatchJoined, NextFree
  <2>2. p \in Someone
    BY DEF TreeInv, PairingTypeOK, CallRecords
  <2> HIDE DEF p, olds
  <2>3. /\ device'[n].parent = p /\ device'[n].is = "active"
        /\ \A d \in Paired \ {n} :
             /\ device'[d].is = device[d].is \/ (OnFile(d) /\ device'[d].is = "revoked")
             /\ device'[d].signedIn => device[d].signedIn
             /\ device'[d].parent = device[d].parent
    BY <2>1, <2>2, WatchFields
  <2>4. \A d \in Paired : device[d].is # "unused" => (device'[d].signedIn => device[d].signedIn)
    BY <2>1, <2>3
  <2>5. \A d \in Paired : device'[d].parent \in Searched => d \in {n} \/ device'[d].parent = device[d].parent
    BY <2>3
  <2>6. /\ Looking => walk' = [walk EXCEPT !.late = @ \cup {n}]
        /\ walk.step = "none" => walk'.step = "none"
        /\ walk.step = "delete" => walk'.step = "delete"
    BY <2>1, NotedFrame
  <2> QED BY <1>0, <2>4, <2>5, <2>6, KeptBySteps, ReachFrame
<1> QED BY <1>1, <1>2

\* Who joins by an invite there was joins under no one who was searched.
LEMMA JoinReaches ==
  ASSUME TreeInv, JoinInv, ReachInv, NEW c \in Callers, ClaimJoins(c)
  PROVE  ReachInv'
<1> DEFINE i == call[c].invite
           r == call[c].replaces
           p == IF r = Nobodys THEN call[c].from ELSE device[r].parent
<1>0. [PairingNext]_pairingVars
  BY DEF PairingNext
<1>1. PICK n \in Paired :
           /\ device[n].is = "unused" /\ Noted(IF r = Nobodys /\ i \in walk.before THEN {} ELSE {n})
           /\ device'[n].parent = p /\ device'[n].is = "active" /\ (p # Nobodys => OnFile(p))
           /\ \A d \in Paired \ {n} :
                /\ r # Nobodys /\ d = r => device'[d].is = "removed" /\ device'[d].parent = Nobodys /\ ~device'[d].signedIn
                /\ d # r => /\ device'[d].is = device[d].is /\ device'[d].signedIn = device[d].signedIn
                            /\ device'[d].parent = IF r # Nobodys /\ device[d].parent = r THEN n ELSE device[d].parent
  BY JoinsFields
<1>2. \A d \in Paired : device[d].is # "unused" => (device'[d].signedIn => device[d].signedIn)
  <2> HIDE DEF i, r, p
  <2> SUFFICES ASSUME NEW d \in Paired, device[d].is # "unused", device'[d].signedIn PROVE device[d].signedIn
    OBVIOUS
  <2>1. d \in Paired \ {n}
    BY <1>1
  <2>2. d = r => r # Nobodys
    BY Bounds DEF Nobodys
  <2> QED BY <1>1, <2>1, <2>2
<1>3. ASSUME Looking
      PROVE  /\ 0 \notin Searched /\ n \notin Searched
             /\ i \in walk.before /\ r = Nobodys => p \notin Searched
  <2>1. 0 \notin Searched /\ n \notin Searched
    BY <1>1, <1>3, Bounds DEF Searched, ReachInv, LooksAround, TreeInv, PairingTypeOK, WalkRecords
  <2>2. ASSUME i \in walk.before, r = Nobodys, p \in Searched PROVE FALSE
    <3>1. p = call[c].from /\ p # Nobodys /\ OnFile(p)
      BY <1>1, <2>1, <2>2 DEF Nobodys
    <3>2. Calling(c, "claimed")
      BY DEF ClaimJoins
    <3>3. p \notin Closed
      BY <1>3, <2>2, <3>1, <3>2 DEF ReachInv, NoneJoins
    <3>4. Searched \subseteq Closed
      BY DEF Searched, Closed, Walking
    <3> QED BY <2>2, <3>3, <3>4
  <2> QED BY <2>1, <2>2
<1> DEFINE ds == IF r = Nobodys /\ i \in walk.before THEN {} ELSE {n}
<1>4. Looking => \A d \in Paired : device'[d].parent \in Searched => d \in ds \/ device'[d].parent = device[d].parent
  <2> SUFFICES ASSUME Looking, NEW d \in Paired, device'[d].parent \in Searched, device'[d].parent # device[d].parent
               PROVE  d \in ds
    OBVIOUS
  <2>1. CASE d = n
    BY <1>1, <1>3, <2>1
  <2>2. CASE d # n
    <3> HIDE DEF i, p, ds
    <3>1. d \in Paired \ {n}
      BY <2>2
    <3>2. CASE d = r
      <4>1. device'[d].parent = Nobodys
        BY <1>1, <3>1, <3>2, Bounds DEF Nobodys
      <4> QED BY <1>3, <4>1 DEF Nobodys
    <3>3. CASE d # r
      <4>1. device'[d].parent \in {n, device[d].parent}
        BY <1>1, <3>1, <3>3
      <4> QED BY <1>3, <4>1
    <3> QED BY <3>2, <3>3
  <2> QED BY <2>1, <2>2
<1>5. Noted(ds)
  BY <1>1
<1> HIDE DEF ds
<1>6. /\ Looking => walk' = [walk EXCEPT !.late = @ \cup ds]
      /\ walk.step = "none" => walk'.step = "none"
      /\ walk.step = "delete" => walk'.step = "delete"
  BY <1>5, NotedFrame
<1> QED BY <1>0, <1>2, <1>4, <1>6, KeptBySteps, ReachFrame

\* Who is handed on is noted.
LEMMA PassedReaches ==
  ASSUME TreeInv, JoinInv, ReachInv, RevokedRemoved
  PROVE  ReachInv'
<1> DEFINE ds == {d \in Paired : device[d].parent # Stays[device[d].parent]}
<1>0. [PairingNext]_pairingVars
  BY DEF PairingNext
<1>1. RevokedRemovedBy(Stays)
  BY RemovedByStays
<1>2. ASSUME NEW d \in Paired
      PROVE  /\ device[d].is = "revoked" => device'[d].parent = Nobodys /\ ~device'[d].signedIn
             /\ device[d].is # "revoked" => device'[d].signedIn = device[d].signedIn /\ device'[d].parent = Stays[device[d].parent]
  BY <1>1 DEF RevokedRemovedBy, NoDevice, TreeInv, PairingTypeOK, DeviceRecords
<1>3. Looking => 0 \notin Searched
  BY Bounds DEF Searched, ReachInv, LooksAround, TreeInv, PairingTypeOK, WalkRecords
<1>4. Looking => \A d \in Paired : device'[d].parent \in Searched => d \in ds \/ device'[d].parent = device[d].parent
  BY <1>2, <1>3 DEF Nobodys
<1>5. \A d \in Paired : device[d].is # "unused" => (device'[d].signedIn => device[d].signedIn)
  BY <1>2
<1>6. Noted(ds)
  BY <1>1 DEF RevokedRemovedBy
<1> HIDE DEF ds
<1>7. /\ Looking => walk' = [walk EXCEPT !.late = @ \cup ds]
      /\ walk.step = "none" => walk'.step = "none"
      /\ walk.step = "delete" => walk'.step = "delete"
  BY <1>6, NotedFrame
<1> QED BY <1>0, <1>4, <1>5, <1>7, KeptBySteps, ReachFrame

\* The search begins with the device.
LEMMA BeginReaches ==
  ASSUME TreeInv, JoinInv, ReachInv, NEW d \in Paired, RevokeBegins(d) \/ RemoveBegins(d)
  PROVE  ReachInv'
<1>1. PICK whole \in BOOLEAN : Begins(d, whole) /\ (~whole => device' = [device EXCEPT ![d].signedIn = FALSE])
  BY DEF RevokeBegins, RemoveBegins
<1>2. UNCHANGED invite /\ (device' = device \/ device' = [device EXCEPT ![d].signedIn = FALSE]) /\ OnFile(d)
  BY DEF RevokeBegins, RemoveBegins, OnFile
<1>3. /\ walk'.step = "invites" /\ walk'.of = d /\ walk'.whole = whole /\ walk'.parents = {d} /\ walk'.found = {}
      /\ walk'.seen = {d} /\ (whole => d \in walk'.marked)
      /\ walk'.before = {i \in Invites : invite[i].is # "unused"}
  BY <1>1 DEF Begins, NoWalk
<1>4. device'[d].is = device[d].is /\ (~whole => ~device'[d].signedIn)
  BY <1>1, <1>2 DEF TreeInv, PairingTypeOK, DeviceRecords
<1>5. Searched' = {} /\ Closed' = {}
  BY <1>3 DEF Searched, Closed, Walking
<1>6. LooksAround'
  BY <1>2, <1>3, <1>4 DEF LooksAround, Walking, OnFile
<1>7. SignsOut'
  BY <1>3, <1>4 DEF SignsOut
<1>8. FindsAll' /\ EndsInvites' /\ NoneJoins'
  BY <1>5 DEF FindsAll, EndsInvites, NoneJoins
<1> QED BY <1>6, <1>7, <1>8 DEF ReachInv

\* It ends the invites of who was found, and waits for who is joining by one.
LEMMA InvitesReach ==
  ASSUME TreeInv, JoinInv, ReachInv, WalkInvites
  PROVE  ReachInv'
<1> DEFINE ends == {i \in Invites : Waiting(i) /\ invite[i].parent \in walk.parents}
<1>1. Looking /\ walk.step = "invites" /\ UNCHANGED <<device, call>>
  BY DEF WalkInvites, Walking, Looking
<1>2. /\ walk'.step = "find" /\ walk'.of = walk.of /\ walk'.whole = walk.whole /\ walk'.parents = walk.parents
      /\ walk'.found = walk.found /\ walk'.seen = walk.seen /\ walk'.marked = walk.marked
      /\ walk'.before = walk.before /\ walk'.late = walk.late
      /\ walk'.expired = IF walk.whole THEN walk.expired \cup ends ELSE walk.expired
  BY DEF WalkInvites, TreeInv, PairingTypeOK, WalkRecords
<1>3. ASSUME NEW i \in Invites
      PROVE  /\ invite'[i].parent = invite[i].parent
             /\ invite[i].is # "unused" => invite'[i].is # "unused"
             /\ Waiting(i)' => Waiting(i) /\ (walk.whole \/ i \notin ends)
  BY DEF WalkInvites, Waiting, TreeInv, PairingTypeOK, InviteRecords
<1>4. walk.before \subseteq Invites /\ walk.seen \subseteq Paired
  BY DEF TreeInv, PairingTypeOK, WalkRecords
<1>5. Searched' = Searched /\ Closed = walk.seen \ walk.parents /\ Closed' = walk.seen
  BY <1>1, <1>2 DEF Searched, Closed, Walking
<1>6. LooksAround'
  BY <1>1, <1>2, <1>3, <1>4 DEF ReachInv, LooksAround, Walking
<1>7. FindsAll' /\ SignsOut'
  BY <1>1, <1>2, <1>5 DEF ReachInv, FindsAll, SignsOut
<1>8. EndsInvites'
  <2> SUFFICES ASSUME NEW i \in walk.before, Waiting(i)', invite'[i].parent \in walk.seen
               PROVE  walk'.whole /\ i \in walk'.expired
    BY <1>2, <1>5 DEF EndsInvites, Expiring
  <2>1. i \in Invites /\ Waiting(i) /\ invite[i].parent \in walk.seen /\ (walk.whole \/ i \notin ends)
    BY <1>3, <1>4
  <2>2. CASE i \in ends
    BY <1>2, <2>1, <2>2
  <2>3. CASE i \notin ends
    BY <1>1, <1>2, <1>5, <2>1, <2>3 DEF ReachInv, EndsInvites, Expiring
  <2> QED BY <2>2, <2>3
<1>9. NoneJoins'
  <2> SUFFICES ASSUME NEW c \in Callers, Calling(c, "claimed"), call[c].replaces = Nobodys, call[c].invite \in walk.before,
                      call[c].from # Nobodys, OnFile(call[c].from), call[c].from \in walk.seen
               PROVE  FALSE
    BY <1>1, <1>2, <1>5 DEF NoneJoins, Calling, OnFile
  <2> DEFINE i == call[c].invite
  <2>1. call[c].from \in walk.parents
    BY <1>1, <1>5 DEF ReachInv, NoneJoins
  <2>2. i \in Invites /\ Waiting(i)
    BY <1>4 DEF JoinInv, ClaimsAlone
  <2>3. invite[i].parent = call[c].from
    BY <2>2 DEF TreeInv, ClaimOfInviter, Calling
  <2>4. i \in ends /\ Claiming(i)
    BY <2>1, <2>2, <2>3 DEF Claiming
  <2> QED BY <2>4 DEF WalkInvites
<1> QED BY <1>6, <1>7, <1>8, <1>9 DEF ReachInv

\* It finds whom they paired.
LEMMA FindsReach ==
  ASSUME TreeInv, JoinInv, ReachInv, WalkFinds
  PROVE  ReachInv'
<1>1. Looking /\ walk.step = "find" /\ UNCHANGED <<device, call, invite>>
  BY DEF WalkFinds, Walking, Looking
<1>2. /\ walk'.step = "mark" /\ walk'.of = walk.of /\ walk'.whole = walk.whole /\ walk'.parents = walk.parents
      /\ walk'.found = Companions /\ walk'.seen = walk.seen \cup Companions /\ walk'.marked = walk.marked
      /\ walk'.before = walk.before /\ walk'.late = walk.late /\ walk'.expired = walk.expired
  BY DEF WalkFinds, TreeInv, PairingTypeOK, WalkRecords
<1>3. Searched = walk.seen \ walk.parents /\ Searched' = walk.seen /\ Closed = walk.seen /\ Closed' = walk.seen
  <2>1. Companions \cap walk.seen = {}
    BY DEF Companions
  <2> QED BY <1>1, <1>2, <2>1 DEF Searched, Closed, Walking
<1>4. walk.found = {}
  BY <1>1 DEF ReachInv, LooksAround, Walking
<1>5. LooksAround'
  <2>1. \A d \in Companions : device[d].is # "unused"
    BY DEF Companions, OnFile
  <2> QED BY <1>1, <1>2, <2>1 DEF ReachInv, LooksAround, Walking
<1>6. FindsAll'
  <2> SUFFICES ASSUME NEW d \in Paired, device[d].parent \in walk.seen PROVE d \in walk.seen \cup Companions \cup walk.late
    BY <1>1, <1>2, <1>3 DEF FindsAll
  <2>1. CASE device[d].parent \in walk.parents
    <3>1. device[d].parent # Nobodys
      BY <2>1, Bounds DEF TreeInv, PairingTypeOK, WalkRecords, Nobodys
    <3>2. OnFile(d)
      BY <3>1 DEF TreeInv, OffFile
    <3> QED BY <2>1, <3>2 DEF Companions
  <2>2. CASE device[d].parent \notin walk.parents
    BY <1>1, <1>3, <2>2 DEF ReachInv, FindsAll
  <2> QED BY <2>1, <2>2
<1>7. SignsOut'
  BY <1>1, <1>2, <1>4 DEF ReachInv, SignsOut
<1>8. EndsInvites' /\ NoneJoins'
  BY <1>1, <1>2, <1>3 DEF ReachInv, EndsInvites, NoneJoins, Waiting, Expiring, Calling, OnFile
<1> QED BY <1>5, <1>6, <1>7, <1>8 DEF ReachInv

\* And signs them out, and goes on with them.
LEMMA MarksReach ==
  ASSUME TreeInv, JoinInv, ReachInv, WalkMarks
  PROVE  ReachInv'
<1>1. Looking /\ walk.step = "mark" /\ UNCHANGED <<call, invite>>
  BY DEF WalkMarks, Walking, Looking
<1>2. /\ walk'.step = IF walk.found # {} THEN "invites" ELSE IF walk.whole THEN "commit" ELSE "detach"
      /\ walk'.of = walk.of /\ walk'.whole = walk.whole /\ walk'.parents = walk.found
      /\ walk'.found = {} /\ walk'.seen = walk.seen /\ walk'.before = walk.before /\ walk'.late = walk.late
      /\ walk'.expired = walk.expired
      /\ walk'.marked = IF walk.whole THEN walk.marked \cup {d \in walk.found : OnFile(d)} ELSE walk.marked
  BY DEF WalkMarks, TreeInv, PairingTypeOK, WalkRecords
<1>3. ASSUME NEW d \in Paired
      PROVE  /\ device'[d].parent = device[d].parent /\ (device[d].is # "unused" => device'[d].is # "unused")
             /\ device'[d].signedIn => device[d].signedIn
             /\ OnFile(d)' => OnFile(d)
             /\ ~walk.whole /\ d \in walk.found => ~device'[d].signedIn
  <2>1. CASE walk.whole
    BY <2>1 DEF WalkMarks, OnFile
  <2>2. CASE ~walk.whole
    <3>1. device' = Revoked(walk.found)
      BY <2>2 DEF WalkMarks
    <3>2. ~OnFile(d) => ~device[d].signedIn
      BY DEF TreeInv, OffFile
    <3> QED BY <3>1, <3>2 DEF Revoked, TreeInv, PairingTypeOK, DeviceRecords, OnFile
  <2> QED BY <2>1, <2>2
<1>4. Searched' = Searched /\ Closed' = Closed /\ walk.seen \subseteq Paired
  <2>1. Searched = walk.seen \ walk.found /\ Closed = walk.seen \ walk.found /\ walk.seen \subseteq Paired
    BY <1>1 DEF Searched, Closed, Walking, TreeInv, PairingTypeOK, WalkRecords
  <2>2. CASE walk.found = {}
    BY <1>2, <2>1, <2>2 DEF Searched, Closed, Walking
  <2>3. CASE walk.found # {}
    BY <1>2, <2>1, <2>3 DEF Searched, Closed, Walking
  <2> QED BY <2>1, <2>2, <2>3
<1>5. LooksAround'
  BY <1>1, <1>2, <1>3, <1>4 DEF ReachInv, LooksAround, Walking
<1>6. FindsAll'
  BY <1>1, <1>2, <1>3, <1>4 DEF ReachInv, FindsAll
<1>7. SignsOut'
  <2> SUFFICES ASSUME NEW d \in walk.seen, device'[d].signedIn PROVE walk.whole /\ d \in walk'.marked
    BY <1>2 DEF SignsOut
  <2>1. d \in Paired /\ device[d].signedIn
    BY <1>3, <1>4
  <2>2. OnFile(d)
    BY <2>1 DEF TreeInv, OffFile
  <2> QED BY <1>1, <1>2, <1>3, <2>1, <2>2 DEF ReachInv, SignsOut
<1>8. EndsInvites'
  BY <1>1, <1>2, <1>4 DEF ReachInv, EndsInvites, Waiting, Expiring
<1>9. NoneJoins'
  <2>1. Closed \subseteq Paired
    BY <1>4 DEF Closed
  <2> QED BY <1>1, <1>2, <1>3, <1>4, <2>1 DEF ReachInv, NoneJoins, Calling, OnFile
<1> QED BY <1>5, <1>6, <1>7, <1>8, <1>9 DEF ReachInv

\* Every step keeps what the search has found.
LEMMA StepReach == ASSUME TreeInv, JoinInv, ReachInv, [PairingNext]_pairingVars PROVE ReachInv'
<1>1. ASSUME \/ RevokeCommits \/ RemoveDetaches \/ RemoveDeletes \/ WalkFails PROVE ReachInv'
  <2>1. ~Looking'
    BY <1>1 DEF RevokeCommits, RemoveDetaches, RemoveDeletes, WalkFails, NoWalk, Looking, TreeInv, PairingTypeOK, WalkRecords
  <2> QED BY <2>1 DEF ReachInv
<1>2. ASSUME NEW c \in Callers,
             InviteAsked(c) \/ InviteMade(c) \/ WatchAsked(c) \/ ClaimAsked(c) \/ ClaimTakes(c) \/ ClaimFails(c)
      PROVE  UNCHANGED <<device, walk>>
  BY <1>2 DEF InviteAsked, InviteMade, WatchAsked, ClaimAsked, ClaimTakes, ClaimFails
<1>3. ASSUME UNCHANGED pairingVars \/ \E i \in Invites : InviteCancelled(i) PROVE UNCHANGED <<device, walk>>
  BY <1>3 DEF pairingVars, InviteCancelled
<1> QED BY <1>1, <1>2, <1>3, CallReaches, WatchReaches, JoinReaches, PassedReaches, BeginReaches, InvitesReach,
           FindsReach, MarksReach DEF PairingNext

\* What lies under a device, as a set: the least that its companions are in,
\* and theirs, and so on.
LEMMA UnderUnfolds ==
  ASSUME PairingTypeOK, NEW top
  PROVE  \A e \in Someone : Under(e, top) = (e # Nobodys /\ (device[e].parent = top \/ Under(device[e].parent, top)))
<1> DEFINE Whole(C)  == \A x \in Paired : device[x].parent = top \/ device[x].parent \in C => x \in C
           Lying(e) == \A C \in SUBSET Someone : Whole(C) => e \in C
           g        == [e \in Someone |-> Lying(e)]
           f        == CHOOSE under : under = [e \in Someone |-> e # Nobodys /\ (device[e].parent = top \/ under[device[e].parent])]
<1>1. \A x \in Someone : x # Nobodys => x \in Paired /\ device[x].parent \in Someone
  BY Bounds DEF PairingTypeOK, DeviceRecords, Nobodys
<1>2. ASSUME NEW e \in Someone, e # Nobodys, device[e].parent = top \/ Lying(device[e].parent) PROVE Lying(e)
  <2> SUFFICES ASSUME NEW C \in SUBSET Someone, Whole(C) PROVE e \in C
    OBVIOUS
  <2> QED BY <1>1, <1>2
<1>3. ASSUME NEW e \in Someone, Lying(e) PROVE e # Nobodys /\ (device[e].parent = top \/ Lying(device[e].parent))
  <2> DEFINE C == {x \in Paired : device[x].parent = top \/ Lying(device[x].parent)}
  <2>1. C \in SUBSET Someone
    BY Bounds
  <2>2. Whole(C)
    <3> SUFFICES ASSUME NEW x \in Paired, device[x].parent \in C PROVE Lying(device[x].parent)
      OBVIOUS
    <3> HIDE DEF Lying
    <3>1. device[x].parent \in Paired
      OBVIOUS
    <3> QED BY <1>2, <3>1, Bounds DEF Nobodys
  <2>3. e \in C
    <3> HIDE DEF C, Whole
    <3> QED BY <1>3, <2>1, <2>2
  <2> HIDE DEF Lying
  <2> QED BY <2>3, Bounds DEF Nobodys
<1>4. \A e \in Someone : g[e] = (e # Nobodys /\ (device[e].parent = top \/ g[device[e].parent]))
  <2> SUFFICES ASSUME NEW e \in Someone PROVE g[e] = (e # Nobodys /\ (device[e].parent = top \/ g[device[e].parent]))
    OBVIOUS
  <2>1. Lying(e) \in BOOLEAN /\ g[e] = Lying(e)
    OBVIOUS
  <2>2. e # Nobodys => g[device[e].parent] = Lying(device[e].parent)
    BY <1>1
  <2> HIDE DEF Lying, g
  <2>3. Lying(e) <=> e # Nobodys /\ (device[e].parent = top \/ Lying(device[e].parent))
    BY <1>1, <1>2, <1>3
  <2> QED BY <2>1, <2>2, <2>3
<1>5. g = [e \in Someone |-> e # Nobodys /\ (device[e].parent = top \/ g[device[e].parent])]
  <2>1. g = [e \in Someone |-> g[e]]
    OBVIOUS
  <2> HIDE DEF g
  <2> QED BY <1>4, <2>1
<1> HIDE DEF g
<1>6. f = [e \in Someone |-> e # Nobodys /\ (device[e].parent = top \/ f[device[e].parent])]
  BY <1>5
<1>7. ASSUME NEW e PROVE Under(e, top) = f[e]
  BY DEF Under, Someone
<1> HIDE DEF f
<1> QED BY <1>1, <1>6, <1>7

\* When the search is over, it has found whatever lies under the device, but
\* for what lies under who is noted.
LEMMA ReachesAll == ASSUME TreeInv, ReachInv PROVE RevocationReaches
<1> SUFFICES ASSUME Walking("commit") \/ Walking("detach"),
                    NEW d \in Paired, device[d].signedIn, Under(d, walk.of)
             PROVE  d \in walk.marked \cup walk.late \/ \E l \in walk.late : Under(d, l)
  BY DEF RevocationReaches
<1>1. Looking /\ Searched = walk.seen /\ walk.found = {} /\ walk.of \in walk.seen /\ walk.late \subseteq Paired
  BY DEF Looking, Searched, Walking, ReachInv, LooksAround, TreeInv, PairingTypeOK, WalkRecords
<1> DEFINE C == walk.seen \cup walk.late \cup {x \in Paired : \E l \in walk.late : Under(x, l)}
           B == {x \in Paired : Under(x, walk.of) /\ x \notin C}
<1>2. B = {}
  <2> SUFFICES ASSUME B # {} PROVE FALSE
    OBVIOUS
  <2>1. PICK x \in B : device[x].parent \notin B
    BY DEF TreeInv, Treelike
  <2> DEFINE p == device[x].parent
  <2>2. x \in Paired /\ x \in Someone /\ p \in Someone /\ Under(x, walk.of) /\ x \notin C
    BY Bounds DEF TreeInv, PairingTypeOK, DeviceRecords
  <2>3. p = walk.of \/ Under(p, walk.of)
    BY <2>2, UnderUnfolds DEF TreeInv
  <2>4. CASE p \in walk.seen
    BY <1>1, <2>2, <2>4 DEF ReachInv, FindsAll
  <2>5. p \notin walk.late
    <3> SUFFICES ASSUME p \in walk.late PROVE FALSE
      OBVIOUS
    <3>1. x # Nobodys /\ device[x].parent = p
      BY <2>2, Bounds DEF Nobodys
    <3>2. Under(x, p) = (x # Nobodys /\ (device[x].parent = p \/ Under(device[x].parent, p)))
      BY <2>2, UnderUnfolds DEF TreeInv
    <3>3. Under(x, p)
      BY <3>1, <3>2
    <3> QED BY <2>2, <3>3
  <2>6. ASSUME NEW l \in walk.late, Under(p, l) PROVE FALSE
    <3>1. Under(x, l)
      BY <2>2, <2>6, UnderUnfolds, Bounds DEF TreeInv, Nobodys
    <3> QED BY <2>2, <3>1
  <2>7. CASE p \notin walk.seen
    <3>1. Under(p, walk.of)
      BY <1>1, <2>3, <2>7
    <3>2. p \in Paired
      BY <2>2, <3>1, UnderUnfolds, Bounds DEF TreeInv, Nobodys
    <3>3. p \notin C
      BY <2>5, <2>6, <2>7
    <3> HIDE DEF C, p
    <3> QED BY <2>1, <3>1, <3>2, <3>3 DEF p
  <2> QED BY <2>4, <2>7
<1>3. d \in C
  BY <1>2
<1>4. d \in walk.seen => d \in walk.marked
  BY <1>1 DEF ReachInv, SignsOut
<1> QED BY <1>3, <1>4

\* Initially nothing is searched.
LEMMA InitReach == PairingInit => ReachInv
BY DEF PairingInit, ReachInv, Looking, NoWalk

\* For any callers, devices, invites and bounds: the records of pairing have
\* their types, the chains by which devices that were revoked are passed over
\* included (connection.ts, removeRevokedDevices).
THEOREM PairingTypes == PairingSpec => []PairingTypeOK
<1>1. PairingInit => TreeInv /\ JoinInv
  BY InitTree, InitJoin
<1>2. TreeInv /\ JoinInv /\ [PairingNext]_pairingVars => (TreeInv /\ JoinInv)'
  BY StepTreeInv, StepJoin
<1>3. TreeInv => PairingTypeOK
  BY DEF TreeInv
<1> QED BY <1>1, <1>2, <1>3, PTL DEF PairingSpec

\* For any callers, devices and invites: a revocation or removal that has gone
\* through has found every device under the device, however many records lie
\* between, but for what joined or was handed on only meanwhile and what is
\* under that (connection.ts, revokeCompanions).
THEOREM RevocationFindsAll == PairingSpec => []RevocationReaches
<1>1. PairingInit => TreeInv /\ JoinInv /\ ReachInv
  BY InitTree, InitJoin, InitReach
<1>2. TreeInv /\ JoinInv /\ ReachInv /\ [PairingNext]_pairingVars => (TreeInv /\ JoinInv /\ ReachInv)'
  BY StepTreeInv, StepJoin, StepReach
<1>3. TreeInv /\ ReachInv => RevocationReaches
  BY ReachesAll
<1> QED BY <1>1, <1>2, <1>3, PTL DEF PairingSpec

----------------------------------------------------------------------------
(* WINDOWS                                                                 *)

\* A day has a minute and a week two days.
LEMMA Sizes == Day \in Nat \ {0} /\ Week \in Nat \ {0} /\ Week # 1
BY WindowsAssumption

\* What a multiple and less than another is divided into.
LEMMA Divides ==
  ASSUME NEW d \in Nat \ {0}, NEW a \in Int, NEW r \in 0..(d - 1)
  PROVE  (a * d + r) \div d = a /\ (a * d + r) % d = r
<1> DEFINE x == a * d + r
           b == x \div d
           s == x % d
<1>1. x \in Int /\ b \in Int /\ s \in 0..(d - 1) /\ x = b * d + s
  OBVIOUS
<1>2. (a - b) * d = s - r
  BY <1>1
<1>3. CASE a - b >= 1
  <2>1. (a - b) * d >= d
    BY <1>1, <1>3
  <2> QED BY <1>1, <1>2, <2>1
<1>4. CASE b - a >= 1
  <2>1. (b - a) * d >= d
    BY <1>1, <1>4
  <2>2. (b - a) * d = r - s
    BY <1>1
  <2> QED BY <1>1, <2>2, <2>1
<1>5. a = b
  BY <1>1, <1>3, <1>4
<1> QED BY <1>1, <1>2, <1>5

\* Minute m of day q, counted from the week's beginning from which time runs.
At(q, m) == q * Day + m

\* Every time is a minute of a day, and times are in the order of their days
\* and minutes: what is said of windows below is said of days and minutes.
LEMMA AtTime ==
  ASSUME NEW t \in Nat
  PROVE  t \div Day \in Nat /\ MinuteAt(t) \in Minutes /\ t = At(t \div Day, MinuteAt(t))
BY Sizes DEF MinuteAt, Minutes, At

LEMMA TimeAt ==
  ASSUME NEW q \in Nat, NEW m \in Minutes
  PROVE  At(q, m) \in Nat /\ At(q, m) \div Day = q /\ MinuteAt(At(q, m)) = m
<1>1. q * Day \in Nat
  BY Sizes
<1> QED BY <1>1, Divides, Sizes DEF MinuteAt, Minutes, At

LEMMA AtIsTime == ASSUME NEW q \in Int, NEW m \in Minutes PROVE At(q, m) \in Int
BY Sizes DEF At, Minutes

LEMMA Later ==
  ASSUME NEW q \in Int, NEW p \in Int, NEW m \in Minutes, NEW k \in Minutes
  PROVE  /\ At(q, m) \in Int
         /\ At(q, m) < At(p, k) <=> (q < p \/ (q = p /\ m < k))
         /\ At(q, m) + Day = At(q + 1, m)
<1> DEFINE x == q * Day
           y == p * Day
<1>1. x \in Int /\ y \in Int /\ (q + 1) * Day = x + Day /\ Day \in Nat
  BY Sizes
<1>2. q < p => x + Day <= y
  <2> SUFFICES ASSUME q < p PROVE x + Day <= y
    OBVIOUS
  <2>1. (p - q) * Day >= Day /\ (p - q) * Day = y - x
    BY Sizes
  <2> QED BY <1>1, <2>1
<1>3. p < q => y + Day <= x
  <2> SUFFICES ASSUME p < q PROVE y + Day <= x
    OBVIOUS
  <2>1. (q - p) * Day >= Day /\ (q - p) * Day = x - y
    BY Sizes
  <2> QED BY <1>1, <2>1
<1>4. q = p => x = y
  OBVIOUS
<1>5. At(q, m) = x + m /\ At(p, k) = y + k /\ At(q + 1, m) = x + Day + m
  BY <1>1 DEF At, Minutes
<1>6. m \in Int /\ k \in Int /\ 0 <= m /\ m < Day /\ 0 <= k /\ k < Day
  BY <1>1 DEF Minutes
<1> HIDE DEF x, y
<1>7. At(q, m) \in Int /\ At(q, m) + Day = At(q + 1, m)
  BY <1>1, <1>5, <1>6
<1>8. CASE q < p
  BY <1>1, <1>2, <1>5, <1>6, <1>7, <1>8
<1>9. CASE p < q
  BY <1>1, <1>3, <1>5, <1>6, <1>7, <1>9
<1>10. CASE q = p
  BY <1>1, <1>4, <1>5, <1>6, <1>7, <1>10
<1> QED BY <1>8, <1>9, <1>10

\* The day of the week, of days counted from a week's beginning.
LEMMA Weekdays ==
  ASSUME NEW n \in Nat
  PROVE  /\ n % Week \in Days /\ (n + Week) % Week = n % Week
         /\ ((n % Week) + 1) % Week = (n + 1) % Week /\ (n + 1) % Week # n % Week
         /\ ((n % Week) + Week - 1) % Week = (n - 1 + Week) % Week /\ (n - 1 + Week) % Week \in Days
<1> DEFINE a == n \div Week
           r == n % Week
<1>1. a \in Nat /\ r \in 0..(Week - 1) /\ n = a * Week + r
  BY Sizes
<1>2. a * Week \in Nat /\ (a + 1) * Week = a * Week + Week
  BY <1>1, Sizes
<1>3. (n + Week) % Week = r
  <2>1. n + Week = (a + 1) * Week + r /\ a + 1 \in Int
    BY <1>1, <1>2, Sizes
  <2> HIDE DEF a, r
  <2> QED BY <1>1, <2>1, Divides, Sizes
<1>4. ASSUME r < Week - 1 PROVE (r + 1) % Week = (n + 1) % Week /\ (n + 1) % Week # r
  <2>1. n + 1 = a * Week + (r + 1) /\ r + 1 \in 0..(Week - 1)
    BY <1>1, <1>2, <1>4, Sizes
  <2>2. (n + 1) % Week = r + 1
    <3> HIDE DEF a, r
    <3> QED BY <1>1, <2>1, Divides, Sizes
  <2>3. (r + 1) % Week = r + 1
    <3>1. r + 1 = 0 * Week + (r + 1)
      BY <1>1, Sizes
    <3> HIDE DEF r
    <3> QED BY <2>1, <3>1, Divides, Sizes
  <2> QED BY <1>1, <2>2, <2>3
<1>5. ASSUME r = Week - 1 PROVE (r + 1) % Week = (n + 1) % Week /\ (n + 1) % Week # r
  <2>1. n + 1 = (a + 1) * Week + 0 /\ 0 \in 0..(Week - 1) /\ r + 1 = 1 * Week + 0
    BY <1>1, <1>2, <1>5, Sizes
  <2>2. (n + 1) % Week = 0 /\ (r + 1) % Week = 0
    <3> HIDE DEF a, r
    <3> QED BY <1>1, <2>1, Divides, Sizes
  <2> QED BY <1>5, <2>2, Sizes
<1>6. ASSUME r > 0 PROVE (r + Week - 1) % Week = (n - 1 + Week) % Week /\ (n - 1 + Week) % Week \in Days
  <2>1. n - 1 + Week = (a + 1) * Week + (r - 1) /\ r - 1 \in 0..(Week - 1) /\ r + Week - 1 = 1 * Week + (r - 1)
    BY <1>1, <1>2, <1>6, Sizes
  <2>2. (n - 1 + Week) % Week = r - 1 /\ (r + Week - 1) % Week = r - 1
    <3> HIDE DEF a, r
    <3> QED BY <1>1, <2>1, Divides, Sizes
  <2> QED BY <2>1, <2>2 DEF Days
<1>7. ASSUME r = 0 PROVE (r + Week - 1) % Week = (n - 1 + Week) % Week /\ (n - 1 + Week) % Week \in Days
  <2>1. n - 1 + Week = a * Week + (Week - 1) /\ Week - 1 \in 0..(Week - 1) /\ r + Week - 1 = 0 * Week + (Week - 1)
    BY <1>1, <1>2, <1>7, Sizes
  <2>2. (n - 1 + Week) % Week = Week - 1 /\ (r + Week - 1) % Week = Week - 1
    <3> HIDE DEF a, r
    <3> QED BY <1>1, <2>1, Divides, Sizes
  <2> QED BY <2>1, <2>2 DEF Days
<1>8. (r + 1) % Week = (n + 1) % Week /\ (n + 1) % Week # r
  BY <1>1, <1>4, <1>5, Sizes
<1>9. (r + Week - 1) % Week = (n - 1 + Week) % Week /\ (n - 1 + Week) % Week \in Days
  BY <1>1, <1>6, <1>7, Sizes
<1> QED BY <1>1, <1>3, <1>8, <1>9 DEF Days

\* From any day on, each day of the week comes within a week.
LEMMA DayComes ==
  ASSUME NEW n \in Nat, NEW d \in Days
  PROVE  \E k \in 0..(Week - 1) : (n + k) % Week = d
<1> DEFINE a == n \div Week
           r == n % Week
<1>1. a \in Nat /\ r \in 0..(Week - 1) /\ n = a * Week + r
  BY Sizes
<1>2. a * Week \in Nat /\ (a + 1) * Week = a * Week + Week
  BY <1>1, Sizes
<1>3. CASE d >= r
  <2>1. n + (d - r) = a * Week + d /\ d - r \in 0..(Week - 1)
    BY <1>1, <1>2, <1>3, Sizes DEF Days
  <2>2. (n + (d - r)) % Week = d
    <3> HIDE DEF a, r
    <3> QED BY <1>1, <2>1, Divides, Sizes DEF Days
  <2> QED BY <2>1, <2>2
<1>4. CASE d < r
  <2>1. n + (d + Week - r) = (a + 1) * Week + d /\ d + Week - r \in 0..(Week - 1)
    BY <1>1, <1>2, <1>4, Sizes DEF Days
  <2>2. (n + (d + Week - r)) % Week = d
    <3> HIDE DEF a, r
    <3> QED BY <1>1, <2>1, Divides, Sizes DEF Days
  <2> QED BY <2>1, <2>2
<1> QED BY <1>1, <1>3, <1>4, Sizes DEF Days
\* A window with hours of its own, and one that the household may have.
Timed(w) == w.always = FALSE /\ w.days \in SUBSET Days /\ w.start \in Minutes /\ w.end \in Minutes /\ w.start # w.end
Takes(w) == w = Always \/ Timed(w)

\* The occurrence that begins on a day.
StartsOn(w, n) == (n + Week) % Week \in w.days
During(w, n, t) == At(n, w.start) <= t /\ t < At(n, w.start) + Length(w)

\* An occurrence is shorter than a day, and ends by the clock.
LEMMA Lengths ==
  ASSUME NEW w, Timed(w), NEW n \in Int
  PROVE  /\ Length(w) \in 1..(Day - 1)
         /\ At(n, w.start) + Length(w) = IF Crosses(w) THEN At(n + 1, w.end) ELSE At(n, w.end)
<1>1. At(n, w.end) \in Int /\ At(n, w.end) + Day = At(n + 1, w.end) /\ At(n, w.start) \in Int
  BY Later DEF Timed
<1>2. At(n, w.start) = At(n, w.end) + (w.start - w.end)
  <2>1. n * Day \in Int
    BY Sizes
  <2> DEFINE x == n * Day
  <2>2. x \in Int /\ At(n, w.start) = x + w.start /\ At(n, w.end) = x + w.end
    BY <2>1 DEF At
  <2> HIDE DEF x
  <2> QED BY <2>2, Sizes DEF Timed, Minutes
<1>3. w.start \in Int /\ w.end \in Int /\ 0 <= w.start /\ w.start < Day /\ 0 <= w.end /\ w.end < Day /\ w.start # w.end
  BY Sizes DEF Timed, Minutes
<1>4. CASE w.start > w.end
  BY <1>1, <1>2, <1>3, <1>4, Sizes DEF Length, Crosses
<1>5. CASE w.start < w.end
  BY <1>1, <1>2, <1>3, <1>5, Sizes DEF Length, Crosses
<1> QED BY <1>3, <1>4, <1>5

\* When an occurrence is on, by the clock's day and minute.
LEMMA Daily ==
  ASSUME NEW w, Timed(w), NEW n \in Int, NEW q \in Int, NEW m \in Minutes
  PROVE  During(w, n, At(q, m)) <=> \/ n = q /\ m >= w.start /\ (Crosses(w) \/ m < w.end)
                                    \/ n = q - 1 /\ Crosses(w) /\ m < w.end
<1>1. w.start \in Minutes /\ w.end \in Minutes /\ w.start \in Int /\ w.end \in Int /\ m \in Int /\ n + 1 \in Int
  BY Sizes DEF Timed, Minutes
<1>2. \A p \in Int, k \in Minutes :
        /\ At(q, m) < At(p, k) <=> (q < p \/ (q = p /\ m < k))
        /\ At(q, m) \in Int /\ At(p, k) \in Int
  BY Later
<1>3. At(n, w.start) <= At(q, m) <=> ~(q < n \/ (q = n /\ m < w.start))
  <2>1. At(q, m) < At(n, w.start) <=> (q < n \/ (q = n /\ m < w.start))
    BY <1>1, <1>2
  <2>2. At(q, m) \in Int /\ At(n, w.start) \in Int
    BY <1>1, <1>2
  <2>3. At(n, w.start) <= At(q, m) <=> ~(At(q, m) < At(n, w.start))
    BY <2>2
  <2> QED BY <2>1, <2>3
<1>4. CASE Crosses(w)
  <2>1. At(q, m) < At(n + 1, w.end) <=> (q < n + 1 \/ (q = n + 1 /\ m < w.end))
    BY <1>1, <1>2
  <2>2. At(n, w.start) + Length(w) = At(n + 1, w.end)
    BY <1>4, Lengths
  <2>3. During(w, n, At(q, m)) <=> At(n, w.start) <= At(q, m) /\ At(q, m) < At(n + 1, w.end)
    BY <2>2 DEF During
  <2>4. w.start > w.end
    BY <1>4 DEF Crosses
  <2> QED BY <1>1, <1>3, <1>4, <2>1, <2>3, <2>4
<1>5. CASE ~Crosses(w)
  <2>1. At(q, m) < At(n, w.end) <=> (q < n \/ (q = n /\ m < w.end))
    BY <1>1, <1>2
  <2>2. At(n, w.start) + Length(w) = At(n, w.end)
    BY <1>5, Lengths
  <2>3. During(w, n, At(q, m)) <=> At(n, w.start) <= At(q, m) /\ At(q, m) < At(n, w.end)
    BY <2>2 DEF During
  <2> QED BY <1>1, <1>3, <1>5, <2>1, <2>3
<1> QED BY <1>4, <1>5

\* A client works out that a window is active exactly if it blocks.
LEMMA ActiveOccurs ==
  ASSUME NEW w, Takes(w), NEW t \in Nat
  PROVE  /\ Occurs(w, t) <=> IsActive(w, t)
         /\ Timed(w) => (Occurs(w, t) <=> \E n \in Int : n >= -1 /\ StartsOn(w, n) /\ During(w, n, t))
<1>1. CASE w = Always
  BY <1>1 DEF Always, Occurs, IsActive, Timed
<1>2. CASE Timed(w)
  <2> DEFINE q == t \div Day
             m == MinuteAt(t)
  <2>1. q \in Nat /\ m \in Minutes /\ t = At(q, m) /\ WeekdayAt(t) = q % Week
    BY AtTime DEF WeekdayAt
  <2>2. /\ StartsOn(w, q) <=> WeekdayAt(t) \in w.days
        /\ StartsOn(w, q - 1) <=> (WeekdayAt(t) + Week - 1) % Week \in w.days
    BY <2>1, Weekdays DEF StartsOn
  <2>3. Occurs(w, t) <=> \E n \in {q, q - 1} : StartsOn(w, n) /\ During(w, n, t)
    BY <1>2 DEF Occurs, StartsOn, During, At, Timed
  <2> HIDE DEF q, m
  <2>4. \A n \in Int : During(w, n, t) => n \in {q, q - 1}
    BY <1>2, <2>1, Daily
  <2>5. q - 1 \in Int /\ q \in Int /\ q - 1 >= -1 /\ q >= -1
    BY <2>1
  <2>6. Occurs(w, t) <=> IsActive(w, t)
    <3>1. During(w, q, t) <=> m >= w.start /\ (Crosses(w) \/ m < w.end)
      BY <1>2, <2>1, Daily
    <3>2. During(w, q - 1, t) <=> Crosses(w) /\ m < w.end
      BY <1>2, <2>1, Daily
    <3> QED BY <1>2, <2>2, <2>3, <3>1, <3>2 DEF IsActive, m, Timed
  <2> QED BY <2>3, <2>4, <2>5, <2>6
<1> QED BY <1>1, <1>2 DEF Takes

\* The bands of a day are the minutes of it in which the window is on.
LEMMA BandsOccur ==
  ASSUME NEW w, Takes(w), NEW q \in Nat, NEW m \in Minutes
  PROVE  Occurs(w, At(q, m)) <=> \E band \in DayBands(w, q % Week) : Within(m, band)
<1>1. /\ At(q, m) \in Nat /\ WeekdayAt(At(q, m)) = q % Week /\ MinuteAt(At(q, m)) = m
      /\ Occurs(w, At(q, m)) <=> IsActive(w, At(q, m))
  BY TimeAt, ActiveOccurs DEF WeekdayAt
<1>2. m \in Int /\ 0 <= m /\ m < Day
  BY Sizes DEF Minutes
<1>3. CASE w = Always
  <2>1. DayBands(w, q % Week) = {<<0, Day>>} /\ IsActive(w, At(q, m))
    BY <1>3 DEF DayBands, Always, IsActive
  <2>2. Within(m, <<0, Day>>)
    BY <1>2 DEF Within
  <2> QED BY <1>1, <2>1, <2>2
<1>4. CASE Timed(w)
  <2> DEFINE d == q % Week
             e == (d + Week - 1) % Week
  <2>1. IsActive(w, At(q, m)) <=> \/ ~Crosses(w) /\ d \in w.days /\ m >= w.start /\ m < w.end
                                  \/ Crosses(w) /\ d \in w.days /\ m >= w.start
                                  \/ Crosses(w) /\ e \in w.days /\ m < w.end
    BY <1>1, <1>4 DEF IsActive, Timed
  <2>2. DayBands(w, d) = (IF Crosses(w) /\ e \in w.days THEN {<<0, w.end>>} ELSE {})
                           \cup (IF d \in w.days THEN {<<w.start, IF Crosses(w) THEN Day ELSE w.end>>} ELSE {})
    BY <1>4 DEF DayBands, Timed
  <2>3. Within(m, <<0, w.end>>) <=> m < w.end
    BY <1>2 DEF Within
  <2>4. Within(m, <<w.start, IF Crosses(w) THEN Day ELSE w.end>>) <=> w.start <= m /\ (Crosses(w) \/ m < w.end)
    BY <1>2 DEF Within
  <2>5. w.start <= m <=> m >= w.start
    BY <1>2, <1>4, Sizes DEF Timed, Minutes
  <2> HIDE DEF d, e
  <2>6. (\E band \in DayBands(w, d) : Within(m, band))
          <=> \/ Crosses(w) /\ e \in w.days /\ Within(m, <<0, w.end>>)
              \/ d \in w.days /\ Within(m, <<w.start, IF Crosses(w) THEN Day ELSE w.end>>)
    BY <2>2
  <2> QED BY <1>1, <2>1, <2>3, <2>4, <2>5, <2>6 DEF d
<1> QED BY <1>3, <1>4 DEF Takes

\* The bar of a block or an exception runs from now for as long as it lasts.
LEMMA BarLasts ==
  ASSUME NEW t \in Nat, NEW until \in Nat \cup {Open}, Lasts(until, t), NEW m \in Minutes
  PROVE  Within(m, <<MinuteAt(t), EndToday(until, t)>>) <=> t - MinuteAt(t) + m >= t /\ Lasts(until, t - MinuteAt(t) + m)
<1> DEFINE q == t \div Day
           k == MinuteAt(t)
           p == until \div Day
           l == MinuteAt(until)
<1>1. q \in Nat /\ k \in Minutes /\ t = At(q, k) /\ WeekdayAt(t) = q % Week
  BY AtTime DEF WeekdayAt
<1>2. t - k + m = At(q, m) /\ At(q, m) \in Int
  <2>1. q * Day \in Int
    BY <1>1, Sizes
  <2> DEFINE x == q * Day
  <2>2. x \in Int /\ t = x + k /\ At(q, m) = x + m
    BY <1>1, <2>1 DEF At
  <2> HIDE DEF x, q, k
  <2> QED BY <1>1, <2>2, Sizes DEF Minutes
<1>3. /\ k \in Int /\ 0 <= k /\ k < Day /\ m \in Int /\ 0 <= m /\ m < Day /\ Day \in Nat
  BY <1>1, Sizes DEF Minutes
<1>4. At(q, m) >= t <=> m >= k
  <2> HIDE DEF q, k
  <2>1. At(q, m) < At(q, k) <=> (q < q \/ (q = q /\ m < k))
    BY <1>1, Later
  <2> QED BY <1>1, <1>2, <1>3, <2>1
<1>5. CASE until = Open
  <2> HIDE DEF q, k
  <2>1. EndToday(until, t) = Day
    BY <1>5 DEF EndToday
  <2>3. Lasts(until, At(q, m))
    BY <1>5 DEF Lasts
  <2> QED BY <1>2, <1>3, <1>4, <2>1, <2>3 DEF Within, k
<1>6. CASE until # Open
  <2>1. until \in Nat /\ p \in Nat /\ l \in Minutes /\ until = At(p, l) /\ WeekdayAt(until) = p % Week
    BY <1>6, AtTime DEF WeekdayAt
  <2>2. l \in Int /\ 0 <= l /\ l < Day
    BY <2>1, Sizes DEF Minutes
  <2>3. until > t /\ (Lasts(until, At(q, m)) <=> until > At(q, m))
    BY <1>6 DEF Lasts
  <2>4. EndToday(until, t) = IF p % Week # q % Week \/ until - t >= Day THEN Day ELSE IF l > k THEN l ELSE k + 1
    BY <1>1, <1>6, <2>1 DEF EndToday
  <2> HIDE DEF p, l, q, k
  <2>5. q < p \/ (q = p /\ k < l)
    BY <1>1, <2>1, <2>3, Later
  <2>6. until > At(q, m) <=> q < p \/ (q = p /\ m < l)
    <3>1. At(q, m) < At(p, l) <=> (q < p \/ (q = p /\ m < l))
      BY <1>1, <2>1, Later
    <3> QED BY <1>2, <2>1, <3>1
  <2>7. until - t >= Day => q < p
    <3>1. q + 1 \in Int /\ At(q, k) + Day = At(q + 1, k) /\ At(q + 1, k) \in Int
      BY <1>1, Later
    <3>2. At(p, l) < At(q + 1, k) <=> (p < q + 1 \/ (p = q + 1 /\ l < k))
      BY <1>1, <2>1, <3>1, Later
    <3> QED BY <1>1, <1>3, <2>1, <2>2, <3>1, <3>2
  <2>8. q < p => p % Week # q % Week \/ until - t >= Day
    <3> SUFFICES ASSUME q < p, p % Week = q % Week PROVE until - t >= Day
      OBVIOUS
    <3>1. q + 1 \in Int /\ At(q, k) + Day = At(q + 1, k) /\ At(q + 1, k) \in Int
      BY <1>1, Later
    <3>2. At(p, l) < At(q + 1, k) <=> (p < q + 1 \/ (p = q + 1 /\ l < k))
      BY <1>1, <2>1, <3>1, Later
    <3>3. p # q + 1
      BY <1>1, Weekdays
    <3> QED BY <1>1, <1>3, <2>1, <2>2, <3>1, <3>2, <3>3
  <2>9. EndToday(until, t) = IF q < p THEN Day ELSE l
    BY <2>4, <2>5, <2>7, <2>8
  <2>10. Within(m, <<k, EndToday(until, t)>>) <=> k <= m /\ m < EndToday(until, t)
    BY DEF Within
  <2>11. k <= m <=> m >= k
    BY <1>3
  <2>12. m < EndToday(until, t) <=> q < p \/ (q = p /\ m < l)
    BY <1>1, <1>3, <2>1, <2>2, <2>5, <2>9
  <2> QED BY <1>2, <1>4, <2>3, <2>6, <2>10, <2>11, <2>12 DEF k
<1> QED BY <1>5, <1>6

\* What an occurrence takes of a week, of windows with hours of their own.
SpansOf(w, d) ==
  IF At(d, w.start) + Length(w) <= Week * Day THEN {<<At(d, w.start), At(d, w.start) + Length(w)>>}
  ELSE {<<At(d, w.start), Week * Day>>, <<0, At(d, w.start) + Length(w) - Week * Day>>}

LEMMA SpansAre ==
  ASSUME NEW w, Timed(w), NEW d \in Days
  PROVE  SpansOf(w, d) =
           IF ~Crosses(w) THEN {<<At(d, w.start), At(d, w.end)>>}
           ELSE IF d < Week - 1 \/ w.end = 0 THEN {<<At(d, w.start), At(d + 1, w.end)>>}
           ELSE {<<At(d, w.start), At(Week, 0)>>, <<At(0, 0), At(0, w.end)>>}
<1>1. /\ d \in Int /\ d + 1 \in Int /\ d < Week /\ Week \in Int /\ 0 \in Minutes
      /\ w.start \in Minutes /\ w.end \in Minutes /\ w.end \in Int /\ 0 <= w.end
  BY Sizes DEF Days, Minutes, Timed
<1>2. At(Week, 0) = Week * Day /\ At(0, 0) = 0 /\ At(0, w.end) = w.end /\ At(Week, w.end) = Week * Day + w.end
  <2>1. Week * Day \in Int /\ 0 * Day = 0
    BY Sizes
  <2> QED BY <1>1, <2>1 DEF At
<1>3. At(d, w.start) + Length(w) = IF Crosses(w) THEN At(d + 1, w.end) ELSE At(d, w.end)
  BY <1>1, Lengths
<1>4. \A n \in Int :
        /\ At(n, w.end) \in Int /\ At(Week, 0) \in Int
        /\ At(Week, 0) < At(n, w.end) <=> (Week < n \/ (Week = n /\ 0 < w.end))
  BY <1>1, Later
<1>5. CASE ~Crosses(w)
  <2>1. At(d, w.end) \in Int /\ At(Week, 0) \in Int /\ ~(At(Week, 0) < At(d, w.end))
    BY <1>1, <1>4
  <2>2. At(d, w.start) + Length(w) <= Week * Day
    BY <1>2, <1>3, <1>5, <2>1
  <2> QED BY <1>3, <1>5, <2>2 DEF SpansOf
<1>6. CASE Crosses(w)
  <2>1. /\ At(d + 1, w.end) \in Int /\ At(Week, 0) \in Int
        /\ At(Week, 0) < At(d + 1, w.end) <=> ~(d < Week - 1 \/ w.end = 0)
    BY <1>1, <1>4
  <2>2. At(d, w.start) + Length(w) <= Week * Day <=> (d < Week - 1 \/ w.end = 0)
    BY <1>2, <1>3, <1>6, <2>1
  <2>3. CASE d < Week - 1 \/ w.end = 0
    BY <1>3, <1>6, <2>2, <2>3 DEF SpansOf
  <2>4. CASE ~(d < Week - 1 \/ w.end = 0)
    <3>1. d + 1 = Week
      BY <1>1, <2>4
    <3>2. At(d, w.start) + Length(w) - Week * Day = w.end
      <4>1. Week * Day \in Int
        BY Sizes
      <4> DEFINE x == Week * Day
      <4>2. x \in Int /\ At(d, w.start) + Length(w) = x + w.end
        BY <1>2, <1>3, <1>6, <3>1, <4>1
      <4>4. At(d, w.start) \in Int /\ Length(w) \in Int
        BY <1>1, Later, Lengths, Sizes
      <4> HIDE DEF x
      <4>3. At(d, w.start) + Length(w) - x = w.end
        BY <1>1, <4>2, <4>4
      <4> QED BY <4>3 DEF x
    <3> QED BY <1>2, <1>6, <2>2, <2>4, <3>2 DEF SpansOf
  <2> QED BY <2>3, <2>4
<1> QED BY <1>5, <1>6

\* The day before one of the week is the one whose next it is, or the week's
\* last.
LEMMA DayBefore ==
  ASSUME NEW d \in Days, NEW q \in Days
  PROVE  q % Week = q /\ ((q + Week - 1) % Week = d <=> (q = d + 1 \/ (q = 0 /\ d = Week - 1)))
<1>1. q \in 0..(Week - 1) /\ d \in 0..(Week - 1) /\ Week \in Nat \ {0}
  BY Sizes DEF Days
<1>2. q % Week = q
  <2>1. q = 0 * Week + q
    BY <1>1
  <2> QED BY <1>1, <2>1, Divides
<1>3. CASE q = 0
  <2>1. q + Week - 1 = 0 * Week + (Week - 1) /\ Week - 1 \in 0..(Week - 1)
    BY <1>1, <1>3
  <2>2. (q + Week - 1) % Week = Week - 1
    BY <1>1, <2>1, Divides
  <2> QED BY <1>1, <1>2, <1>3, <2>2
<1>4. CASE q > 0
  <2>1. q + Week - 1 = 1 * Week + (q - 1) /\ q - 1 \in 0..(Week - 1)
    BY <1>1, <1>4
  <2>2. \A a \in Int : (a * Week + (q - 1)) % Week = q - 1
    BY <1>1, <2>1, Divides
  <2>3. (q + Week - 1) % Week = q - 1
    <3>1. PICK a \in Int : a = 1
      OBVIOUS
    <3>2. q + Week - 1 = a * Week + (q - 1)
      BY <2>1, <3>1
    <3> QED BY <2>2, <3>2
  <2> QED BY <1>1, <1>2, <1>4, <2>3
<1> QED BY <1>1, <1>3, <1>4

\* A time is in what an occurrence takes of a week if the occurrence is on,
\* in that week or wrapped into it.
LEMMA SpanOccurs ==
  ASSUME NEW w, Timed(w), NEW d \in Days, NEW q \in Days, NEW m \in Minutes
  PROVE  (\E x \in SpansOf(w, d) : Within(At(q, m), x))
           <=> IF ~Crosses(w) THEN d = q /\ w.start <= m /\ m < w.end
               ELSE (d = q /\ w.start <= m) \/ ((q + Week - 1) % Week = d /\ m < w.end)
<1>1. /\ d \in Int /\ d + 1 \in Int /\ Week \in Int /\ q \in Int /\ 0 \in Int /\ 0 \in Minutes
      /\ w.start \in Minutes /\ w.end \in Minutes
      /\ w.start \in Int /\ w.end \in Int /\ 0 <= w.end /\ m \in Int /\ 0 <= m /\ 0 <= q /\ q < Week /\ 0 <= d /\ d < Week
  BY Sizes DEF Days, Minutes, Timed
<1>2. \A p \in Int, k \in Minutes :
        /\ At(q, m) \in Int /\ At(p, k) \in Int
        /\ At(q, m) < At(p, k) <=> (q < p \/ (q = p /\ m < k))
  BY <1>1, Later
<1>3. \A p \in Int, k \in Minutes : At(p, k) <= At(q, m) <=> ~(q < p \/ (q = p /\ m < k))
  <2> SUFFICES ASSUME NEW p \in Int, NEW k \in Minutes PROVE At(p, k) <= At(q, m) <=> ~(q < p \/ (q = p /\ m < k))
    OBVIOUS
  <2>1. At(p, k) <= At(q, m) <=> ~(At(q, m) < At(p, k))
    BY <1>2
  <2> QED BY <1>2, <2>1
<1>4. (q + Week - 1) % Week = d <=> (q = d + 1 \/ (q = 0 /\ d = Week - 1))
  BY DayBefore
<1>5. \A p, r \in Int, k, l \in Minutes :
        Within(At(q, m), <<At(p, k), At(r, l)>>) <=> At(p, k) <= At(q, m) /\ At(q, m) < At(r, l)
  BY DEF Within
<1>6. CASE ~Crosses(w)
  <2>1. (\E x \in SpansOf(w, d) : Within(At(q, m), x)) <=> Within(At(q, m), <<At(d, w.start), At(d, w.end)>>)
    BY <1>6, SpansAre
  <2>2. Within(At(q, m), <<At(d, w.start), At(d, w.end)>>)
          <=> At(d, w.start) <= At(q, m) /\ At(q, m) < At(d, w.end)
    BY <1>1, <1>5
  <2>3. /\ At(d, w.start) <= At(q, m) <=> ~(q < d \/ (q = d /\ m < w.start))
        /\ At(q, m) < At(d, w.end) <=> (q < d \/ (q = d /\ m < w.end))
    BY <1>1, <1>2, <1>3
  <2> QED BY <1>1, <1>6, <2>1, <2>2, <2>3
<1>7. CASE Crosses(w)
  <2>1. w.start > w.end
    BY <1>7 DEF Crosses
  <2>2. At(d, w.start) <= At(q, m) <=> ~(q < d \/ (q = d /\ m < w.start))
    BY <1>1, <1>3
  <2>3. CASE d < Week - 1 \/ w.end = 0
    <3>1. (\E x \in SpansOf(w, d) : Within(At(q, m), x)) <=> Within(At(q, m), <<At(d, w.start), At(d + 1, w.end)>>)
      BY <1>7, <2>3, SpansAre
    <3>2. Within(At(q, m), <<At(d, w.start), At(d + 1, w.end)>>)
            <=> At(d, w.start) <= At(q, m) /\ At(q, m) < At(d + 1, w.end)
      BY <1>1, <1>5
    <3>3. At(q, m) < At(d + 1, w.end) <=> (q < d + 1 \/ (q = d + 1 /\ m < w.end))
      BY <1>1, <1>2
    <3> QED BY <1>1, <1>4, <1>7, <2>1, <2>2, <2>3, <3>1, <3>2, <3>3
  <2>4. CASE ~(d < Week - 1 \/ w.end = 0)
    <3>1. SpansOf(w, d) = {<<At(d, w.start), At(Week, 0)>>, <<At(0, 0), At(0, w.end)>>}
      BY <1>7, <2>4, SpansAre
    <3>2. (\E x \in SpansOf(w, d) : Within(At(q, m), x))
            <=> \/ Within(At(q, m), <<At(d, w.start), At(Week, 0)>>)
                \/ Within(At(q, m), <<At(0, 0), At(0, w.end)>>)
      BY <3>1
    <3>3. /\ Within(At(q, m), <<At(d, w.start), At(Week, 0)>>)
               <=> At(d, w.start) <= At(q, m) /\ At(q, m) < At(Week, 0)
          /\ Within(At(q, m), <<At(0, 0), At(0, w.end)>>)
               <=> At(0, 0) <= At(q, m) /\ At(q, m) < At(0, w.end)
      BY <1>1, <1>5
    <3>4. /\ At(q, m) < At(Week, 0)
          /\ At(0, 0) <= At(q, m)
      <4>1. At(q, m) < At(Week, 0) <=> (q < Week \/ (q = Week /\ m < 0))
        BY <1>1, <1>2
      <4>2. At(0, 0) <= At(q, m) <=> ~(q < 0 \/ (q = 0 /\ m < 0))
        BY <1>1, <1>3
      <4> QED BY <1>1, <4>1, <4>2
    <3>5. At(q, m) < At(0, w.end) <=> (q < 0 \/ (q = 0 /\ m < w.end))
      BY <1>1, <1>2
    <3>6. d = Week - 1
      BY <1>1, <2>4
    <3> QED BY <1>1, <1>4, <1>7, <2>1, <2>2, <3>2, <3>3, <3>4, <3>5, <3>6
  <2> QED BY <2>3, <2>4
<1> QED BY <1>6, <1>7

\* What is taken is a part of the week.
LEMMA SpanInWeek ==
  ASSUME NEW w, Timed(w), NEW d \in Days, NEW x \in SpansOf(w, d)
  PROVE  x = <<x[1], x[2]>> /\ x[1] \in Int /\ x[2] \in Int /\ 0 <= x[1] /\ x[1] < x[2] /\ x[2] <= Week * Day
<1>1. /\ d \in Int /\ d + 1 \in Int /\ Week \in Int /\ 0 \in Int /\ 0 \in Minutes
      /\ w.start \in Minutes /\ w.end \in Minutes
      /\ w.start \in Int /\ w.end \in Int /\ 0 <= w.end /\ 0 <= w.start /\ w.start # w.end /\ 0 <= d /\ d < Week
  BY Sizes DEF Days, Minutes, Timed
<1>2. \A p, r \in Int, k, l \in Minutes :
        /\ At(p, k) \in Int /\ At(r, l) \in Int
        /\ At(p, k) < At(r, l) <=> (p < r \/ (p = r /\ k < l))
  BY <1>1, Later
<1>3. At(Week, 0) = Week * Day /\ At(0, 0) = 0
  <2>1. Week * Day \in Int /\ 0 * Day = 0
    BY Sizes
  <2> QED BY <2>1 DEF At
<1> DEFINE Part(a, b) == a \in Int /\ b \in Int /\ At(0, 0) <= a /\ a < b /\ b <= At(Week, 0)
<1>4. SUFFICES \E a, b : x = <<a, b>> /\ Part(a, b)
  <2>1. PICK a, b : x = <<a, b>> /\ Part(a, b)
    BY <1>4
  <2> QED BY <1>3, <2>1
<1>5. \A p, r \in Int, k, l \in Minutes :
        (p < r \/ (p = r /\ k < l)) /\ 0 <= p /\ (r < Week \/ (r = Week /\ l = 0)) => Part(At(p, k), At(r, l))
  <2> SUFFICES ASSUME NEW p \in Int, NEW r \in Int, NEW k \in Minutes, NEW l \in Minutes,
                      p < r \/ (p = r /\ k < l), 0 <= p, r < Week \/ (r = Week /\ l = 0)
               PROVE  Part(At(p, k), At(r, l))
    OBVIOUS
  <2>1. At(p, k) \in Int /\ At(r, l) \in Int /\ At(p, k) < At(r, l) /\ At(0, 0) \in Int /\ At(Week, 0) \in Int
    BY <1>1, <1>2
  <2>2. k \in Int /\ l \in Int /\ 0 <= k /\ 0 <= l
    BY Sizes DEF Minutes
  <2>3. At(p, k) < At(0, 0) <=> (p < 0 \/ (p = 0 /\ k < 0))
    BY <1>1, <1>2
  <2>4. At(Week, 0) < At(r, l) <=> (Week < r \/ (Week = r /\ 0 < l))
    BY <1>1, <1>2
  <2>5. ~(At(p, k) < At(0, 0)) /\ ~(At(Week, 0) < At(r, l))
    BY <1>1, <2>2, <2>3, <2>4
  <2> QED BY <2>1, <2>5
<1>6. CASE ~Crosses(w)
  <2>1. x = <<At(d, w.start), At(d, w.end)>>
    BY <1>6, SpansAre
  <2>2. w.start < w.end
    BY <1>1, <1>6 DEF Crosses
  <2>3. Part(At(d, w.start), At(d, w.end))
    BY <1>1, <1>5, <2>2
  <2> QED BY <2>1, <2>3
<1>7. CASE Crosses(w) /\ (d < Week - 1 \/ w.end = 0)
  <2>1. x = <<At(d, w.start), At(d + 1, w.end)>>
    BY <1>7, SpansAre
  <2>2. Part(At(d, w.start), At(d + 1, w.end))
    <3>1. d < d + 1 /\ (d + 1 < Week \/ (d + 1 = Week /\ w.end = 0))
      BY <1>1, <1>7
    <3> QED BY <1>1, <1>5, <3>1
  <2> QED BY <2>1, <2>2
<1>8. CASE Crosses(w) /\ ~(d < Week - 1 \/ w.end = 0)
  <2>1. x = <<At(d, w.start), At(Week, 0)>> \/ x = <<At(0, 0), At(0, w.end)>>
    BY <1>8, SpansAre
  <2>2. Part(At(d, w.start), At(Week, 0))
    BY <1>1, <1>5
  <2>3. Part(At(0, 0), At(0, w.end))
    <3>1. 0 < w.end /\ 0 < Week
      BY <1>1, <1>8
    <3> QED BY <1>1, <1>5, <3>1
  <2> QED BY <2>1, <2>2, <2>3
<1> QED BY <1>6, <1>7, <1>8

\* A time of the week is in the window's spans if the window blocks then.
LEMMA WeekOccurs ==
  ASSUME NEW w, Takes(w), NEW t \in 0..(Week * Day - 1)
  PROVE  Occurs(w, t) <=> \E x \in WeekSpans(w) : Within(t, x)
<1>1. t \in Nat /\ t \in Int /\ 0 <= t /\ t < Week * Day /\ Week * Day \in Int
  BY Sizes
<1>2. CASE w = Always
  <2>1. WeekSpans(w) = {<<0, Week * Day>>} /\ Occurs(w, t)
    BY <1>2 DEF WeekSpans, Always, Occurs
  <2>2. Within(t, <<0, Week * Day>>)
    BY <1>1 DEF Within
  <2> QED BY <2>1, <2>2
<1>3. CASE Timed(w)
  <2> DEFINE q == t \div Day
             m == MinuteAt(t)
  <2>1. q \in Nat /\ m \in Minutes /\ t = At(q, m) /\ WeekdayAt(t) = q % Week
    BY <1>1, AtTime DEF WeekdayAt
  <2>2. q \in Days
    <3>1. At(Week, 0) = Week * Day /\ Week \in Int /\ 0 \in Minutes
      BY <1>1, Sizes DEF At, Minutes
    <3> HIDE DEF q, m
    <3>2. At(q, m) < At(Week, 0) <=> (q < Week \/ (q = Week /\ m < 0))
      BY <2>1, <3>1, Later
    <3> QED BY <1>1, <2>1, <3>1, <3>2, Sizes DEF Days, Minutes
  <2>3. WeekSpans(w) = UNION {SpansOf(w, d) : d \in w.days}
    BY <1>3 DEF WeekSpans, SpansOf, At, Length, Timed
  <2>4. Occurs(w, t) <=> IsActive(w, t)
    BY <1>1, <1>3, ActiveOccurs DEF Takes
  <2> HIDE DEF q, m
  <2>5. (\E x \in WeekSpans(w) : Within(t, x)) <=> \E d \in w.days : \E x \in SpansOf(w, d) : Within(At(q, m), x)
    BY <2>1, <2>3
  <2>6. \A d \in w.days : (\E x \in SpansOf(w, d) : Within(At(q, m), x))
           <=> IF ~Crosses(w) THEN d = q /\ w.start <= m /\ m < w.end
               ELSE (d = q /\ w.start <= m) \/ ((q + Week - 1) % Week = d /\ m < w.end)
    BY <1>3, <2>1, <2>2, SpanOccurs DEF Timed
  <2>7. q % Week = q
    BY <2>2, DayBefore
  <2>8. IsActive(w, t) <=> \/ ~Crosses(w) /\ q \in w.days /\ m >= w.start /\ m < w.end
                           \/ Crosses(w) /\ q \in w.days /\ m >= w.start
                           \/ Crosses(w) /\ (q + Week - 1) % Week \in w.days /\ m < w.end
    BY <1>3, <2>1, <2>7 DEF IsActive, Timed, m
  <2>9. m >= w.start <=> w.start <= m
    BY <1>3, <2>1, Sizes DEF Timed, Minutes
  <2> QED BY <2>4, <2>5, <2>6, <2>8, <2>9
<1> QED BY <1>2, <1>3 DEF Takes

LEMMA SpansInWeek ==
  ASSUME NEW w, Takes(w), NEW x \in WeekSpans(w)
  PROVE  x[1] \in Int /\ x[2] \in Int /\ 0 <= x[1] /\ x[1] < x[2] /\ x[2] <= Week * Day
<1>1. CASE w = Always
  <2>1. x = <<0, Week * Day>>
    BY <1>1 DEF WeekSpans, Always
  <2>2. Week * Day \in Int /\ 0 < Week * Day
    BY Sizes
  <2> QED BY <2>1, <2>2
<1>2. CASE Timed(w)
  <2>1. WeekSpans(w) = UNION {SpansOf(w, d) : d \in w.days}
    BY <1>2 DEF WeekSpans, SpansOf, At, Length, Timed
  <2>2. PICK d \in w.days : x \in SpansOf(w, d)
    BY <2>1
  <2>3. d \in Days
    BY <1>2 DEF Timed
  <2> QED BY <1>2, <2>2, <2>3, SpanInWeek
<1> QED BY <1>1, <1>2 DEF Takes

\* Two windows overlap exactly if both block at some time of the week.
LEMMA OverlapShares ==
  ASSUME NEW w, Takes(w), NEW v, Takes(v)
  PROVE  Overlap(w, v) <=> \E t \in 0..(Week * Day - 1) : Occurs(w, t) /\ Occurs(v, t)
<1>1. Week * Day \in Int
  BY Sizes
<1>2. ASSUME Overlap(w, v) PROVE \E t \in 0..(Week * Day - 1) : Occurs(w, t) /\ Occurs(v, t)
  <2>1. PICK x \in WeekSpans(w), y \in WeekSpans(v) : x[1] < y[2] /\ y[1] < x[2]
    BY <1>2 DEF Overlap
  <2>2. /\ x[1] \in Int /\ x[2] \in Int /\ 0 <= x[1] /\ x[1] < x[2] /\ x[2] <= Week * Day
        /\ y[1] \in Int /\ y[2] \in Int /\ 0 <= y[1] /\ y[1] < y[2] /\ y[2] <= Week * Day
    BY SpansInWeek
  <2> DEFINE t == IF x[1] < y[1] THEN y[1] ELSE x[1]
  <2>3. t \in 0..(Week * Day - 1) /\ Within(t, x) /\ Within(t, y)
    BY <1>1, <2>1, <2>2 DEF Within
  <2> HIDE DEF t
  <2> QED BY <2>3, WeekOccurs
<1>3. ASSUME NEW t \in 0..(Week * Day - 1), Occurs(w, t), Occurs(v, t) PROVE Overlap(w, v)
  <2>1. PICK x \in WeekSpans(w) : Within(t, x)
    BY <1>3, WeekOccurs
  <2>2. PICK y \in WeekSpans(v) : Within(t, y)
    BY <1>3, WeekOccurs
  <2>3. /\ x[1] \in Int /\ x[2] \in Int /\ y[1] \in Int /\ y[2] \in Int
    BY SpansInWeek
  <2>4. x[1] < y[2] /\ y[1] < x[2]
    BY <1>1, <2>1, <2>2, <2>3 DEF Within
  <2> QED BY <2>4 DEF Overlap
<1> QED BY <1>2, <1>3

----------------------------------------------------------------------------
(* What a client draws                                                     *)

WindowsTypeOK ==
  /\ windows \in Seq(Drawn) /\ Len(windows) <= 2
  /\ suspended \in Ends \cup {0} /\ allowed \in Ends \cup {0}
  /\ time \in Nat

\* For any windows the household has, any ends, week and day: the group's
\* windows, its block's end and its exception's have their types.
THEOREM WindowsTypes == WindowsSpec => []WindowsTypeOK
<1>1. WindowsInit => WindowsTypeOK
  <2> SUFFICES ASSUME WindowsInit PROVE windows \in Seq(Drawn) /\ Len(windows) <= 2
    BY DEF WindowsInit, WindowsTypeOK
  <2>1. CASE windows = <<>>
    BY <2>1
  <2>2. ASSUME NEW w \in Drawn, windows = <<w>> PROVE windows \in Seq(Drawn) /\ Len(windows) <= 2
    BY <2>2
  <2>3. ASSUME NEW w \in Drawn, NEW v \in Drawn, windows = <<w, v>> PROVE windows \in Seq(Drawn) /\ Len(windows) <= 2
    BY <2>3
  <2> QED BY <2>1, <2>2, <2>3 DEF WindowsInit
<1>2. WindowsTypeOK /\ [WindowsNext]_windowsVars => WindowsTypeOK'
  BY DEF WindowsTypeOK, WindowsNext, windowsVars, Passes, GroupBlocked, GroupExcepted
<1> QED BY <1>1, <1>2, PTL DEF WindowsSpec

\* The windows are some a household may have, and a block ends, or does not.
LEMMA WindowsTake ==
  ASSUME WindowsTypeOK
  PROVE  /\ DOMAIN windows \subseteq {1, 2} /\ \A i \in DOMAIN windows : Takes(windows[i])
         /\ suspended \in Nat \cup {Open} /\ allowed \in Nat \cup {Open}
         /\ time \in Nat /\ Open \notin Int
<1>1. ASSUME NEW w \in Drawn PROVE Takes(w)
  <2>1. CASE w = Always
    BY <2>1 DEF Takes
  <2>2. ASSUME NEW days \in SUBSET Days, NEW start \in Minutes, NEW end \in Minutes, start # end,
               w = Window(days, start, end)
        PROVE  Takes(w)
    BY <2>2 DEF Window, Takes, Timed
  <2> QED BY <2>1, <2>2, DrawnAssumption
<1>2. \A i \in DOMAIN windows : windows[i] \in Drawn
  BY DEF WindowsTypeOK
<1>3. DOMAIN windows = 1..Len(windows) /\ Len(windows) \in Nat /\ Len(windows) <= 2
  BY DEF WindowsTypeOK
<1>4. DOMAIN windows \subseteq {1, 2}
  BY <1>3
<1> QED BY <1>1, <1>2, <1>4, EndsAssumption DEF WindowsTypeOK

LEMMA DrawsTruly == ASSUME WindowsTypeOK PROVE DrawnTruly
<1> DEFINE q == time \div Day
           k == MinuteAt(time)
<1>1. q \in Nat /\ k \in Minutes /\ time = At(q, k) /\ WeekdayAt(time) = q % Week
  BY WindowsTake, AtTime DEF WeekdayAt
<1>2. \A m \in Minutes : time - k + m = At(q, m)
  <2> SUFFICES ASSUME NEW m \in Minutes PROVE time - k + m = At(q, m)
    OBVIOUS
  <2> DEFINE x == q * Day
  <2>1. x \in Int /\ time = x + k /\ At(q, m) = x + m
    BY <1>1, Sizes DEF At
  <2> HIDE DEF x, q, k
  <2> QED BY <1>1, <2>1, Sizes DEF Minutes
<1>3. ASSUME NEW m \in Minutes
      PROVE  Blocked(time - k + m) <=> \E band \in WindowBands(time) : Within(m, band)
  <2> HIDE DEF q, k
  <2>1. \A i \in DOMAIN windows : Occurs(windows[i], At(q, m)) <=> \E band \in DayBands(windows[i], q % Week) : Within(m, band)
    BY <1>1, WindowsTake, BandsOccur
  <2>2. WindowBands(time) = UNION {DayBands(windows[i], q % Week) : i \in DOMAIN windows}
    BY <1>1 DEF WindowBands
  <2> QED BY <1>2, <2>1, <2>2 DEF Blocked
<1>4. ASSUME NEW bar \in LiftBands(time), NEW m \in Minutes
      PROVE  Within(m, <<bar.from, bar.to>>)
               <=> time - k + m >= time /\ Lasts(IF bar.kind = "pause" THEN suspended ELSE allowed, time - k + m)
  <2> HIDE DEF q
  <2>1. CASE Lasts(suspended, time)
    <3>1. bar = [kind |-> "pause", from |-> k, to |-> EndToday(suspended, time)]
      BY <1>4, <2>1 DEF LiftBands
    <3>2. bar.from = k /\ bar.to = EndToday(suspended, time) /\ bar.kind = "pause"
      BY <3>1
    <3>3. Within(m, <<k, EndToday(suspended, time)>>) <=> time - k + m >= time /\ Lasts(suspended, time - k + m)
      BY <2>1, BarLasts, WindowsTake
    <3> HIDE DEF k
    <3> QED BY <3>2, <3>3
  <2>2. CASE ~Lasts(suspended, time) /\ Lasts(allowed, time)
    <3>1. bar = [kind |-> "allowance", from |-> k, to |-> EndToday(allowed, time)]
      BY <1>4, <2>2 DEF LiftBands
    <3>2. bar.from = k /\ bar.to = EndToday(allowed, time) /\ bar.kind = "allowance"
      BY <3>1
    <3>3. Within(m, <<k, EndToday(allowed, time)>>) <=> time - k + m >= time /\ Lasts(allowed, time - k + m)
      BY <2>2, BarLasts, WindowsTake
    <3> HIDE DEF k
    <3> QED BY <3>2, <3>3
  <2>3. CASE ~Lasts(suspended, time) /\ ~Lasts(allowed, time)
    BY <1>4, <2>3 DEF LiftBands
  <2> QED BY <2>1, <2>2, <2>3
<1>5. \A i, j \in DOMAIN windows :
        Overlap(windows[i], windows[j]) <=> \E t \in 0..(Week * Day - 1) : Occurs(windows[i], t) /\ Occurs(windows[j], t)
  BY WindowsTake, OverlapShares
<1> HIDE DEF q
<1> QED BY <1>3, <1>4, <1>5 DEF DrawnTruly

\* For any windows of a household, with any days and hours, of any week and
\* day: the bands a client draws of a day are the minutes that are blocked, the
\* bar of a block or an exception lasts as long as it, and it warns of
\* exactly the windows that overlap (rule-windows.ts, internetDayBands and
\* windowOverlaps).
THEOREM ClientsDrawTruly == WindowsSpec => []DrawnTruly
<1> QED BY WindowsTypes, DrawsTruly, PTL

----------------------------------------------------------------------------
(* What a client tells                                                     *)

\* Of any times there is a first.
LEMMA LeastIsFirst ==
  ASSUME NEW S, S \subseteq Nat, S # {}
  PROVE  Least(S) \in S /\ \A u \in S : Least(S) <= u
<1>1. PICK n \in S : \A m \in S : ~(<<m, n>> \in OpToRel(<, Nat))
  BY WFMin, NatLessThanWellFounded
<1>2. \A m \in S : ~(m < n)
  BY <1>1 DEF OpToRel
<1>3. \A m \in S : n <= m
  BY <1>2
<1> QED BY <1>3 DEF Least

\* The next time by the clock is the first after now of all there will be.
LEMMA NextClock ==
  ASSUME NEW t \in Nat, NEW days \in SUBSET Days, NEW minute \in Minutes
  PROVE  LET u == NextClockOnDays(days, minute, t) IN
           /\ days = {} => u = None
           /\ days # {} =>
                /\ \E n \in Nat : u = At(n, minute) /\ n % Week \in days /\ u \in Nat /\ u > t
                /\ \A n \in Nat : n % Week \in days /\ At(n, minute) > t => u <= At(n, minute)
<1> DEFINE q == t \div Day
           k == MinuteAt(t)
           S == {u \in {t - k + n * Day + minute : n \in 0..Week} : u > t /\ WeekdayAt(u) \in days}
           first == NextClockOnDays(days, minute, t)
<1>1. q \in Nat /\ k \in Minutes /\ t = At(q, k) /\ Week \in Nat /\ Day \in Nat
  BY AtTime, Sizes
<1>2. first = Least(S)
  BY DEF NextClockOnDays
<1>3. ASSUME NEW n \in 0..Week PROVE t - k + n * Day + minute = At(q + n, minute)
  <2> DEFINE x == q * Day
             y == n * Day
  <2>1. x \in Int /\ y \in Int /\ (q + n) * Day = x + y
    BY <1>1
  <2>2. t = x + k /\ At(q + n, minute) = x + y + minute
    BY <1>1, <2>1 DEF At
  <2>3. k \in Int /\ minute \in Int
    BY <1>1 DEF Minutes
  <2> HIDE DEF x, q, k
  <2> QED BY <2>1, <2>2, <2>3
<1>4. \A n \in 0..Week : q + n \in Nat
  BY <1>1
<1>5. \A n \in Nat : At(n, minute) \in Nat /\ WeekdayAt(At(n, minute)) = n % Week
  BY TimeAt DEF WeekdayAt
<1>6. \A u : u \in S <=> \E n \in 0..Week : u = At(q + n, minute) /\ u > t /\ (q + n) % Week \in days
  <2> HIDE DEF q, k
  <2> QED BY <1>3, <1>4, <1>5
<1> HIDE DEF S, first, q, k
<1>7. S \subseteq Nat
  BY <1>4, <1>5, <1>6
<1>8. CASE days = {}
  <2>1. S = {}
    BY <1>6, <1>8
  <2> QED BY <1>2, <1>8, <2>1 DEF Least, first
<1>9. CASE days # {}
  <2>1. PICK d \in days : d \in Days
    BY <1>9
  <2>2. PICK j \in 0..(Week - 1) : (q + j) % Week = d
    BY <1>1, <2>1, DayComes
  <2>3. \A n \in Nat : At(n, minute) > t <=> (q < n \/ (q = n /\ k < minute))
    <3> SUFFICES ASSUME NEW n \in Nat PROVE At(n, minute) > t <=> (q < n \/ (q = n /\ k < minute))
      OBVIOUS
    <3>1. At(q, k) < At(n, minute) <=> (q < n \/ (q = n /\ k < minute))
      BY <1>1, Later
    <3> QED BY <1>1, <1>5, <3>1
  <2>4. S # {}
    <3>1. CASE j > 0
      <4>1. At(q + j, minute) > t /\ j \in 0..Week
        BY <1>1, <1>4, <2>3, <3>1
      <4> QED BY <1>6, <2>1, <2>2, <4>1
    <3>2. CASE j = 0
      <4>1. (q + Week) % Week = d
        BY <1>1, <2>2, <3>2, Weekdays
      <4>2. At(q + Week, minute) > t /\ Week \in 0..Week
        BY <1>1, <1>4, <2>3, Sizes
      <4> QED BY <1>6, <2>1, <4>1, <4>2
    <3> QED BY <3>1, <3>2
  <2>5. first \in S /\ \A u \in S : first <= u
    BY <1>2, <1>7, <2>4, LeastIsFirst
  <2>6. PICK i \in 0..Week : first = At(q + i, minute) /\ first > t /\ (q + i) % Week \in days
    BY <1>6, <2>5
  <2>7. first \in Nat /\ q + i \in Nat
    BY <1>4, <1>7, <2>5
  <2>8. ASSUME NEW n \in Nat, n % Week \in days, At(n, minute) > t PROVE first <= At(n, minute)
    <3>1. q <= n
      BY <1>1, <2>3, <2>8
    <3>2. CASE n <= q + Week
      <4>1. n - q \in 0..Week /\ q + (n - q) = n
        BY <1>1, <3>1, <3>2
      <4>2. At(n, minute) \in S
        BY <1>6, <2>8, <4>1
      <4> QED BY <2>5, <4>2
    <3>3. CASE n > q + Week
      <4>1. q + i < n
        BY <1>1, <3>3
      <4>2. At(q + i, minute) < At(n, minute) <=> (q + i < n \/ (q + i = n /\ minute < minute))
        BY <2>7, Later
      <4> QED BY <1>5, <2>6, <2>7, <4>1, <4>2
    <3> QED BY <1>1, <3>2, <3>3
  <2> QED BY <1>9, <2>6, <2>7, <2>8 DEF first
<1> QED BY <1>8, <1>9

\* A window that blocks goes on to the time a client tells.
LEMMA BlocksOn ==
  ASSUME NEW w, Takes(w), NEW t \in Nat, IsActive(w, t), NEW u \in Nat, t <= u, EndsAt(w, t) = Open \/ u < EndsAt(w, t)
  PROVE  Occurs(w, u)
<1>1. CASE w = Always
  BY <1>1 DEF Occurs, Always
<1>2. CASE Timed(w)
  <2>1. PICK n \in Int : n >= -1 /\ StartsOn(w, n) /\ During(w, n, t)
    BY <1>2, ActiveOccurs
  <2> DEFINE last == IF Crosses(w) THEN n + 1 ELSE n
             q    == t \div Day
             m    == MinuteAt(t)
  <2>2. q \in Nat /\ m \in Minutes /\ t = At(q, m)
    BY AtTime
  <2>3. n = q \/ (n = q - 1 /\ Crosses(w))
    <3> HIDE DEF q, m
    <3> QED BY <1>2, <2>1, <2>2, Daily
  <2>4. last \in Nat
    BY <2>2, <2>3
  <2>5. At(last, w.end) = At(n, w.start) + Length(w) /\ At(last, w.end) > t
    BY <1>2, <2>1, Lengths DEF During
  <2>6. last % Week \in EndDays(w) /\ EndDays(w) \in SUBSET Days
    <3>1. \A d \in w.days : d \in Days /\ (d + 1) % Week \in Days
      BY <1>2, Sizes DEF Timed, Days
    <3>2. CASE ~Crosses(w)
      <4>1. n % Week \in w.days
        BY <2>1, <2>4, <3>2, Weekdays DEF StartsOn
      <4> QED BY <3>1, <3>2, <4>1 DEF EndDays
    <3>3. CASE Crosses(w) /\ n >= 0
      <4>1. n % Week \in w.days /\ ((n % Week) + 1) % Week = (n + 1) % Week
        BY <2>1, <3>3, Weekdays DEF StartsOn
      <4> QED BY <3>1, <3>3, <4>1 DEF EndDays
    <3>4. CASE Crosses(w) /\ n = -1
      <4>1. (0 - 1 + Week) % Week \in w.days /\ 0 - 1 + Week = Week - 1
        BY <2>1, <3>4, Sizes DEF StartsOn
      <4>2. (Week - 1) % Week = Week - 1
        <5>1. Week - 1 \in Days
          BY Sizes DEF Days
        <5> QED BY <5>1, DayBefore
      <4>3. (Week - 1 + 1) % Week = 0 /\ 0 % Week = 0
        BY Sizes
      <4>4. Week - 1 \in w.days /\ last % Week = (Week - 1 + 1) % Week
        BY <3>4, <4>1, <4>2, <4>3
      <4> QED BY <3>1, <3>4, <4>4 DEF EndDays
    <3> QED BY <2>1, <3>1, <3>2, <3>3, <3>4
  <2>7. EndsAt(w, t) = NextClockOnDays(EndDays(w), w.end, t)
    BY <1>2 DEF EndsAt, Timed
  <2>8. w.end \in Minutes /\ EndDays(w) # {}
    BY <1>2, <2>6 DEF Timed
  <2> HIDE DEF last, q, m
  <2>9. EndsAt(w, t) \in Nat /\ EndsAt(w, t) <= At(last, w.end)
    BY <2>4, <2>5, <2>6, <2>7, <2>8, NextClock
  <2>10. EndsAt(w, t) # Open
    BY <2>9, EndsAssumption
  <2>11. At(last, w.end) \in Int /\ At(n, w.start) \in Int
    BY <1>2, <2>1, <2>4, AtIsTime DEF Timed
  <2>12. During(w, n, u)
    <3>1. At(n, w.start) <= t
      BY <2>1 DEF During
    <3>2. u < At(last, w.end)
      BY <2>9, <2>10, <2>11
    <3> QED BY <2>5, <2>11, <3>1, <3>2 DEF During
  <2> QED BY <1>2, <2>1, <2>12, ActiveOccurs
<1> QED BY <1>1, <1>2 DEF Takes

\* One that does not block now, and does later, begins between, not before the
\* time a client tells.
LEMMA BlocksNext ==
  ASSUME NEW w, Takes(w), NEW t \in Nat, ~IsActive(w, t), NEW u \in Nat, t <= u, Occurs(w, u)
  PROVE  NextStart(w, t) \in Nat /\ NextStart(w, t) <= u
<1>1. Timed(w)
  BY DEF Takes, Always, IsActive
<1>2. PICK n \in Int : n >= -1 /\ StartsOn(w, n) /\ During(w, n, u)
  BY <1>1, ActiveOccurs
<1>3. At(n, w.start) \in Int /\ w.start \in Minutes /\ Length(w) \in Int
  <2>1. w.start \in Minutes /\ At(n, w.start) \in Int
    BY <1>1, AtIsTime DEF Timed
  <2>2. Length(w) \in 1..(Day - 1)
    BY <1>1, <1>2, Lengths
  <2> QED BY <2>1, <2>2, Sizes
<1>4. At(n, w.start) > t
  <2>1. ~During(w, n, t)
    BY <1>1, <1>2, ActiveOccurs
  <2>2. u < At(n, w.start) + Length(w)
    BY <1>2 DEF During
  <2>3. t < At(n, w.start) + Length(w)
    BY <1>3, <2>2
  <2> QED BY <1>3, <2>1, <2>3 DEF During
<1>5. n \in Nat
  <2>1. 0 \in Minutes /\ At(0, 0) = 0 /\ w.start < Day /\ w.start \in Int
    BY <1>3, Sizes DEF At, Minutes
  <2>2. At(n, w.start) < At(0, 0) <=> (n < 0 \/ (n = 0 /\ w.start < 0))
    BY <1>3, <2>1, Later
  <2> QED BY <1>3, <1>4, <2>1, <2>2
<1>6. n % Week \in w.days
  BY <1>2, <1>5, Weekdays DEF StartsOn
<1>7. NextStart(w, t) = NextClockOnDays(w.days, w.start, t) /\ w.days \in SUBSET Days /\ w.days # {}
  BY <1>1, <1>6 DEF NextStart, Timed
<1>8. NextStart(w, t) \in Nat /\ NextStart(w, t) <= At(n, w.start)
  BY <1>3, <1>4, <1>5, <1>6, <1>7, NextClock
<1> QED BY <1>2, <1>3, <1>8 DEF During

\* And at that time it blocks.
LEMMA BlocksThen ==
  ASSUME NEW w, Takes(w), NEW t \in Nat, NextStart(w, t) # None
  PROVE  NextStart(w, t) \in Nat /\ Occurs(w, NextStart(w, t))
<1>1. Timed(w)
  BY DEF Takes, NextStart, Always
<1>2. NextStart(w, t) = NextClockOnDays(w.days, w.start, t) /\ w.days \in SUBSET Days /\ w.start \in Minutes
  BY <1>1 DEF NextStart, Timed
<1>3. w.days # {}
  BY <1>2, NextClock
<1>4. PICK n \in Nat : NextStart(w, t) = At(n, w.start) /\ n % Week \in w.days /\ NextStart(w, t) \in Nat
  BY <1>2, <1>3, NextClock
<1>5. During(w, n, At(n, w.start))
  BY <1>1, <1>2, <1>4, Lengths, Sizes DEF During
<1>6. StartsOn(w, n)
  BY <1>4, Weekdays DEF StartsOn
<1> QED BY <1>1, <1>4, <1>5, <1>6, ActiveOccurs

\* Of the windows that are active, one lasts longest.
LEMMA LongestIsActive ==
  ASSUME WindowsTypeOK, ActiveAt(time) # {}
  PROVE  Longest(time) \in ActiveAt(time)
<1> DEFINE Ending(i) == EndsAt(windows[i], time)
           Above(i, j) == Ending(i) = Open \/ (Ending(j) # Open /\ Ending(j) <= Ending(i))
<1>1. ActiveAt(time) \subseteq {1, 2}
  BY WindowsTake DEF ActiveAt
<1>2. ASSUME NEW i \in ActiveAt(time) PROVE Ending(i) = Open \/ Ending(i) \in Int
  <2>1. Takes(windows[i])
    BY WindowsTake DEF ActiveAt
  <2>2. CASE windows[i] = Always
    BY <2>2 DEF EndsAt, Always
  <2>3. CASE Timed(windows[i])
    <3>1. EndDays(windows[i]) \in SUBSET Days /\ windows[i].end \in Minutes
      BY <2>3, Sizes DEF Timed, EndDays, Days
    <3>2. Ending(i) = NextClockOnDays(EndDays(windows[i]), windows[i].end, time)
      BY <2>3 DEF EndsAt, Timed
    <3> HIDE DEF Ending
    <3>3. Ending(i) = None \/ Ending(i) \in Nat
      BY <3>1, <3>2, NextClock, WindowsTake
    <3> QED BY <3>3 DEF None
  <2> QED BY <2>1, <2>2, <2>3 DEF Takes
<1>3. \E i \in ActiveAt(time) : \A j \in ActiveAt(time) : Above(i, j)
  <2> HIDE DEF Ending
  <2>1. \A i \in ActiveAt(time) : Above(i, i)
    BY <1>2
  <2>2. CASE 1 \in ActiveAt(time) /\ 2 \in ActiveAt(time)
    <3>1. Above(1, 2) \/ Above(2, 1)
      BY <1>2, <2>2
    <3> HIDE DEF Above
    <3> QED BY <1>1, <2>1, <2>2, <3>1
  <2>3. CASE ~(1 \in ActiveAt(time) /\ 2 \in ActiveAt(time))
    <3>1. PICK i \in ActiveAt(time) : ActiveAt(time) = {i}
      BY <1>1, <2>3
    <3> HIDE DEF Above
    <3> QED BY <2>1, <3>1
  <2> QED BY <2>2, <2>3
<1> QED BY <1>3 DEF Longest

LEMMA TellsTruly == ASSUME WindowsTypeOK PROVE ToldTruly
<1> DEFINE told == InternetState(time)
<1>1. time \in Nat /\ \A t \in AWeekOn : t \in Nat /\ time <= t
  <2>1. time \in Nat /\ (Week + 1) * Day \in Int
    BY WindowsTake, Sizes
  <2> QED BY <2>1 DEF AWeekOn
<1>2. ASSUME told.state = "blocked", NEW t \in AWeekOn, told.until = Open \/ t < told.until PROVE Blocked(t)
  <2>1. ActiveAt(time) # {} /\ told.until = EndsAt(windows[Longest(time)], time)
    BY <1>2 DEF InternetState
  <2> HIDE DEF told
  <2>2. PICK i \in ActiveAt(time) : i = Longest(time)
    BY <2>1, LongestIsActive
  <2>3. i \in DOMAIN windows /\ Takes(windows[i]) /\ IsActive(windows[i], time)
    BY WindowsTake DEF ActiveAt
  <2>4. Occurs(windows[i], t)
    BY <1>1, <1>2, <2>1, <2>2, <2>3, BlocksOn
  <2> QED BY <2>3, <2>4 DEF Blocked
<1>3. ASSUME told.state = "online"
      PROVE  \A t \in AWeekOn : IF told.until = None \/ t < told.until THEN ~Blocked(t)
                               ELSE t = told.until => Blocked(t)
  <2> DEFINE Starts == {NextStart(windows[i], time) : i \in DOMAIN windows} \ {None}
  <2>1. ActiveAt(time) = {} /\ told.until = Least(Starts)
    BY <1>3 DEF InternetState
  <2> HIDE DEF told
  <2>2. \A i \in DOMAIN windows : Takes(windows[i]) /\ ~IsActive(windows[i], time)
    BY <2>1, WindowsTake DEF ActiveAt
  <2>3. \A s \in Starts : s \in Nat /\ Blocked(s)
    <3> SUFFICES ASSUME NEW i \in DOMAIN windows, NextStart(windows[i], time) # None
                 PROVE  NextStart(windows[i], time) \in Nat /\ Blocked(NextStart(windows[i], time))
      OBVIOUS
    <3> QED BY <1>1, <2>2, BlocksThen DEF Blocked
  <2>4. ASSUME NEW t \in AWeekOn, Blocked(t) PROVE \E s \in Starts : s <= t
    <3>1. PICK i \in DOMAIN windows : Occurs(windows[i], t)
      BY <2>4 DEF Blocked
    <3>2. NextStart(windows[i], time) \in Nat /\ NextStart(windows[i], time) <= t
      BY <1>1, <2>2, <3>1, BlocksNext
    <3>3. NextStart(windows[i], time) # None
      BY <3>2 DEF None
    <3> QED BY <3>2, <3>3
  <2> HIDE DEF Starts
  <2>5. CASE Starts = {}
    BY <2>1, <2>4, <2>5 DEF Least
  <2>6. CASE Starts # {}
    <3>1. Least(Starts) \in Starts /\ \A s \in Starts : Least(Starts) <= s
      BY <2>3, <2>6, LeastIsFirst
    <3>2. told.until \in Nat /\ Blocked(told.until) /\ told.until # None
      BY <2>1, <2>3, <3>1 DEF None
    <3>3. ASSUME NEW t \in AWeekOn, Blocked(t) PROVE ~(t < told.until)
      BY <1>1, <2>1, <2>3, <2>4, <3>1, <3>2, <3>3
    <3> QED BY <3>2, <3>3
  <2> QED BY <2>5, <2>6
<1> QED BY <1>2, <1>3 DEF ToldTruly

\* For the same: what a client tells of a group comes true, a block without a
\* gap to its end and a start that is the next (clock.ts, nextClockOnDays;
\* rule-windows.ts, internetState).
THEOREM ClientsTellTruly == WindowsSpec => []ToldTruly
<1> QED BY WindowsTypes, TellsTruly, PTL

===============================================================================
