----------------------------- MODULE PolicySync -----------------------------
(***************************************************************************)
(* What one reconcile pass after another does to the policies FamilyFi     *)
(* owns on a gateway (src/src/server/reconciliation.ts and, beside it,     *)
(* unifi/lost-creates.ts, unifi/policy-ownership.ts and unifi/drift.ts).   *)
(*                                                                         *)
(* A key stands for one policy of the plan: the quarantine's in one zone   *)
(* (an AppPolicy row's), or a rule window's or an always-on rule's (a      *)
(* RulePolicy row's).  A content is what its write says besides, such as   *)
(* its devices and its switch: a paused rule's policy is wanted switched   *)
(* off.  A rule with one window has the policy name of the rule made       *)
(* always-on, so the write of the one may be that of the other plus a      *)
(* schedule: Extends holds such pairs.                                     *)
(*                                                                         *)
(* A policy's id is its place in the order in which the gateway made them, *)
(* which is also the order it lists them in.                               *)
(*                                                                         *)
(* Every call to the gateway and every record written is a step, so people *)
(* and the console act between them, and the process may die there; only   *)
(* the matching of lost creates is one step however many it matches.       *)
(* Passes do not overlap here: ReconcileLock says when that holds.         *)
(***************************************************************************)
EXTENDS Naturals, Sequences, FiniteSets

CONSTANTS
  Keys,           \* what the household may want a policy for
  RuleKeys,       \* those of one rule, planned after the others
  Extends,        \* <<k, j>>: k's write is j's with a schedule
  Contents,       \* what a policy may be wanted to say
  LateLanding,    \* a create may reach the gateway after its answer is lost
  MaxHousehold,   \* bound: changes people make in FamilyFi
  MaxConsole,     \* bound: changes people make on the console
  MaxFaults,      \* bound: gateway calls that fail and processes that die
  NoRow,          \* no record in the database
  NoKey           \* no key

\* A policy of FamilyFi's, and the one an administrator made, whatever its name.
Copies == [key : Keys, content : Contents \cup {"edited", "gone"}]
Admin  == [key |-> NoKey, content |-> "admin"]
Rows   == [policy : Nat, desired : Contents, observed : Contents \cup {"none"},
           failed : BOOLEAN, drift : BOOLEAN]
Ops    == [key : Keys, content : Contents, policy : Nat, old : BOOLEAN, flying : BOOLEAN,
           status : {"pending", "applied", "failed", "removed"}]
Wishes == Contents \cup {"off", "hidden", "deleted"}

ASSUME PolicySyncAssumption ==
  /\ RuleKeys \subseteq Keys /\ NoKey \notin Keys
  /\ Extends \subseteq RuleKeys \X RuleKeys
  /\ Contents \cap {"off", "hidden", "deleted", "edited", "gone", "admin", "none"} = {}
  /\ LateLanding \in BOOLEAN /\ NoRow \notin Rows
  /\ MaxHousehold \in Nat /\ MaxConsole \in Nat /\ MaxFaults \in Nat

VARIABLES
  desired,   \* what the household wants for each key
  gateway,   \* the policies, in the order they were made
  rows,      \* the AppPolicy or RulePolicy row of each key
  ops,       \* the create operations, oldest first
  removing,  \* the route deleting the rule has been to the gateway
  stage,     \* where the pass is
  kind,      \* which half of the plan it is at
  copies,    \* the policies as the pass read them
  on,        \* onGateway: the ids it holds to be there
  adopted,   \* policies lost creates made, as it matched them
  plan,      \* what it read of the household's wishes
  seen,      \* the rows as it read them
  todo,      \* keys still to write or remove
  key, made, \* the key it is at, and the policy it has just made for it
  sweeping,  \* operations whose policy it is to delete
  bad,       \* a step failed: the pass is partial
  quiet,     \* nobody else has changed anything since the pass began
  crashed,   \* a process died at some time
  household, console, faults   \* how much of each bound is used up

passVars == <<stage, kind, copies, on, adopted, plan, seen, todo, key, made, sweeping, bad>>
budgets  == <<household, console, faults>>
vars == <<desired, gateway, rows, ops, removing, passVars, quiet, crashed, budgets>>

----------------------------------------------------------------------------
(* Policies and records                                                    *)

LiveIds == {p \in DOMAIN gateway : gateway[p].content # "gone"}
Ours    == {p \in LiveIds : gateway[p] # Admin}

ByRow(p)   == \E k \in Keys : rows[k] # NoRow /\ rows[k].policy = p
ByOp(p)    == \E i \in DOMAIN ops : ops[i].status = "applied" /\ ops[i].policy = p
Claimed(p) == ByRow(p) \/ ByOp(p)

\* carriesWrite: a policy with a schedule carries the same write without one.
Carries(copy, op) ==
  /\ copy.content = op.content
  /\ copy.key = op.key \/ <<copy.key, op.key>> \in Extends

\* carriesWrite as if FamilyFi knew its own policies by their names.
CarriesName(copy, op) == copy = Admin \/ copy.key = op.key

\* reclaims as if it left the schedule out, the way a match does.
ReclaimsCarried(copy, k, content) == Carries(copy, [key |-> k, content |-> content])

\* reclaims: every field as wanted, the schedule included.
Reclaims(copy, k, content) == copy = [key |-> k, content |-> content]

Init ==
  /\ desired = [k \in Keys |-> "off"]
  /\ gateway = <<Admin>>
  /\ rows = [k \in Keys |-> NoRow]
  /\ ops = <<>>
  /\ removing = FALSE
  /\ stage = "off" /\ kind = "owners"
  /\ copies = <<>> /\ on = {} /\ adopted = {}
  /\ plan = desired /\ seen = rows
  /\ todo = {} /\ key = NoKey /\ made = 0 /\ sweeping = {} /\ bad = FALSE
  /\ quiet = FALSE /\ crashed = FALSE
  /\ household = 0 /\ console = 0 /\ faults = 0

TypeOK ==
  /\ desired \in [Keys -> Wishes]
  /\ gateway \in Seq(Copies \cup {Admin})
  /\ rows \in [Keys -> Rows \cup {NoRow}]
  /\ ops \in Seq(Ops)
  /\ removing \in BOOLEAN
  /\ stage \in {"off", "listed", "plan", "apply", "put", "putrow", "create", "post",
                "applied", "record", "error", "remove", "delete", "deleterow",
                "deleteerror", "sweep", "end"}
  /\ kind \in {"owners", "rules"}
  /\ copies \in Seq(Copies \cup {Admin})
  /\ on \subseteq DOMAIN gateway
  /\ adopted \subseteq DOMAIN gateway
  /\ plan \in [Keys -> Wishes]
  /\ seen \in [Keys -> Rows \cup {NoRow}]
  /\ todo \subseteq Keys
  /\ key \in Keys \cup {NoKey}
  /\ made \in 0..Len(gateway)
  /\ sweeping \subseteq DOMAIN ops
  /\ bad \in BOOLEAN /\ quiet \in BOOLEAN /\ crashed \in BOOLEAN
  /\ household \in 0..MaxHousehold /\ console \in 0..MaxConsole /\ faults \in 0..MaxFaults
----------------------------------------------------------------------------
(* The start of a pass                                                     *)

Others == <<desired, removing, budgets, crashed>>

\* It reads the gateway's policies.
ListPolicies ==
  /\ stage = "off"
  /\ stage' = "listed"
  /\ copies' = gateway
  /\ on' = LiveIds
  /\ quiet' = ~removing
  /\ UNCHANGED <<gateway, rows, ops, kind, adopted, plan, seen, todo, key, made, sweeping, bad, Others>>

Pending == {i \in DOMAIN ops : ops[i].status = "pending"}

\* Each pending create, oldest first, takes the first listed policy that
\* nothing claims and that carries its write.
Matches(match, carries(_, _)) ==
  \A i \in Pending :
    LET open == {p \in on : /\ ~Claimed(p) /\ carries(copies[p], ops[i])
                            /\ \A j \in Pending : j < i => match[j] # p}
    IN  IF open = {} THEN match[i] = 0
        ELSE match[i] \in open /\ \A p \in open : match[i] <= p

\* settleLostCreates: a matched create is applied, an old unmatched one failed.
SettleLostCreatesBy(carries(_, _)) ==
  /\ stage = "listed"
  /\ \E match \in [Pending -> on \cup {0}] :
       /\ Matches(match, carries)
       /\ ops' = [i \in DOMAIN ops |->
            IF i \notin Pending THEN ops[i]
            ELSE IF match[i] # 0 THEN [ops[i] EXCEPT !.status = "applied", !.policy = match[i]]
            ELSE IF ops[i].old THEN [ops[i] EXCEPT !.status = "failed"]
            ELSE ops[i]]
       /\ adopted' = {match[i] : i \in Pending} \ {0}
  /\ stage' = "plan"
  /\ UNCHANGED <<gateway, rows, kind, copies, on, plan, seen, todo, key, made, sweeping, bad, quiet, Others>>

SettleLostCreatesByName == SettleLostCreatesBy(CarriesName)

SettleLostCreates == SettleLostCreatesBy(Carries)

\* The keys of the half of the plan the pass is at.
Half == IF kind = "rules" THEN RuleKeys ELSE Keys \ RuleKeys

\* It reads what the household wants and the rows it has.
Plan ==
  /\ stage = "plan"
  /\ stage' = "apply"
  /\ plan' = desired
  /\ seen' = rows
  /\ todo' = {k \in Half : desired[k] \in Contents}
  /\ UNCHANGED <<gateway, rows, ops, kind, copies, on, adopted, key, made, sweeping, bad, quiet, Others>>

----------------------------------------------------------------------------
(* A wanted policy: applyDesiredPolicy and applyDesiredRulePolicy          *)

OnGateway(k) == seen[k] # NoRow /\ seen[k].policy \in on

\* Its row says it is as wanted, and no write of it failed.
AsWanted(k) == OnGateway(k) /\ seen[k].desired = plan[k] /\ ~seen[k].failed

\* consoleDrift comparing the row's two fingerprints and never the copy.
DriftedByRow(k) ==
  /\ seen[k].observed = plan[k]
  /\ seen[k].desired # plan[k]

\* consoleDrift: a policy made in this very pass has no copy to compare.
Drifted(k) ==
  /\ seen[k].observed = plan[k]
  /\ seen[k].policy \in DOMAIN copies
  /\ copies[seen[k].policy].content # plan[k]

\* The pass fails: a row it read is gone, or nothing may hold one any more.
Stop ==
  /\ stage' = "off" /\ kind' = "owners"
  /\ copies' = <<>> /\ on' = {} /\ adopted' = {}
  /\ plan' = [k \in Keys |-> "off"] /\ seen' = [k \in Keys |-> NoRow]
  /\ todo' = {} /\ key' = NoKey /\ made' = 0 /\ sweeping' = {} /\ bad' = FALSE
  /\ quiet' = FALSE

\* Writes a row the pass read, or makes the one it found missing; either
\* fails the pass when the row, or the rule or group it is of, has gone.
WriteRow(k, row, next) ==
  IF IF seen[k] # NoRow THEN rows[k] # NoRow ELSE rows[k] = NoRow /\ desired[k] # "deleted"
    THEN /\ rows' = [rows EXCEPT ![k] = row]
         /\ next
    ELSE /\ UNCHANGED rows
         /\ Stop

Clean(k) == [policy |-> made, desired |-> plan[k], observed |-> plan[k], failed |-> FALSE,
             drift |-> seen[k] # NoRow /\ seen[k].desired = plan[k] /\ rows[k] # NoRow /\ rows[k].drift]

\* Back to the other keys of this half.
Proceed ==
  /\ stage' = "apply" /\ key' = NoKey /\ made' = 0
  /\ todo' = todo \ {key}
  /\ UNCHANGED <<kind, copies, on, adopted, plan, seen, sweeping, quiet>>

Unchanged(k) ==
  /\ stage = "apply" /\ k \in todo
  /\ AsWanted(k) /\ ~Drifted(k)
  /\ todo' = todo \ {k}
  /\ IF seen[k].observed # plan[k]
       THEN WriteRow(k, [rows[k] EXCEPT !.observed = plan[k]],
              UNCHANGED <<stage, kind, copies, on, adopted, plan, seen, key, made, sweeping, bad, quiet>>)
       ELSE UNCHANGED <<rows, stage, kind, copies, on, adopted, plan, seen, key, made, sweeping, bad, quiet>>
  /\ UNCHANGED <<gateway, ops, Others>>

\* The row is noted before a drifted policy is put back.
StartUpdate(k) ==
  /\ stage = "apply" /\ k \in todo
  /\ OnGateway(k) /\ (AsWanted(k) => Drifted(k))
  /\ LET go == /\ stage' = "put" /\ key' = k
               /\ UNCHANGED <<kind, copies, on, adopted, plan, seen, todo, made, sweeping, bad, quiet>>
     IN  IF AsWanted(k) THEN WriteRow(k, [rows[k] EXCEPT !.drift = TRUE], go)
                        ELSE UNCHANGED rows /\ go
  /\ UNCHANGED <<gateway, ops, Others>>

PutBack(g, p, content) == [g EXCEPT ![p] = [@ EXCEPT !.content = content]]

\* The policy is written when it is there and on record, and created again
\* when it is not there.
Put ==
  /\ stage = "put"
  /\ LET p == seen[key].policy IN
       \/ /\ p \in LiveIds /\ Claimed(p)
          /\ gateway' = PutBack(gateway, p, plan[key])
          /\ stage' = "putrow" /\ made' = p
       \/ /\ p \in LiveIds /\ ~Claimed(p)
          /\ stage' = "error"
          /\ UNCHANGED <<gateway, made>>
       \/ /\ p \notin LiveIds
          /\ stage' = "create"
          /\ UNCHANGED <<gateway, made>>
  /\ UNCHANGED <<rows, ops, kind, copies, on, adopted, plan, seen, todo, key, sweeping, bad, quiet, Others>>

Fault == faults < MaxFaults /\ faults' = faults + 1

\* The gateway refuses the write, or its answer is lost.
PutFails ==
  /\ stage = "put" /\ Fault
  /\ LET p == seen[key].policy IN
       \/ p \in LiveIds /\ Claimed(p) /\ gateway' = PutBack(gateway, p, plan[key])
       \/ UNCHANGED gateway
  /\ stage' = "error"
  /\ UNCHANGED <<desired, rows, ops, removing, kind, copies, on, adopted, plan, seen, todo, key, made,
                 sweeping, bad, quiet, crashed, household, console>>

StartCreate(k) ==
  /\ stage = "apply" /\ k \in todo
  /\ ~OnGateway(k)
  /\ stage' = "create" /\ key' = k
  /\ UNCHANGED <<gateway, rows, ops, kind, copies, on, adopted, plan, seen, todo, made, sweeping, bad, quiet, Others>>

\* createOwnedPolicy: a policy a lost create made stands for the new one.
Reclaim ==
  /\ stage = "create"
  /\ \E p \in adopted :
       /\ Reclaims(copies[p], key, plan[key])
       /\ made' = p
       /\ adopted' = adopted \ {p}
  /\ stage' = "record"
  /\ UNCHANGED <<gateway, rows, ops, kind, copies, on, plan, seen, todo, key, sweeping, bad, quiet, Others>>

OpenCreateAs(guard) ==
  /\ stage = "create"
  /\ guard
  /\ ops' = Append(ops, [key |-> key, content |-> plan[key], policy |-> 0, old |-> FALSE,
                         flying |-> FALSE, status |-> "pending"])
  /\ stage' = "post"
  /\ UNCHANGED <<gateway, rows, kind, copies, on, adopted, plan, seen, todo, key, made, sweeping, bad, quiet, Others>>

\* createOwnedPolicy without its look at what lost creates made.
OpenCreateAnyway == OpenCreateAs(TRUE)

\* The operation is recorded before the gateway is asked.
OpenCreate == OpenCreateAs(\A p \in adopted : ~Reclaims(copies[p], key, plan[key]))

\* The operation of the create being sent is the newest.
Newest == Len(ops)

Post ==
  /\ stage = "post"
  /\ gateway' = Append(gateway, [key |-> key, content |-> plan[key]])
  /\ made' = Len(gateway')
  /\ stage' = "applied"
  /\ UNCHANGED <<rows, ops, kind, copies, on, adopted, plan, seen, todo, key, sweeping, bad, quiet, Others>>

\* The gateway refuses the create (a 4xx), or its answer is lost: then the
\* policy was made, was not, or is made later, and the operation is pending.
PostFails ==
  /\ stage = "post" /\ Fault
  /\ \/ /\ ops' = [ops EXCEPT ![Newest].status = "failed"]
        /\ UNCHANGED gateway
     \/ /\ gateway' = Append(gateway, [key |-> key, content |-> plan[key]])
        /\ UNCHANGED ops
     \/ UNCHANGED <<gateway, ops>>
     \/ /\ LateLanding
        /\ ops' = [ops EXCEPT ![Newest].flying = TRUE]
        /\ UNCHANGED gateway
  /\ stage' = "error"
  /\ UNCHANGED <<desired, rows, removing, kind, copies, on, adopted, plan, seen, todo, key, made,
                 sweeping, bad, quiet, crashed, household, console>>

\* The operation closed without its policy's id when the create is answered.
ApplyNothing ==
  /\ stage = "applied"
  /\ on' = on \cup {made}
  /\ ops' = [ops EXCEPT ![Newest].status = "failed"]
  /\ stage' = "record"
  /\ UNCHANGED <<gateway, rows, kind, copies, adopted, plan, seen, todo, key, made, sweeping, bad, quiet, Others>>

ApplyOperation ==
  /\ stage = "applied"
  /\ ops' = [ops EXCEPT ![Newest].status = "applied", ![Newest].policy = made]
  /\ on' = on \cup {made}
  /\ stage' = "record"
  /\ UNCHANGED <<gateway, rows, kind, copies, adopted, plan, seen, todo, key, made, sweeping, bad, quiet, Others>>

\* What was written or made goes to the row.
RecordPolicy ==
  /\ stage \in {"putrow", "record"}
  /\ WriteRow(key, Clean(key), Proceed /\ UNCHANGED bad)
  /\ UNCHANGED <<gateway, ops, Others>>

ErrorRow(k, failed) ==
  IF seen[k] = NoRow
    THEN [policy |-> 0, desired |-> plan[k], observed |-> "none", failed |-> failed, drift |-> FALSE]
    ELSE [rows[k] EXCEPT !.failed = failed, !.desired = plan[k],
                         !.drift = @ /\ seen[k].desired = plan[k]]

\* The catch of the apply loop as if it kept no error on the row.
WriteErrorForgetting ==
  /\ stage = "error"
  /\ WriteRow(key, ErrorRow(key, FALSE), Proceed /\ bad' = TRUE)
  /\ UNCHANGED <<gateway, ops, Others>>

\* The catch of the apply loop: the row says the last write failed.
WriteError ==
  /\ stage = "error"
  /\ WriteRow(key, ErrorRow(key, TRUE), Proceed /\ bad' = TRUE)
  /\ UNCHANGED <<gateway, ops, Others>>

----------------------------------------------------------------------------
(* Rows nothing wants any more                                             *)

\* A hidden policy is kept while its devices are out of view, unless the
\* console removed it.
Unwanted(k) ==
  /\ seen[k] # NoRow /\ plan[k] \notin Contents
  /\ plan[k] = "hidden" => seen[k].policy # 0 /\ seen[k].policy \notin on

EndApply ==
  /\ stage = "apply" /\ todo = {}
  /\ stage' = "remove"
  /\ todo' = {k \in Half : Unwanted(k)}
  /\ UNCHANGED <<gateway, rows, ops, kind, copies, on, adopted, plan, seen, key, made, sweeping, bad, quiet, Others>>

StartRemove(k) ==
  /\ stage = "remove" /\ k \in todo
  /\ key' = k
  /\ stage' = IF seen[k].policy \in on THEN "delete" ELSE "deleterow"
  /\ UNCHANGED <<gateway, rows, ops, kind, copies, on, adopted, plan, seen, todo, made, sweeping, bad, quiet, Others>>

\* deleteFromGateway.
DeleteFrom(g, p) == IF p \in LiveIds THEN [g EXCEPT ![p].content = "gone"] ELSE g

\* deleteFromGateway: a policy already gone counts as deleted.
Delete ==
  /\ stage = "delete"
  /\ LET p == seen[key].policy IN
       IF Claimed(p)
         THEN /\ gateway' = DeleteFrom(gateway, p)
              /\ on' = on \ {p}
              /\ stage' = "deleterow"
         ELSE /\ stage' = "deleteerror"
              /\ UNCHANGED <<gateway, on>>
  /\ UNCHANGED <<rows, ops, kind, copies, adopted, plan, seen, todo, key, made, sweeping, bad, quiet, Others>>

DeleteFails ==
  /\ stage = "delete" /\ Fault
  /\ LET p == seen[key].policy IN
       gateway' \in {gateway, IF Claimed(p) THEN DeleteFrom(gateway, p) ELSE gateway}
  /\ stage' = "deleteerror"
  /\ UNCHANGED <<desired, rows, ops, removing, kind, copies, on, adopted, plan, seen, todo, key, made,
                 sweeping, bad, quiet, crashed, household, console>>

\* Drops the row once the policy is gone, or keeps it with the error.
DropRow ==
  /\ stage \in {"deleterow", "deleteerror"}
  /\ IF rows[key] = NoRow
       THEN UNCHANGED rows /\ Stop
       ELSE /\ rows' = [rows EXCEPT ![key] = IF stage = "deleterow" THEN NoRow
                                             ELSE [@ EXCEPT !.failed = TRUE]]
            /\ bad' = (bad \/ stage = "deleteerror")
            /\ stage' = "remove" /\ key' = NoKey
            /\ todo' = todo \ {key}
            /\ UNCHANGED <<kind, copies, on, adopted, plan, seen, made, sweeping, quiet>>
  /\ UNCHANGED <<gateway, ops, Others>>

\* The owners' half is followed by the rules', and that by the sweep of
\* policies FamilyFi made and no row holds.
EndHalf ==
  /\ stage = "remove" /\ todo = {}
  /\ IF kind = "owners"
       THEN stage' = "plan" /\ kind' = "rules" /\ UNCHANGED sweeping
       ELSE /\ stage' = "sweep"
            /\ sweeping' = {i \in DOMAIN ops : ops[i].status = "applied" /\ ~ByRow(ops[i].policy)}
            /\ UNCHANGED kind
  /\ UNCHANGED <<gateway, rows, ops, copies, on, adopted, plan, seen, todo, key, made, bad, quiet, Others>>

----------------------------------------------------------------------------
(* removeOrphanedPolicies                                                  *)

\* The policy goes from the gateway, and the operation proves nothing more.
Sweep(i) ==
  /\ stage = "sweep" /\ i \in sweeping
  /\ LET p == ops[i].policy IN
       /\ gateway' = IF p \in on THEN DeleteFrom(gateway, p) ELSE gateway
       /\ on' = on \ {p}
  /\ ops' = [ops EXCEPT ![i].status = "removed"]
  /\ sweeping' = sweeping \ {i}
  /\ UNCHANGED <<rows, stage, kind, copies, adopted, plan, seen, todo, key, made, bad, quiet, Others>>

SweepFails(i) ==
  /\ stage = "sweep" /\ i \in sweeping
  /\ ops[i].policy \in on /\ Fault
  /\ gateway' \in {gateway, DeleteFrom(gateway, ops[i].policy)}
  /\ sweeping' = sweeping \ {i}
  /\ bad' = TRUE
  /\ UNCHANGED <<desired, rows, ops, removing, stage, kind, copies, on, adopted, plan, seen, todo, key,
                 made, quiet, crashed, household, console>>

\* A group that no recorded policy covers makes the pass partial too.
EndSweep ==
  /\ stage = "sweep" /\ sweeping = {}
  /\ stage' = "end"
  /\ bad' \in {bad, TRUE}
  /\ UNCHANGED <<gateway, rows, ops, kind, copies, on, adopted, plan, seen, todo, key, made, sweeping, quiet, Others>>

EndPass ==
  /\ stage = "end"
  /\ Stop
  /\ UNCHANGED <<gateway, rows, ops, Others>>

----------------------------------------------------------------------------
(* What happens meanwhile                                                  *)

\* The process dies, or its pass finds the lock gone and stops.
Crash ==
  /\ stage # "off" /\ Fault
  /\ crashed' = TRUE
  /\ Stop
  /\ UNCHANGED <<desired, gateway, rows, ops, removing, household, console>>

\* Ten minutes pass over a pending create, by when it and the older ones have
\* landed.  A pass goes by the clock it read when it began.
Age(i) ==
  /\ stage = "off"
  /\ i \in Pending /\ ~ops[i].old
  /\ \A j \in 1..i : ~ops[j].flying
  /\ ops' = [ops EXCEPT ![i].old = TRUE]
  /\ UNCHANGED <<gateway, rows, passVars, quiet, Others>>

\* A create whose answer was lost reaches the gateway after all.
LandLate(i) ==
  /\ i \in DOMAIN ops /\ ops[i].flying
  /\ ops' = [ops EXCEPT ![i].flying = FALSE]
  /\ gateway' = Append(gateway, [key |-> ops[i].key, content |-> ops[i].content])
  /\ quiet' = FALSE
  /\ UNCHANGED <<rows, passVars, Others>>

\* People change what they want; devices go out of view and come back.  A
\* rule is always on or has windows, never both.
Wish(k) ==
  /\ household < MaxHousehold /\ household' = household + 1
  /\ desired[k] # "deleted" /\ (k \in RuleKeys => ~removing)
  /\ \E w \in Wishes \ {"deleted", desired[k]} :
       desired' = [j \in Keys |->
         IF j = k THEN w
         ELSE IF w \in Contents /\ (<<j, k>> \in Extends \/ <<k, j>> \in Extends) THEN "off"
         ELSE desired[j]]
  /\ quiet' = FALSE
  /\ UNCHANGED <<gateway, rows, ops, removing, passVars, crashed, console, faults>>

\* The route that deletes a rule first deletes its policies, whatever comes
\* of each, and does not hold the lock.
RemovePolicies ==
  /\ household < MaxHousehold /\ household' = household + 1
  /\ ~removing /\ \E k \in RuleKeys : desired[k] # "deleted"
  /\ removing' = TRUE
  /\ \E D \in SUBSET {k \in RuleKeys : rows[k] # NoRow} :
       gateway' = [p \in DOMAIN gateway |->
         IF \E k \in D : rows[k].policy = p THEN [gateway[p] EXCEPT !.content = "gone"]
                                           ELSE gateway[p]]
  /\ quiet' = FALSE
  /\ UNCHANGED <<desired, rows, ops, passVars, crashed, console, faults>>

\* Then it drops the rule and its rows.
RemoveRule ==
  /\ removing
  /\ removing' = FALSE
  /\ rows' = [k \in Keys |-> IF k \in RuleKeys THEN NoRow ELSE rows[k]]
  /\ desired' = [k \in Keys |-> IF k \in RuleKeys THEN "deleted" ELSE desired[k]]
  /\ quiet' = FALSE
  /\ UNCHANGED <<gateway, ops, passVars, crashed, budgets>>

\* Someone changes or deletes a policy of FamilyFi's on the console.
ConsoleChange(p) ==
  /\ console < MaxConsole /\ console' = console + 1
  /\ p \in Ours
  /\ \E c \in {"edited", "gone"} : gateway' = PutBack(gateway, p, c)
  /\ quiet' = FALSE
  /\ UNCHANGED <<desired, rows, ops, removing, passVars, crashed, household, faults>>

----------------------------------------------------------------------------

PassStep ==
  \/ ListPolicies \/ SettleLostCreates \/ Plan
  \/ \E k \in Keys : Unchanged(k) \/ StartUpdate(k) \/ StartCreate(k) \/ StartRemove(k)
  \/ Put \/ Reclaim \/ OpenCreate \/ Post \/ ApplyOperation \/ RecordPolicy \/ WriteError
  \/ EndApply \/ Delete \/ DropRow \/ EndHalf
  \/ \E i \in DOMAIN ops : Sweep(i)
  \/ EndSweep \/ EndPass

PassFault ==
  \/ PutFails \/ PostFails \/ DeleteFails \/ Crash
  \/ \E i \in DOMAIN ops : SweepFails(i)

Meanwhile ==
  \/ \E i \in DOMAIN ops : Age(i) \/ LandLate(i)
  \/ \E k \in Keys : Wish(k)
  \/ RemovePolicies \/ RemoveRule
  \/ \E p \in DOMAIN gateway : ConsoleChange(p)

Next == PassStep \/ PassFault \/ Meanwhile

\* Passes go on one after another (the interval asks for them).
Spec == Init /\ [][Next]_vars /\ WF_vars(PassStep)

----------------------------------------------------------------------------
(* Properties                                                              *)

\* No pass ever updates or deletes a policy FamilyFi did not create, whatever
\* it is called: what it claims, it made (policyOnRecord, settleLostCreates).
AdminUntouched ==
  /\ gateway[1] = Admin
  /\ ~Claimed(1)

\* A policy FamilyFi made and nobody changed is never lost sight of, however
\* its create ended: a row or an applied operation holds its id, or a pending
\* operation still carries its write for a later pass to match it by
\* (createOwnedPolicy, settleLostCreates, "a lost answer never leaves a
\* duplicate enforcing", docs/architecture.md).
Findable ==
  \A p \in Ours : gateway[p].content # "edited" =>
    Claimed(p) \/ \E i \in Pending : Carries(gateway[p], ops[i])

\* A policy of FamilyFi's it still has a way to, or that still enforces a wish.
Managed(k) == {p \in Ours : gateway[p].key = k /\ (gateway[p].content # "edited" \/ Claimed(p))}

Converged ==
  \A k \in Keys :
    /\ desired[k] \in Contents =>
         \E p \in Managed(k) : gateway[p].content = desired[k] /\ Managed(k) = {p}
    /\ desired[k] \in {"off", "deleted"} => Managed(k) = {}

\* A pass reported "applied", that nobody interfered with, leaves the gateway
\* enforcing exactly what the household wants: one policy for each wanted
\* key, saying what is wanted, and none else (the whole of tick).
AppliedMeansEnforced ==
  stage = "end" /\ ~bad /\ quiet => Converged

DriftNoted(k) == rows[k] # NoRow /\ rows[k].drift

NotedWithoutConsole ==
  \E k \in Keys : /\ ~DriftNoted(k) /\ DriftNoted(k)'
                 /\ copies[seen[k].policy].content # "edited"

\* A policy is noted as changed on the console only when someone changed it
\* there ("A policy FamilyFi has not yet confirmed, or whose last write
\* failed, differs because of FamilyFi, not the console", consoleDrift).
DriftMeansConsole == [][~NotedWithoutConsole]_vars

\* The same, as long as no process died.
DriftMeansConsoleAlive == [][crashed' \/ ~NotedWithoutConsole]_vars

Enforces(p, k) == p \in Ours /\ gateway[p] = [key |-> k, content |-> desired[k]]

\* The sweep takes away a policy that enforces a wish no row enforces.
SweepsTheOnly(p) ==
  \E k \in Keys :
    /\ stage = "sweep" /\ quiet /\ quiet'
    /\ Enforces(p, k) /\ ~Enforces(p, k)'
    /\ rows[k] = NoRow \/ rows[k].policy \notin LiveIds
    /\ \A q \in DOMAIN gateway : ~Enforces(q, k)'

\* The sweep never takes away, of what this very pass matched to lost creates,
\* the one policy that enforces what the household wants: the pass takes it up
\* for its key rather than make a second, which "would leave the sweep deleting
\* the one that works if this create failed" (createOwnedPolicy).  What an
\* earlier pass matched and left behind it does delete.
EnforcerKept == [][\A p \in adopted : ~SweepsTheOnly(p)]_vars

=============================================================================
