-------------------------- MODULE PolicySyncProofs --------------------------
(***************************************************************************)
(* For every set of keys and contents, however many policies, operations,  *)
(* faults and changes: the type invariant of PolicySync, and that no pass  *)
(* comes to claim or change the policy an administrator made.              *)
(*                                                                         *)
(* The two go together.  A record may name any id as far as its type goes, *)
(* so what a write does to the gateway is well-typed only because no       *)
(* record a pass acts on names the administrator's policy.                 *)
(*                                                                         *)
(* Then, that no two records are of one policy (Apart); from it, that a    *)
(* change put down to the console was made there, while no process died    *)
(* (Confirmed), and that no sweep deletes what alone enforces a wish and   *)
(* its own pass matched (QuietInv).                                        *)
(*                                                                         *)
(* Next, that a policy FamilyFi made and nobody changed is held by a       *)
(* record or looked for by a pending create (Findable), by one of two      *)
(* arguments.  When no create lands late, ids are given in the order the   *)
(* operations were recorded, so what the settling matches to an operation  *)
(* is never another's (OrderInv).  When no rule's write is another's with  *)
(* a schedule, there are never more policies without an owner that carry a *)
(* write than pending creates of that write: they are counted (CountInv).  *)
(*                                                                         *)
(* By either, that a pass reported as applied leaves the gateway enforcing *)
(* what the household wants: what it settles leaves no policy unheld, a    *)
(* row still to be written is of a policy as listed (SaysInv), and a key   *)
(* it is done with has its one policy, or none (DoneInv).                  *)
(***************************************************************************)
EXTENDS PolicySync, TLAPS, FiniteSetTheorems

\* The administrator's policy came first; FamilyFi made the others.
GoodGateway(g) ==
  /\ g \in Seq(Copies \cup {Admin})
  /\ Len(g) >= 1 /\ g[1] = Admin
  /\ \A p \in 2..Len(g) : g[p] \in Copies

GoodRows(r) ==
  /\ r \in [Keys -> Rows \cup {NoRow}]
  /\ \A k \in Keys : r[k] # NoRow => r[k].policy # 1

GoodOps(o) ==
  /\ o \in Seq(Ops)
  /\ \A i \in DOMAIN o : o[i].policy # 1

Writing  == {"put", "putrow", "create", "post", "applied", "record", "error"}
Deleting == {"delete", "deleterow", "deleteerror"}

World ==
  /\ desired \in [Keys -> Wishes]
  /\ GoodGateway(gateway)
  /\ GoodRows(rows)
  /\ GoodOps(ops)
  /\ removing \in BOOLEAN /\ crashed \in BOOLEAN
  /\ household \in 0..MaxHousehold /\ console \in 0..MaxConsole /\ faults \in 0..MaxFaults

PassTypes ==
  /\ stage \in {"off", "listed", "plan", "apply", "remove", "sweep", "end"} \cup Writing \cup Deleting
  /\ kind \in {"owners", "rules"}
  /\ copies \in Seq(Copies \cup {Admin})
  /\ on \subseteq DOMAIN gateway
  /\ adopted \subseteq DOMAIN gateway \ {1}
  /\ plan \in [Keys -> Wishes]
  /\ GoodRows(seen)
  /\ todo \subseteq Keys
  /\ key \in Keys \cup {NoKey}
  /\ made \in (0..Len(gateway)) \ {1}
  /\ sweeping \subseteq DOMAIN ops
  /\ bad \in BOOLEAN /\ quiet \in BOOLEAN

\* What the pass is at is something to do: a wanted key, or a row it read.
PassStages ==
  /\ stage = "listed" => copies[1] = Admin
  /\ stage \in Writing \cup {"apply"} => \A k \in todo : plan[k] \in Contents
  /\ stage \in Writing => key \in Keys /\ plan[key] \in Contents
  /\ stage = "put" => seen[key] # NoRow
  /\ stage = "applied" => made # 0
  /\ stage \in Deleting \cup {"remove"} => \A k \in todo : seen[k] # NoRow
  /\ stage \in Deleting => key \in Keys /\ seen[key] # NoRow

IInv == World /\ PassTypes /\ PassStages

LEMMA InvImplies == IInv => TypeOK /\ AdminUntouched
<1> SUFFICES ASSUME IInv PROVE TypeOK /\ AdminUntouched
  OBVIOUS
<1> USE DEF IInv, World, PassTypes, GoodGateway, GoodRows, GoodOps
<1>1. TypeOK
  BY DEF TypeOK, Writing, Deleting
<1>2. ~ByRow(1) /\ ~ByOp(1)
  BY DEF ByRow, ByOp
<1>3. QED
  BY <1>1, <1>2 DEF AdminUntouched, Claimed

LEMMA InitInv == Init => IInv
<1> SUFFICES ASSUME Init PROVE IInv
  OBVIOUS
<1> USE PolicySyncAssumption DEF Init
<1>1. GoodGateway(gateway)
  BY DEF GoodGateway
<1>2. GoodRows(rows) /\ GoodRows(seen)
  BY DEF GoodRows
<1>3. GoodOps(ops)
  BY DEF GoodOps
<1>4. World
  <2>1. desired \in [Keys -> Wishes]
    BY DEF Wishes
  <2>2. removing \in BOOLEAN /\ crashed \in BOOLEAN
    OBVIOUS
  <2>3. household \in 0..MaxHousehold /\ console \in 0..MaxConsole /\ faults \in 0..MaxFaults
    OBVIOUS
  <2>4. QED
    BY <1>1, <1>2, <1>3, <2>1, <2>2, <2>3 DEF World
<1>5. PassTypes
  <2>1. bad \in BOOLEAN /\ quiet \in BOOLEAN
    OBVIOUS
  <2>2. plan \in [Keys -> Wishes]
    BY DEF Wishes
  <2>3. Len(gateway) = 1 /\ DOMAIN gateway = 1..1 /\ DOMAIN ops = 1..0
    OBVIOUS
  <2>4. stage \in {"off"} /\ kind \in {"owners", "rules"} /\ copies \in Seq(Copies \cup {Admin})
    OBVIOUS
  <2>5. on \subseteq DOMAIN gateway /\ adopted \subseteq DOMAIN gateway \ {1}
    OBVIOUS
  <2>6. todo \subseteq Keys /\ key \in Keys \cup {NoKey} /\ sweeping \subseteq DOMAIN ops
    OBVIOUS
  <2>7. made \in (0..Len(gateway)) \ {1}
    BY <2>3
  <2>8. QED
    BY <1>2, <2>1, <2>2, <2>4, <2>5, <2>6, <2>7 DEF PassTypes
<1>6. PassStages
  BY DEF PassStages, Writing, Deleting
<1>7. QED
  BY <1>4, <1>5, <1>6 DEF IInv

----------------------------------------------------------------------------
(* What the operators of a step keep                                       *)

\* Writing one of FamilyFi's policies keeps the gateway's order and owners.
LEMMA PutBackGood ==
  ASSUME NEW g, GoodGateway(g), NEW p \in 2..Len(g),
         NEW c \in Contents \cup {"edited", "gone"}
  PROVE  GoodGateway(PutBack(g, p, c)) /\ Len(PutBack(g, p, c)) = Len(g)
<1> DEFINE h == PutBack(g, p, c)
<1>1. g[p] \in Copies
  BY DEF GoodGateway
<1>2. [g[p] EXCEPT !.content = c] \in Copies
  BY <1>1 DEF Copies
<1>3. h \in Seq(Copies \cup {Admin}) /\ Len(h) = Len(g)
  BY <1>2 DEF GoodGateway, PutBack
<1>4. \A q \in 1..Len(g) : h[q] = IF q = p THEN [g[p] EXCEPT !.content = c] ELSE g[q]
  BY DEF GoodGateway, PutBack
<1>5. QED
  BY <1>2, <1>3, <1>4 DEF GoodGateway

LEMMA AppendGood ==
  ASSUME NEW g, GoodGateway(g), NEW x \in Copies
  PROVE  GoodGateway(Append(g, x)) /\ Len(Append(g, x)) = Len(g) + 1
  BY DEF GoodGateway

\* Deleting keeps them too, whether or not the policy is still there.
LEMMA DeleteGood ==
  ASSUME GoodGateway(gateway), NEW p, p # 1
  PROVE  GoodGateway(DeleteFrom(gateway, p)) /\ Len(DeleteFrom(gateway, p)) = Len(gateway)
<1>1. CASE p \notin LiveIds
  BY <1>1 DEF DeleteFrom
<1>2. CASE p \in LiveIds
  <2>1. p \in 2..Len(gateway)
    BY <1>2 DEF LiveIds, GoodGateway
  <2>2. DeleteFrom(gateway, p) = PutBack(gateway, p, "gone")
    BY <1>2 DEF DeleteFrom, PutBack
  <2>3. QED
    BY <2>1, <2>2, PutBackGood
<1>3. QED
  BY <1>1, <1>2

\* Nothing a pass sends is the administrator's policy.
LEMMA CopyOfKey ==
  ASSUME NEW k \in Keys, NEW c \in Contents
  PROVE  [key |-> k, content |-> c] \in Copies
  BY DEF Copies

LEMMA SameWorld ==
  ASSUME World, UNCHANGED <<gateway, rows, ops, Others>>
  PROVE  World'
BY DEF World, Others, budgets

LEMMA SameGateway ==
  ASSUME World, GoodRows(rows'), GoodOps(ops'), UNCHANGED <<gateway, Others>>
  PROVE  World'
BY DEF World, Others, budgets

\* A pass that stops leaves nothing behind.
LEMMA StopGood ==
  ASSUME World', Stop
  PROVE  IInv'
<1>1. stage' = "off" /\ kind' = "owners" /\ copies' = <<>> /\ on' = {} /\ adopted' = {}
  BY DEF Stop
<1>2. plan' \in [Keys -> Wishes] /\ GoodRows(seen')
  BY DEF Stop, Wishes, GoodRows
<1>3. todo' = {} /\ key' = NoKey /\ made' = 0 /\ sweeping' = {} /\ bad' = FALSE /\ quiet' = FALSE
  BY DEF Stop
<1>4. made' \in (0..Len(gateway')) \ {1}
  BY <1>3 DEF World, GoodGateway
<1>5. bad' \in BOOLEAN /\ quiet' \in BOOLEAN
  BY <1>3
<1>6. PassTypes'
  BY <1>1, <1>2, <1>3, <1>4, <1>5 DEF PassTypes
<1>7. PassStages'
  BY <1>1, <1>3 DEF PassStages, Writing, Deleting
<1>8. QED
  BY <1>6, <1>7 DEF IInv

----------------------------------------------------------------------------
(* The start of a pass                                                     *)

LEMMA ListGood == ASSUME IInv, ListPolicies PROVE IInv'
<1> USE DEF IInv
<1>1. World'
  BY SameWorld DEF ListPolicies
<1>2. copies' = gateway /\ on' = LiveIds /\ LiveIds \subseteq DOMAIN gateway
  BY DEF ListPolicies, LiveIds
<1>3. quiet' \in BOOLEAN
  BY DEF ListPolicies
<1>4. PassTypes'
  BY <1>2, <1>3 DEF ListPolicies, PassTypes, World, GoodGateway, GoodRows, Others
<1>5. PassStages'
  BY <1>2 DEF ListPolicies, PassStages, World, GoodGateway, Writing, Deleting
<1>6. QED
  BY <1>1, <1>4, <1>5

\* No lost create carries the administrator's policy.
LEMMA SettleGood == ASSUME IInv, SettleLostCreates PROVE IInv'
<1> USE DEF IInv
<1>1. PICK match \in [Pending -> on \cup {0}] :
        /\ Matches(match, Carries)
        /\ ops' = [i \in DOMAIN ops |->
             IF i \notin Pending THEN ops[i]
             ELSE IF match[i] # 0 THEN [ops[i] EXCEPT !.status = "applied", !.policy = match[i]]
             ELSE IF ops[i].old THEN [ops[i] EXCEPT !.status = "failed"]
             ELSE ops[i]]
        /\ adopted' = {match[i] : i \in Pending} \ {0}
  BY DEF SettleLostCreates, SettleLostCreatesBy
<1>2. stage = "listed" /\ stage' = "plan"
  BY DEF SettleLostCreates, SettleLostCreatesBy
<1>3. UNCHANGED <<gateway, rows, kind, copies, on, plan, seen, todo, key, made, sweeping, bad, quiet, Others>>
  BY DEF SettleLostCreates, SettleLostCreatesBy
<1>4. \A i \in Pending : i \in DOMAIN ops /\ ops[i] \in Ops
  BY DEF Pending, World, GoodOps
<1>5. \A i \in Pending : ~Carries(copies[1], ops[i])
  BY <1>2, <1>4, PolicySyncAssumption DEF PassStages, Carries, Admin, Ops
<1>6. ASSUME NEW i \in Pending PROVE match[i] \in (on \cup {0}) \ {1}
  <2> DEFINE open == {p \in on : /\ ~Claimed(p) /\ Carries(copies[p], ops[i])
                                 /\ \A j \in Pending : j < i => match[j] # p}
  <2>1. IF open = {} THEN match[i] = 0 ELSE match[i] \in open
    BY <1>1 DEF Matches
  <2>2. 1 \notin open
    BY <1>5
  <2>3. open \subseteq on
    OBVIOUS
  <2> HIDE DEF open
  <2>5. CASE match[i] = 0
    BY <2>5
  <2>6. CASE match[i] \in open
    BY <2>2, <2>3, <2>6
  <2>7. QED
    BY <2>1, <2>5, <2>6
<1>7. on \subseteq DOMAIN gateway /\ DOMAIN gateway \subseteq Nat
  BY DEF PassTypes, World, GoodGateway
<1>8. GoodOps(ops')
  <2>1. \A i \in DOMAIN ops : ops[i] \in Ops /\ ops[i].policy # 1
    BY DEF World, GoodOps
  <2>2. DOMAIN ops' = DOMAIN ops /\ DOMAIN ops = 1..Len(ops) /\ Len(ops) \in Nat
    <3>1. DOMAIN ops' = DOMAIN ops
      BY <1>1
    <3>2. ops \in Seq(Ops)
      BY DEF World, GoodOps
    <3>3. QED
      BY <3>1, <3>2
  <2>3. ASSUME NEW i \in DOMAIN ops PROVE ops'[i] \in Ops /\ ops'[i].policy # 1
    <3>1. CASE i \notin Pending
      BY <1>1, <2>1, <3>1
    <3>2. CASE i \in Pending /\ match[i] # 0
      <4>1. match[i] \in Nat /\ match[i] # 1
        BY <1>6, <1>7, <3>2
      <4>2. ops'[i] = [ops[i] EXCEPT !.status = "applied", !.policy = match[i]]
        BY <1>1, <3>2
      <4>3. QED
        BY <2>1, <4>1, <4>2 DEF Ops
    <3>3. CASE i \in Pending /\ match[i] = 0 /\ ops[i].old
      <4>1. ops'[i] = [ops[i] EXCEPT !.status = "failed"]
        BY <1>1, <3>3
      <4>2. QED
        BY <2>1, <4>1 DEF Ops
    <3>4. CASE i \in Pending /\ match[i] = 0 /\ ~ops[i].old
      BY <1>1, <2>1, <3>4
    <3>5. QED
      BY <3>1, <3>2, <3>3, <3>4
  <2>4. ops' \in [1..Len(ops) -> Ops]
    BY <1>1, <2>2, <2>3
  <2>5. QED
    BY <2>2, <2>3, <2>4 DEF GoodOps
<1>9. World'
  BY <1>3, <1>8, SameGateway DEF World
<1>10. adopted' \subseteq DOMAIN gateway \ {1}
  BY <1>1, <1>6, <1>7
<1>11. DOMAIN ops' = DOMAIN ops
  BY <1>1
<1>12. PassTypes'
  BY <1>2, <1>3, <1>10, <1>11 DEF PassTypes
<1>13. PassStages'
  BY <1>2 DEF PassStages, Writing, Deleting
<1>14. QED
  BY <1>9, <1>12, <1>13

LEMMA PlanGood == ASSUME IInv, Plan PROVE IInv'
<1> USE DEF IInv
<1>1. World'
  BY SameWorld DEF Plan
<1>2. plan' = desired /\ seen' = rows /\ todo' = {k \in Half : desired[k] \in Contents}
  BY DEF Plan
<1>3. todo' \subseteq Keys
  BY <1>2, PolicySyncAssumption DEF Half
<1>4. PassTypes'
  BY <1>2, <1>3 DEF Plan, PassTypes, World, Others
<1>5. PassStages'
  BY <1>2 DEF Plan, PassStages, Writing, Deleting
<1>6. QED
  BY <1>1, <1>4, <1>5

----------------------------------------------------------------------------
(* A wanted policy                                                         *)

LEMMA RowGood ==
  ASSUME GoodRows(rows), NEW k \in Keys, NEW row \in Rows, row.policy # 1,
         rows' = [rows EXCEPT ![k] = row]
  PROVE  GoodRows(rows')
BY DEF GoodRows

LEMMA UnchangedGood == ASSUME IInv, NEW k \in Keys, Unchanged(k) PROVE IInv'
<1> USE DEF IInv
<1> DEFINE row == [rows[k] EXCEPT !.observed = plan[k]]
<1>0. stage = "apply" /\ k \in todo /\ seen[k] # NoRow /\ plan[k] \in Contents
  BY DEF Unchanged, AsWanted, OnGateway, PassStages
<1>1. CASE /\ UNCHANGED <<gateway, ops, Others>>
           /\ UNCHANGED rows \/ (rows[k] # NoRow /\ rows' = [rows EXCEPT ![k] = row])
           /\ UNCHANGED <<stage, kind, copies, on, adopted, plan, seen, key, made, sweeping, bad, quiet>>
           /\ todo' = todo \ {k}
  <2>1. GoodRows(rows')
    <3>1. CASE UNCHANGED rows
      BY <3>1 DEF World
    <3>2. CASE rows[k] # NoRow /\ rows' = [rows EXCEPT ![k] = row]
      <4>1. rows[k] \in Rows /\ rows[k].policy # 1
        BY <3>2 DEF World, GoodRows
      <4>2. row \in Rows /\ row.policy = rows[k].policy
        BY <1>0, <4>1 DEF Rows
      <4>3. QED
        BY <3>2, <4>1, <4>2, RowGood DEF World
    <3>3. QED
      BY <1>1, <3>1, <3>2
  <2>2. World'
    BY <1>1, <2>1, SameGateway DEF World
  <2>3. PassTypes'
    BY <1>1 DEF PassTypes
  <2>4. PassStages'
    BY <1>0, <1>1 DEF PassStages, Writing, Deleting
  <2>5. QED
    BY <2>2, <2>3, <2>4
<1>2. CASE Stop /\ UNCHANGED <<gateway, rows, ops, Others>>
  BY <1>2, SameWorld, StopGood
<1>3. QED
  BY <1>0, <1>1, <1>2 DEF Unchanged, WriteRow

LEMMA StartUpdateGood == ASSUME IInv, NEW k \in Keys, StartUpdate(k) PROVE IInv'
<1> USE DEF IInv
<1> DEFINE row == [rows[k] EXCEPT !.drift = TRUE]
<1>0. stage = "apply" /\ k \in todo /\ seen[k] # NoRow /\ plan[k] \in Contents
  BY DEF StartUpdate, OnGateway, PassStages
<1>1. CASE /\ UNCHANGED <<gateway, ops, Others>>
           /\ UNCHANGED rows \/ (rows[k] # NoRow /\ rows' = [rows EXCEPT ![k] = row])
           /\ stage' = "put" /\ key' = k
           /\ UNCHANGED <<kind, copies, on, adopted, plan, seen, todo, made, sweeping, bad, quiet>>
  <2>1. GoodRows(rows')
    <3>1. CASE UNCHANGED rows
      BY <3>1 DEF World
    <3>2. CASE rows[k] # NoRow /\ rows' = [rows EXCEPT ![k] = row]
      <4>1. rows[k] \in Rows /\ rows[k].policy # 1
        BY <3>2 DEF World, GoodRows
      <4>2. row \in Rows /\ row.policy = rows[k].policy
        BY <4>1 DEF Rows
      <4>3. QED
        BY <3>2, <4>1, <4>2, RowGood DEF World
    <3>3. QED
      BY <1>1, <3>1, <3>2
  <2>2. World'
    BY <1>1, <2>1, SameGateway DEF World
  <2>3. PassTypes'
    BY <1>1 DEF PassTypes, Writing
  <2>4. PassStages'
    BY <1>0, <1>1 DEF PassStages, Writing, Deleting
  <2>5. QED
    BY <2>2, <2>3, <2>4
<1>2. CASE Stop /\ UNCHANGED <<gateway, rows, ops, Others>>
  BY <1>2, SameWorld, StopGood
<1>3. QED
  BY <1>0, <1>1, <1>2 DEF StartUpdate, WriteRow

\* A write that lands is of a policy the row the pass read names.
LEMMA PutLands ==
  ASSUME IInv, stage = "put", seen[key].policy \in LiveIds
  PROVE  LET g == PutBack(gateway, seen[key].policy, plan[key]) IN
           GoodGateway(g) /\ DOMAIN g = DOMAIN gateway
<1>1. key \in Keys /\ plan[key] \in Contents /\ seen[key] # NoRow
  BY DEF IInv, PassStages, Writing
<1>2. seen[key].policy \in 2..Len(gateway)
  BY <1>1 DEF IInv, PassTypes, GoodRows, LiveIds, World, GoodGateway
<1>3. GoodGateway(gateway)
  BY DEF IInv, World
<1>4. QED
  BY <1>1, <1>2, <1>3, PutBackGood DEF PutBack

LEMMA PutGood == ASSUME IInv, Put \/ PutFails PROVE IInv'
<1> USE DEF IInv
<1>0. /\ stage = "put" /\ key \in Keys /\ plan[key] \in Contents /\ seen[key] # NoRow
      /\ UNCHANGED <<desired, rows, ops, removing, kind, copies, on, adopted, plan, seen, todo, key,
                     sweeping, bad, quiet, crashed, household, console>>
  BY DEF Put, PutFails, PassStages, Writing, Others, budgets
<1>1. faults' \in 0..MaxFaults
  <2>1. CASE Put
    BY <2>1 DEF Put, Others, budgets, World
  <2>2. CASE PutFails
    BY <2>2, PolicySyncAssumption DEF PutFails, Fault, World
  <2>3. QED
    BY <2>1, <2>2
<1>2. GoodGateway(gateway') /\ DOMAIN gateway' = DOMAIN gateway
  <2>1. CASE UNCHANGED gateway
    BY <2>1 DEF World
  <2>2. CASE seen[key].policy \in LiveIds /\ gateway' = PutBack(gateway, seen[key].policy, plan[key])
    BY <1>0, <2>2, PutLands
  <2>3. QED
    BY <2>1, <2>2 DEF Put, PutFails
<1>3. World'
  BY <1>0, <1>1, <1>2 DEF World
<1>4. Len(gateway') = Len(gateway) /\ DOMAIN gateway = 1..Len(gateway) /\ Len(gateway) \in Nat
  BY <1>2 DEF World, GoodGateway
<1>5. made' \in (0..Len(gateway')) \ {1}
  <2>1. made \in (0..Len(gateway)) \ {1}
    BY DEF PassTypes
  <2>2. seen[key].policy \in LiveIds => seen[key].policy \in (0..Len(gateway)) \ {1}
    BY <1>0, <1>4 DEF PassTypes, GoodRows, LiveIds
  <2>3. made' = made \/ (seen[key].policy \in LiveIds /\ made' = seen[key].policy)
    BY DEF Put, PutFails
  <2>4. QED
    BY <1>4, <2>1, <2>2, <2>3
<1>6. stage' \in {"putrow", "error", "create"}
  BY DEF Put, PutFails
<1>7. PassTypes'
  BY <1>0, <1>2, <1>5, <1>6 DEF PassTypes, Writing
<1>8. PassStages'
  BY <1>0, <1>6 DEF PassStages, Writing, Deleting
<1>9. QED
  BY <1>3, <1>7, <1>8

LEMMA StartCreateGood == ASSUME IInv, NEW k \in Keys, StartCreate(k) PROVE IInv'
<1> USE DEF IInv
<1>1. World'
  BY SameWorld DEF StartCreate
<1>2. PassTypes'
  BY DEF StartCreate, PassTypes, Writing, Others
<1>3. PassStages'
  BY DEF StartCreate, PassStages, Writing, Deleting
<1>4. QED
  BY <1>1, <1>2, <1>3

LEMMA ReclaimGood == ASSUME IInv, Reclaim PROVE IInv'
<1> USE DEF IInv
<1>1. World'
  BY SameWorld DEF Reclaim
<1>2. PICK p \in adopted : made' = p /\ adopted' = adopted \ {p}
  BY DEF Reclaim
<1>3. made' \in (0..Len(gateway)) \ {1}
  BY <1>2 DEF PassTypes, World, GoodGateway
<1>4. PassTypes'
  BY <1>2, <1>3 DEF Reclaim, PassTypes, Writing, Others
<1>5. PassStages'
  BY DEF Reclaim, PassStages, Writing, Deleting
<1>6. QED
  BY <1>1, <1>4, <1>5

LEMMA OpenCreateGood == ASSUME IInv, OpenCreate PROVE IInv'
<1> USE DEF IInv
<1> DEFINE op == [key |-> key, content |-> plan[key], policy |-> 0, old |-> FALSE,
                  flying |-> FALSE, status |-> "pending"]
<1>1. /\ stage = "create" /\ stage' = "post"
      /\ ops' = Append(ops, op)
      /\ UNCHANGED <<gateway, rows, kind, copies, on, adopted, plan, seen, todo, key, made, sweeping, bad, quiet, Others>>
  BY DEF OpenCreate, OpenCreateAs
<1>2. key \in Keys /\ plan[key] \in Contents
  BY <1>1 DEF PassStages, Writing
<1>3. op \in Ops /\ op.policy = 0
  BY <1>2 DEF Ops
<1>4. ops \in Seq(Ops) /\ \A i \in DOMAIN ops : ops[i].policy # 1
  BY DEF World, GoodOps
<1> HIDE DEF op
<1>5. GoodOps(ops') /\ DOMAIN ops \subseteq DOMAIN ops'
  BY <1>1, <1>3, <1>4 DEF GoodOps
<1>6. World'
  BY <1>1, <1>5, SameGateway DEF World
<1>7. PassTypes'
  BY <1>1, <1>5 DEF PassTypes, Writing
<1>8. PassStages'
  BY <1>1 DEF PassStages, Writing, Deleting
<1>9. QED
  BY <1>6, <1>7, <1>8

\* An operation changed in place keeps the operations as they should be.
LEMMA OpGood ==
  ASSUME NEW o, GoodOps(o), NEW i, NEW op,
         i \in DOMAIN o => op \in Ops /\ op.policy # 1
  PROVE  GoodOps([o EXCEPT ![i] = op]) /\ DOMAIN [o EXCEPT ![i] = op] = DOMAIN o
<1>1. o \in [1..Len(o) -> Ops] /\ Len(o) \in Nat
  BY DEF GoodOps
<1>2. [o EXCEPT ![i] = op] \in [1..Len(o) -> Ops]
  BY <1>1
<1>3. \A j \in 1..Len(o) : [o EXCEPT ![i] = op][j] = IF j = i THEN op ELSE o[j]
  BY <1>1
<1>4. QED
  BY <1>1, <1>2, <1>3 DEF GoodOps

LEMMA OpOfSeq ==
  ASSUME NEW o, GoodOps(o), NEW i \in DOMAIN o
  PROVE  o[i] \in Ops /\ o[i].policy # 1
BY DEF GoodOps

LEMMA OpFields ==
  ASSUME NEW o \in Ops, NEW p \in Nat, NEW f \in BOOLEAN,
         NEW s \in {"pending", "applied", "failed", "removed"}
  PROVE  /\ [o EXCEPT !.status = s, !.policy = p] \in Ops
         /\ [o EXCEPT !.status = s, !.policy = p].policy = p
         /\ [o EXCEPT !.flying = f] \in Ops
         /\ [o EXCEPT !.flying = f].policy = o.policy
         /\ [o EXCEPT !.old = f] \in Ops
         /\ [o EXCEPT !.old = f].policy = o.policy
BY DEF Ops

LEMMA OpFlags ==
  ASSUME NEW o \in Ops
  PROVE  /\ [o EXCEPT !.flying = TRUE] \in Ops /\ [o EXCEPT !.flying = TRUE].policy = o.policy
         /\ [o EXCEPT !.flying = FALSE] \in Ops /\ [o EXCEPT !.flying = FALSE].policy = o.policy
         /\ [o EXCEPT !.old = TRUE] \in Ops /\ [o EXCEPT !.old = TRUE].policy = o.policy
<1>1. TRUE \in BOOLEAN /\ FALSE \in BOOLEAN
  OBVIOUS
<1>2. QED
  BY <1>1, OpFields

LEMMA PostGood == ASSUME IInv, Post PROVE IInv'
<1> USE DEF IInv
<1>1. key \in Keys /\ plan[key] \in Contents
  BY DEF Post, PassStages, Writing
<1>2. GoodGateway(gateway') /\ Len(gateway') = Len(gateway) + 1
  BY <1>1, CopyOfKey, AppendGood DEF Post, World
<1>3. DOMAIN gateway = 1..Len(gateway) /\ DOMAIN gateway' = 1..Len(gateway') /\ Len(gateway) \in Nat \ {0}
  BY <1>2 DEF World, GoodGateway
<1>4. World'
  BY <1>2 DEF Post, World, Others, budgets
<1>5. made' \in (0..Len(gateway')) \ {1} /\ DOMAIN gateway \subseteq DOMAIN gateway'
  BY <1>2, <1>3 DEF Post
<1>6. PassTypes'
  BY <1>5 DEF Post, PassTypes, Writing, Others
<1>7. PassStages'
  BY DEF Post, PassStages, Writing, Deleting
<1>8. QED
  BY <1>4, <1>6, <1>7

LEMMA PostFailsGood == ASSUME IInv, PostFails PROVE IInv'
<1> USE DEF IInv
<1>0. /\ stage = "post" /\ stage' = "error"
      /\ UNCHANGED <<desired, rows, removing, kind, copies, on, adopted, plan, seen, todo, key, made,
                     sweeping, bad, quiet, crashed, household, console>>
  BY DEF PostFails
<1>1. key \in Keys /\ plan[key] \in Contents
  BY <1>0 DEF PassStages, Writing
<1>2. faults' \in 0..MaxFaults
  BY PolicySyncAssumption DEF PostFails, Fault, World
<1>3. GoodGateway(gateway') /\ Len(gateway') >= Len(gateway)
  <2>1. CASE UNCHANGED gateway
    BY <2>1 DEF World, GoodGateway
  <2>2. CASE gateway' = Append(gateway, [key |-> key, content |-> plan[key]])
    <3>1. Len(gateway) \in Nat
      BY DEF World, GoodGateway
    <3>2. QED
      BY <1>1, <2>2, <3>1, CopyOfKey, AppendGood DEF World
  <2>3. QED
    BY <2>1, <2>2 DEF PostFails
<1>4. GoodOps(ops') /\ DOMAIN ops' = DOMAIN ops
  <2>1. CASE UNCHANGED ops
    BY <2>1 DEF World
  <2>2. CASE ops' = [ops EXCEPT ![Newest].status = "failed"]
    <3>1. Newest \in DOMAIN ops => /\ [ops[Newest] EXCEPT !.status = "failed"] \in Ops
                                   /\ [ops[Newest] EXCEPT !.status = "failed"].policy # 1
      BY OpOfSeq DEF World, Ops
    <3>2. QED
      BY <2>2, <3>1, OpGood DEF World
  <2>3. CASE ops' = [ops EXCEPT ![Newest].flying = TRUE]
    <3>1. ASSUME Newest \in DOMAIN ops
          PROVE  /\ [ops[Newest] EXCEPT !.flying = TRUE] \in Ops
                 /\ [ops[Newest] EXCEPT !.flying = TRUE].policy # 1
      <4>1. ops[Newest] \in Ops /\ ops[Newest].policy # 1
        BY <3>1, OpOfSeq DEF World
      <4>2. QED
        BY <4>1, OpFlags
    <3>2. QED
      BY <2>3, <3>1, OpGood DEF World
  <2>4. QED
    BY <2>1, <2>2, <2>3 DEF PostFails
<1>5. World'
  BY <1>0, <1>2, <1>3, <1>4 DEF World
<1>6. DOMAIN gateway \subseteq DOMAIN gateway' /\ made' \in (0..Len(gateway')) \ {1}
  BY <1>0, <1>3 DEF World, GoodGateway, PassTypes
<1>7. PassTypes'
  BY <1>0, <1>4, <1>6 DEF PassTypes, Writing
<1>8. PassStages'
  BY <1>0 DEF PassStages, Writing, Deleting
<1>9. QED
  BY <1>5, <1>7, <1>8

LEMMA ApplyOperationGood == ASSUME IInv, ApplyOperation PROVE IInv'
<1> USE DEF IInv
<1> DEFINE op == [ops[Newest] EXCEPT !.status = "applied", !.policy = made]
<1>1. made \in Nat /\ made # 1
  BY DEF PassTypes, World, GoodGateway
<1>2. ops' = [ops EXCEPT ![Newest] = op]
  BY DEF ApplyOperation
<1>3. Newest \in DOMAIN ops => op \in Ops /\ op.policy # 1
  BY <1>1, OpOfSeq, OpFields DEF World
<1>4. GoodOps(ops') /\ DOMAIN ops' = DOMAIN ops
  BY <1>2, <1>3, OpGood DEF World
<1>5. World'
  BY <1>4, SameGateway DEF ApplyOperation, World
<1>6. on' \subseteq DOMAIN gateway
  <2>1. made \in 1..Len(gateway) /\ DOMAIN gateway = 1..Len(gateway)
    BY DEF ApplyOperation, PassTypes, PassStages, World, GoodGateway
  <2>2. QED
    BY <2>1 DEF ApplyOperation, PassTypes
<1>7. PassTypes'
  BY <1>4, <1>6 DEF ApplyOperation, PassTypes, Writing, Others
<1>8. PassStages'
  BY DEF ApplyOperation, PassStages, Writing, Deleting
<1>9. QED
  BY <1>5, <1>7, <1>8

\* The row written, the pass goes back to the other keys of its half.
LEMMA ProceedGood ==
  ASSUME IInv, NEW row \in Rows, row.policy # 1,
         stage \in {"putrow", "record", "error"},
         UNCHANGED <<gateway, ops, Others>>,
         \/ rows' = [rows EXCEPT ![key] = row] /\ Proceed /\ bad' \in BOOLEAN
         \/ UNCHANGED rows /\ Stop
  PROVE  IInv'
<1> USE DEF IInv
<1>1. CASE rows' = [rows EXCEPT ![key] = row] /\ Proceed /\ bad' \in BOOLEAN
  <2>1. key \in Keys
    BY DEF PassStages, Writing
  <2>2. GoodRows(rows')
    BY <1>1, <2>1, RowGood DEF World
  <2>3. World'
    BY <2>2, SameGateway DEF World
  <2>4. made' \in (0..Len(gateway')) \ {1}
    BY <1>1 DEF Proceed, World, GoodGateway
  <2>5. PassTypes'
    BY <1>1, <2>4 DEF Proceed, PassTypes
  <2>6. PassStages'
    BY <1>1 DEF Proceed, PassStages, Writing, Deleting
  <2>7. QED
    BY <2>3, <2>5, <2>6
<1>2. CASE UNCHANGED rows /\ Stop
  BY <1>2, SameWorld, StopGood
<1>3. QED
  BY <1>1, <1>2

LEMMA RecordGood == ASSUME IInv, RecordPolicy PROVE IInv'
<1> USE DEF IInv
<1>1. stage \in {"putrow", "record"} /\ key \in Keys /\ plan[key] \in Contents
  BY DEF RecordPolicy, PassStages, Writing
<1> DEFINE drift == seen[key] # NoRow /\ seen[key].desired = plan[key] /\ rows[key] # NoRow /\ rows[key].drift
<1>2. drift \in BOOLEAN
  OBVIOUS
<1>3. made \in Nat /\ made # 1
  BY DEF PassTypes, World, GoodGateway
<1>4. Clean(key) = [policy |-> made, desired |-> plan[key], observed |-> plan[key], failed |-> FALSE, drift |-> drift]
  BY DEF Clean
<1> HIDE DEF drift
<1>5. Clean(key) \in Rows /\ Clean(key).policy # 1
  BY <1>1, <1>2, <1>3, <1>4 DEF Rows
<1>6. bad \in BOOLEAN
  BY DEF PassTypes
<1>7. QED
  BY <1>1, <1>5, <1>6, ProceedGood DEF RecordPolicy, WriteRow

LEMMA NewErrorRow ==
  ASSUME NEW c \in Contents
  PROVE  [policy |-> 0, desired |-> c, observed |-> "none", failed |-> TRUE, drift |-> FALSE] \in Rows
BY DEF Rows

LEMMA WriteErrorGood == ASSUME IInv, WriteError PROVE IInv'
<1> USE DEF IInv
<1>1. stage = "error" /\ key \in Keys /\ plan[key] \in Contents
  BY DEF WriteError, PassStages, Writing
<1> DEFINE row == ErrorRow(key, TRUE)
           blank == [policy |-> 0, desired |-> plan[key], observed |-> "none", failed |-> TRUE, drift |-> FALSE]
<1>2. CASE seen[key] # NoRow => rows[key] # NoRow
  <2>1. row \in Rows /\ row.policy # 1
    <3>1. CASE seen[key] = NoRow
      <4>1. row = blank
        BY <3>1 DEF ErrorRow
      <4>2. QED
        <5>1. blank \in Rows
          BY <1>1, NewErrorRow
        <5>2. blank.policy = 0
          OBVIOUS
        <5> HIDE DEF row, blank
        <5>3. QED
          BY <4>1, <5>1, <5>2
    <3>2. CASE seen[key] # NoRow
      <4>1. rows[key] \in Rows /\ rows[key].policy # 1
        BY <1>1, <1>2, <3>2 DEF World, GoodRows
      <4> DEFINE drift == rows[key].drift /\ seen[key].desired = plan[key]
      <4>2. row = [rows[key] EXCEPT !.failed = TRUE, !.desired = plan[key], !.drift = drift]
        BY <3>2 DEF ErrorRow
      <4>3. drift \in BOOLEAN
        OBVIOUS
      <4> HIDE DEF drift
      <4>4. row = [policy |-> rows[key].policy, desired |-> plan[key], observed |-> rows[key].observed,
                   failed |-> TRUE, drift |-> drift]
        <5> HIDE DEF row
        <5>1. QED
          BY <4>1, <4>2 DEF Rows
      <4>5. rows[key].policy \in Nat /\ rows[key].observed \in Contents \cup {"none"}
        BY <4>1 DEF Rows
      <4> HIDE DEF row
      <4>6. rows[key].policy # 1
        BY <4>1
      <4>7. QED
        BY <1>1, <4>3, <4>4, <4>5, <4>6 DEF Rows
    <3>3. QED
      BY <3>1, <3>2
  <2>2. \/ rows' = [rows EXCEPT ![key] = row] /\ Proceed /\ bad' = TRUE
        \/ UNCHANGED rows /\ Stop
    BY DEF WriteError, WriteRow
  <2>3. UNCHANGED <<gateway, ops, Others>>
    BY DEF WriteError
  <2> HIDE DEF row
  <2>4. QED
    BY <1>1, <2>1, <2>2, <2>3, ProceedGood
<1>3. CASE seen[key] # NoRow /\ rows[key] = NoRow
  <2>1. UNCHANGED <<gateway, rows, ops, Others>> /\ Stop
    BY <1>3 DEF WriteError, WriteRow
  <2>2. QED
    BY <2>1, SameWorld, StopGood
<1>4. QED
  BY <1>2, <1>3

----------------------------------------------------------------------------
(* Rows nothing wants any more, and policies no row holds                  *)

LEMMA EndApplyGood == ASSUME IInv, EndApply PROVE IInv'
<1> USE DEF IInv
<1>1. World'
  BY SameWorld DEF EndApply
<1>2. todo' \subseteq Keys /\ \A k \in todo' : seen[k] # NoRow
  BY PolicySyncAssumption DEF EndApply, Half, Unwanted
<1>3. PassTypes'
  BY <1>2 DEF EndApply, PassTypes, Others
<1>4. PassStages'
  BY <1>2 DEF EndApply, PassStages, Writing, Deleting
<1>5. QED
  BY <1>1, <1>3, <1>4

LEMMA StartRemoveGood == ASSUME IInv, NEW k \in Keys, StartRemove(k) PROVE IInv'
<1> USE DEF IInv
<1>1. World'
  BY SameWorld DEF StartRemove
<1>2. PassTypes'
  BY DEF StartRemove, PassTypes, Deleting, Others
<1>3. PassStages'
  BY DEF StartRemove, PassStages, Writing, Deleting
<1>4. QED
  BY <1>1, <1>2, <1>3

LEMMA DeleteStepGood == ASSUME IInv, Delete \/ DeleteFails PROVE IInv'
<1> USE DEF IInv
<1>0. /\ stage = "delete" /\ key \in Keys /\ seen[key] # NoRow
      /\ UNCHANGED <<desired, rows, ops, removing, kind, copies, adopted, plan, seen, todo, key, made,
                     sweeping, crashed, household, console, bad, quiet>>
  BY DEF Delete, DeleteFails, PassStages, Deleting, Others, budgets
<1>1. faults' \in 0..MaxFaults
  <2>1. CASE Delete
    BY <2>1 DEF Delete, Others, budgets, World
  <2>2. CASE DeleteFails
    BY <2>2, PolicySyncAssumption DEF DeleteFails, Fault, World
  <2>3. QED
    BY <2>1, <2>2
<1>2. GoodGateway(gateway') /\ DOMAIN gateway' = DOMAIN gateway /\ Len(gateway') = Len(gateway)
  <2>1. seen[key].policy # 1
    BY <1>0 DEF PassTypes, GoodRows
  <2>2. gateway' = gateway \/ gateway' = DeleteFrom(gateway, seen[key].policy)
    BY DEF Delete, DeleteFails
  <2>3. GoodGateway(gateway') /\ Len(gateway') = Len(gateway)
    BY <2>1, <2>2, DeleteGood DEF World
  <2>4. QED
    BY <2>3 DEF World, GoodGateway
<1>3. World'
  BY <1>0, <1>1, <1>2 DEF World
<1>4. stage' \in {"deleterow", "deleteerror"} /\ on' \subseteq on
  BY DEF Delete, DeleteFails
<1>5. PassTypes'
  BY <1>0, <1>2, <1>4 DEF PassTypes, Deleting
<1>6. PassStages'
  BY <1>0, <1>4 DEF PassStages, Writing, Deleting
<1>7. QED
  BY <1>3, <1>5, <1>6

LEMMA DropRowGood == ASSUME IInv, DropRow PROVE IInv'
<1> USE DEF IInv
<1>0. stage \in {"deleterow", "deleteerror"} /\ key \in Keys /\ UNCHANGED <<gateway, ops, Others>>
  BY DEF DropRow, PassStages, Deleting
<1>1. CASE rows[key] = NoRow
  BY <1>1, SameWorld, StopGood DEF DropRow
<1>2. CASE rows[key] # NoRow
  <2>1. rows' = [rows EXCEPT ![key] = NoRow] \/ rows' = [rows EXCEPT ![key] = [rows[key] EXCEPT !.failed = TRUE]]
    BY <1>2 DEF DropRow
  <2>2. rows[key] \in Rows /\ rows[key].policy # 1
    BY <1>0, <1>2 DEF World, GoodRows
  <2>3. [rows[key] EXCEPT !.failed = TRUE] \in Rows /\ [rows[key] EXCEPT !.failed = TRUE].policy # 1
    BY <2>2 DEF Rows
  <2>4. GoodRows(rows')
    <3>1. CASE rows' = [rows EXCEPT ![key] = NoRow]
      BY <1>0, <3>1 DEF World, GoodRows
    <3>2. CASE rows' = [rows EXCEPT ![key] = [rows[key] EXCEPT !.failed = TRUE]]
      BY <1>0, <2>3, <3>2, RowGood DEF World
    <3>3. QED
      BY <2>1, <3>1, <3>2
  <2>5. World'
    BY <1>0, <2>4, SameGateway DEF World
  <2>6. /\ stage' = "remove" /\ key' = NoKey /\ todo' = todo \ {key}
        /\ UNCHANGED <<kind, copies, on, adopted, plan, seen, made, sweeping, quiet>>
    BY <1>2 DEF DropRow
  <2>7. bad' \in BOOLEAN
    BY <1>2 DEF DropRow
  <2>8. PassTypes'
    BY <1>0, <2>6, <2>7 DEF PassTypes
  <2>9. PassStages'
    BY <1>0, <2>6 DEF PassStages, Writing, Deleting
  <2>10. QED
    BY <2>5, <2>8, <2>9
<1>3. QED
  BY <1>1, <1>2

LEMMA EndHalfGood == ASSUME IInv, EndHalf PROVE IInv'
<1> USE DEF IInv
<1>1. World'
  BY SameWorld DEF EndHalf
<1>2. /\ stage' \in {"plan", "sweep"} /\ kind' \in {"owners", "rules"} /\ sweeping' \subseteq DOMAIN ops
      /\ UNCHANGED <<gateway, ops, copies, on, adopted, plan, seen, todo, key, made, bad, quiet>>
  BY DEF EndHalf, PassTypes
<1>3. PassTypes'
  BY <1>2 DEF PassTypes
<1>4. PassStages'
  BY <1>2 DEF PassStages, Writing, Deleting
<1>5. QED
  BY <1>1, <1>3, <1>4

LEMMA SweepGood == ASSUME IInv, NEW i \in DOMAIN ops, Sweep(i) PROVE IInv'
<1> USE DEF IInv
<1> DEFINE op == [ops[i] EXCEPT !.status = "removed"]
<1>0. /\ stage = "sweep"
      /\ UNCHANGED <<desired, rows, removing, crashed, household, console, faults, stage, kind, copies,
                     adopted, plan, seen, todo, key, made, bad, quiet>>
  BY DEF Sweep, Others, budgets
<1>1. ops[i] \in Ops /\ ops[i].policy # 1
  BY OpOfSeq DEF World
<1>2. op \in Ops /\ op.policy # 1
  BY <1>1 DEF Ops
<1>3. GoodOps(ops') /\ DOMAIN ops' = DOMAIN ops
  <2>1. ops' = [ops EXCEPT ![i] = op]
    BY DEF Sweep
  <2>2. QED
    BY <1>2, <2>1, OpGood DEF World
<1>4. GoodGateway(gateway') /\ DOMAIN gateway' = DOMAIN gateway /\ Len(gateway') = Len(gateway)
  <2>1. gateway' = gateway \/ gateway' = DeleteFrom(gateway, ops[i].policy)
    BY DEF Sweep
  <2>2. GoodGateway(gateway') /\ Len(gateway') = Len(gateway)
    BY <1>1, <2>1, DeleteGood DEF World
  <2>3. QED
    BY <2>2 DEF World, GoodGateway
<1>5. World'
  BY <1>0, <1>3, <1>4 DEF World
<1>6. on' \subseteq on /\ sweeping' \subseteq sweeping
  BY DEF Sweep
<1>7. PassTypes'
  BY <1>0, <1>3, <1>4, <1>6 DEF PassTypes
<1>8. PassStages'
  BY <1>0 DEF PassStages, Writing, Deleting
<1>9. QED
  BY <1>5, <1>7, <1>8

LEMMA SweepFailsGood == ASSUME IInv, NEW i \in DOMAIN ops, SweepFails(i) PROVE IInv'
<1> USE DEF IInv
<1>0. /\ stage = "sweep"
      /\ UNCHANGED <<desired, rows, ops, removing, crashed, household, console, stage, kind, copies, on,
                     adopted, plan, seen, todo, key, made, quiet>>
  BY DEF SweepFails
<1>1. ops[i].policy # 1
  BY OpOfSeq DEF World
<1>2. faults' \in 0..MaxFaults
  BY PolicySyncAssumption DEF SweepFails, Fault, World
<1>3. GoodGateway(gateway') /\ DOMAIN gateway' = DOMAIN gateway /\ Len(gateway') = Len(gateway)
  <2>1. gateway' = gateway \/ gateway' = DeleteFrom(gateway, ops[i].policy)
    BY DEF SweepFails
  <2>2. GoodGateway(gateway') /\ Len(gateway') = Len(gateway)
    BY <1>1, <2>1, DeleteGood DEF World
  <2>3. QED
    BY <2>2 DEF World, GoodGateway
<1>4. World'
  BY <1>0, <1>2, <1>3 DEF World
<1>5. bad' \in BOOLEAN /\ sweeping' \subseteq sweeping
  BY DEF SweepFails
<1>6. PassTypes'
  BY <1>0, <1>3, <1>5 DEF PassTypes
<1>7. PassStages'
  BY <1>0 DEF PassStages, Writing, Deleting
<1>8. QED
  BY <1>4, <1>6, <1>7

LEMMA EndSweepGood == ASSUME IInv, EndSweep PROVE IInv'
<1> USE DEF IInv
<1>1. World'
  BY SameWorld DEF EndSweep
<1>2. bad' \in BOOLEAN
  BY DEF EndSweep, PassTypes
<1>3. PassTypes'
  BY <1>2 DEF EndSweep, PassTypes, Others
<1>4. PassStages'
  BY DEF EndSweep, PassStages, Writing, Deleting
<1>5. QED
  BY <1>1, <1>3, <1>4

LEMMA EndPassGood == ASSUME IInv, EndPass PROVE IInv'
<1>1. World'
  BY SameWorld DEF EndPass, IInv
<1>2. QED
  BY <1>1, StopGood DEF EndPass

----------------------------------------------------------------------------
(* What happens meanwhile                                                  *)

LEMMA CrashGood == ASSUME IInv, Crash PROVE IInv'
<1>1. faults' \in 0..MaxFaults
  BY PolicySyncAssumption DEF Crash, Fault, IInv, World
<1>2. crashed' \in BOOLEAN
  BY DEF Crash
<1>3. World'
  BY <1>1, <1>2 DEF Crash, IInv, World
<1>4. QED
  BY <1>3, StopGood DEF Crash

\* What happens beside a pass leaves the pass's own state as it was, and what
\* that names is still there.
LEMMA MeanwhileGood ==
  ASSUME IInv, World', UNCHANGED passVars, quiet' \in BOOLEAN,
         Len(gateway) <= Len(gateway'), DOMAIN ops \subseteq DOMAIN ops'
  PROVE  IInv'
<1> USE DEF IInv
<1>1. DOMAIN gateway \subseteq DOMAIN gateway' /\ made' \in (0..Len(gateway')) \ {1}
  BY DEF World, GoodGateway, PassTypes, passVars
<1>2. PassTypes'
  BY <1>1 DEF PassTypes, passVars
<1>3. PassStages'
  BY DEF PassStages, passVars
<1>4. QED
  BY <1>2, <1>3

LEMMA AgeGood == ASSUME IInv, NEW i \in DOMAIN ops, Age(i) PROVE IInv'
<1>0. ops[i] \in Ops /\ ops[i].policy # 1
  BY OpOfSeq DEF IInv, World
<1>1. [ops[i] EXCEPT !.old = TRUE] \in Ops /\ [ops[i] EXCEPT !.old = TRUE].policy # 1
  BY <1>0, OpFlags
<1>2. GoodOps(ops') /\ DOMAIN ops' = DOMAIN ops
  BY <1>1, OpGood DEF Age, IInv, World
<1>3. World'
  BY <1>2, SameGateway DEF Age, IInv, World
<1>4. quiet' \in BOOLEAN /\ UNCHANGED <<passVars, gateway>>
  BY DEF Age, IInv, PassTypes
<1>5. QED
  BY <1>2, <1>3, <1>4, MeanwhileGood DEF IInv, World, GoodGateway

LEMMA LandLateGood == ASSUME IInv, NEW i \in DOMAIN ops, LandLate(i) PROVE IInv'
<1> DEFINE copy == [key |-> ops[i].key, content |-> ops[i].content]
<1>1. ops[i] \in Ops /\ ops[i].policy # 1
  BY OpOfSeq DEF IInv, World
<1>2. [ops[i] EXCEPT !.flying = FALSE] \in Ops /\ [ops[i] EXCEPT !.flying = FALSE].policy # 1
  BY <1>1, OpFlags
<1>3. GoodOps(ops') /\ DOMAIN ops' = DOMAIN ops
  BY <1>2, OpGood DEF LandLate, IInv, World
<1>4. copy \in Copies
  <2>1. ops[i].key \in Keys /\ ops[i].content \in Contents
    BY <1>1 DEF Ops
  <2>2. QED
    BY <2>1, CopyOfKey
<1>5. GoodGateway(gateway') /\ Len(gateway') = Len(gateway) + 1
  <2>1. gateway' = Append(gateway, copy)
    BY DEF LandLate
  <2> HIDE DEF copy
  <2>2. QED
    BY <1>4, <2>1, AppendGood DEF IInv, World
<1>6. UNCHANGED <<desired, rows, removing, crashed, household, console, faults, passVars>>
  BY DEF LandLate, Others, budgets
<1>7. World'
  BY <1>3, <1>5, <1>6 DEF IInv, World
<1>8. quiet' \in BOOLEAN
  BY DEF LandLate
<1>9. Len(gateway) <= Len(gateway')
  BY <1>5 DEF IInv, World, GoodGateway
<1>10. QED
  BY <1>3, <1>6, <1>7, <1>8, <1>9, MeanwhileGood

LEMMA WishGood == ASSUME IInv, NEW k \in Keys, Wish(k) PROVE IInv'
<1>1. desired' \in [Keys -> Wishes]
  <2>1. PICK w \in Wishes \ {"deleted", desired[k]} :
          desired' = [j \in Keys |->
            IF j = k THEN w
            ELSE IF w \in Contents /\ (<<j, k>> \in Extends \/ <<k, j>> \in Extends) THEN "off"
            ELSE desired[j]]
    BY DEF Wish
  <2>2. desired \in [Keys -> Wishes] /\ w \in Wishes /\ "off" \in Wishes
    BY DEF IInv, World, Wishes
  <2>3. QED
    BY <2>1, <2>2
<1>2. household' \in 0..MaxHousehold
  BY PolicySyncAssumption DEF Wish, IInv, World
<1>3. quiet' \in BOOLEAN
  BY DEF Wish
<1>4. UNCHANGED <<gateway, rows, ops, removing, passVars, crashed, console, faults>>
  BY DEF Wish
<1>5. World'
  BY <1>1, <1>2, <1>4 DEF IInv, World
<1>6. QED
  BY <1>3, <1>4, <1>5, MeanwhileGood DEF IInv, World, GoodGateway

\* A rule's rows never name the administrator's policy, so the route does not
\* delete it either.
LEMMA RemovePoliciesGood == ASSUME IInv, RemovePolicies PROVE IInv'
<1>1. PICK D \in SUBSET {k \in RuleKeys : rows[k] # NoRow} :
        gateway' = [p \in DOMAIN gateway |->
          IF \E k \in D : rows[k].policy = p THEN [gateway[p] EXCEPT !.content = "gone"]
                                            ELSE gateway[p]]
  BY DEF RemovePolicies
<1>2. /\ gateway \in Seq(Copies \cup {Admin}) /\ gateway[1] = Admin
      /\ Len(gateway) \in Nat \ {0} /\ DOMAIN gateway = 1..Len(gateway)
      /\ \A p \in 2..Len(gateway) : gateway[p] \in Copies
  BY DEF IInv, World, GoodGateway
<1>3. \A k \in D : rows[k].policy # 1
  BY PolicySyncAssumption DEF IInv, World, GoodRows
<1>4. gateway'[1] = Admin
  BY <1>1, <1>2, <1>3
<1>5. ASSUME NEW p \in 2..Len(gateway) PROVE gateway'[p] \in Copies
  <2>1. gateway[p] \in Copies
    BY <1>2
  <2>2. [gateway[p] EXCEPT !.content = "gone"] \in Copies
    BY <2>1 DEF Copies
  <2>3. QED
    BY <1>1, <1>2, <2>1, <2>2
<1>6. gateway' \in Seq(Copies \cup {Admin}) /\ Len(gateway') = Len(gateway)
  <2>1. \A p \in 1..Len(gateway) : gateway'[p] \in Copies \cup {Admin}
    BY <1>2, <1>4, <1>5
  <2>2. DOMAIN gateway' = 1..Len(gateway)
    BY <1>1, <1>2
  <2>3. gateway' = [p \in 1..Len(gateway) |-> gateway'[p]]
    BY <1>1, <1>2
  <2>4. gateway' \in [1..Len(gateway) -> Copies \cup {Admin}]
    BY <2>1, <2>3
  <2>5. QED
    BY <1>2, <2>4
<1>7. GoodGateway(gateway')
  BY <1>2, <1>4, <1>5, <1>6 DEF GoodGateway
<1>8. household' \in 0..MaxHousehold
  BY PolicySyncAssumption DEF RemovePolicies, IInv, World
<1>9. removing' \in BOOLEAN /\ quiet' \in BOOLEAN
  BY DEF RemovePolicies
<1>10. UNCHANGED <<desired, rows, ops, passVars, crashed, console, faults>>
  BY DEF RemovePolicies
<1>11. World'
  BY <1>7, <1>8, <1>9, <1>10 DEF IInv, World
<1>12. QED
  BY <1>2, <1>6, <1>9, <1>10, <1>11, MeanwhileGood

LEMMA RemoveRuleGood == ASSUME IInv, RemoveRule PROVE IInv'
<1>1. GoodRows(rows')
  BY DEF RemoveRule, IInv, World, GoodRows
<1>2. desired' \in [Keys -> Wishes]
  <2>1. desired \in [Keys -> Wishes] /\ "deleted" \in Wishes
    BY DEF IInv, World, Wishes
  <2>2. QED
    BY <2>1 DEF RemoveRule
<1>3. removing' \in BOOLEAN /\ quiet' \in BOOLEAN
  BY DEF RemoveRule
<1>4. UNCHANGED <<gateway, ops, passVars, crashed, household, console, faults>>
  BY DEF RemoveRule, budgets
<1>5. World'
  BY <1>1, <1>2, <1>3, <1>4 DEF IInv, World
<1>6. QED
  BY <1>3, <1>4, <1>5, MeanwhileGood DEF IInv, World, GoodGateway

LEMMA ConsoleChangeGood == ASSUME IInv, NEW p \in DOMAIN gateway, ConsoleChange(p) PROVE IInv'
<1>1. GoodGateway(gateway') /\ Len(gateway') = Len(gateway)
  <2>1. p \in 2..Len(gateway)
    BY DEF ConsoleChange, Ours, LiveIds, IInv, World, GoodGateway
  <2>2. GoodGateway(gateway)
    BY DEF IInv, World
  <2>3. PICK c \in {"edited", "gone"} : gateway' = PutBack(gateway, p, c)
    BY DEF ConsoleChange
  <2>4. QED
    BY <2>1, <2>2, <2>3, PutBackGood
<1>2. console' \in 0..MaxConsole
  BY PolicySyncAssumption DEF ConsoleChange, IInv, World
<1>3. quiet' \in BOOLEAN
  BY DEF ConsoleChange
<1>4. UNCHANGED <<desired, rows, ops, removing, passVars, crashed, household, faults>>
  BY DEF ConsoleChange
<1>5. World'
  BY <1>1, <1>2, <1>4 DEF IInv, World
<1>6. QED
  BY <1>1, <1>3, <1>4, <1>5, MeanwhileGood DEF IInv, World, GoodGateway

----------------------------------------------------------------------------
(* Every step, and what follows                                            *)

LEMMA StepGood == ASSUME IInv, [Next]_vars PROVE IInv'
<1>1. CASE UNCHANGED vars
  <2>1. World'
    BY <1>1, SameWorld DEF IInv, vars, Others
  <2>2. quiet' \in BOOLEAN
    BY <1>1 DEF vars, IInv, PassTypes
  <2>3. UNCHANGED <<gateway, ops, passVars>>
    BY <1>1 DEF vars
  <2>4. QED
    BY <2>1, <2>2, <2>3, MeanwhileGood DEF IInv, World, GoodGateway
<1>2. CASE PassStep
  BY <1>2, ListGood, SettleGood, PlanGood, UnchangedGood, StartUpdateGood, StartCreateGood,
     StartRemoveGood, PutGood, ReclaimGood, OpenCreateGood, PostGood, ApplyOperationGood,
     RecordGood, WriteErrorGood, EndApplyGood, DeleteStepGood, DropRowGood, EndHalfGood,
     SweepGood, EndSweepGood, EndPassGood
  DEF PassStep
<1>3. CASE PassFault
  BY <1>3, PutGood, PostFailsGood, DeleteStepGood, CrashGood, SweepFailsGood DEF PassFault
<1>4. CASE Meanwhile
  BY <1>4, AgeGood, LandLateGood, WishGood, RemovePoliciesGood, RemoveRuleGood, ConsoleChangeGood
  DEF Meanwhile
<1>5. QED
  BY <1>1, <1>2, <1>3, <1>4 DEF Next

LEMMA AlwaysInv == Spec => []IInv
<1>1. IInv /\ [Next]_vars => IInv'
  BY StepGood
<1>2. QED
  BY InitInv, <1>1, PTL DEF Spec

\* Every record a pass works on keeps its type, and what it holds to be on the
\* gateway was made there.
THEOREM TypeCorrect == Spec => []TypeOK
<1>1. IInv => TypeOK
  BY InvImplies
<1>2. QED
  BY AlwaysInv, <1>1, PTL

\* FamilyFi never claims, updates or deletes the policy an administrator made,
\* whatever its name, however creates end and whoever dies.
THEOREM AdminNeverTouched == Spec => []AdminUntouched
<1>1. IInv => AdminUntouched
  BY InvImplies
<1>2. QED
  BY AlwaysInv, <1>1, PTL

----------------------------------------------------------------------------
(* Which records name which policies                                       *)

\* A record of the key, its row or the row as the pass read it, names the policy.
Names(k, p) ==
  p # 0 /\ ((rows[k] # NoRow /\ rows[k].policy = p) \/ (seen[k] # NoRow /\ seen[k].policy = p))

\* No two keys' records name one policy, and none names one that is yet to be
\* recorded.
HoldersApart ==
  /\ \A k \in Keys, p \in Nat : Names(k, p) => p \in DOMAIN gateway /\ p \notin adopted
  /\ \A j, k \in Keys, p \in Nat : Names(j, p) /\ Names(k, p) => j = k
  /\ stage \in {"applied", "record"} =>
       made # 0 /\ made \notin adopted /\ \A k \in Keys : ~Names(k, made)
  /\ stage = "putrow" => seen[key] # NoRow /\ made = seen[key].policy /\ made # 0

\* A key the pass has read and not yet written or removed.
Fresh(k) ==
  \/ stage \in Writing \cup {"apply"} /\ k \in Half /\ (k \in todo \/ plan[k] \notin Contents)
  \/ stage \in Deleting \cup {"remove"} /\ k \in todo

\* Its row is as the pass read it, or has gone.
SameRow(k) ==
  IF seen[k] = NoRow
    THEN rows[k] = NoRow
    ELSE rows[k] # NoRow => /\ rows[k].policy = seen[k].policy /\ rows[k].failed = seen[k].failed
                            /\ rows[k].desired = seen[k].desired /\ rows[k].observed = seen[k].observed

PassReads ==
  /\ stage \in {"off", "listed"} => kind = "owners" /\ \A k \in Keys : seen[k] = NoRow
  /\ stage \in {"sweep", "end"} => kind = "rules"
  /\ \A k \in Keys : Fresh(k) => SameRow(k)
  /\ stage \in Writing \cup Deleting => key \in todo
  /\ stage \in Writing \cup Deleting \cup {"apply", "remove"} => todo \subseteq Half
  /\ stage \in Deleting \cup {"remove"} => \A k \in todo : plan[k] \notin Contents

\* What a policy says that was to say c, if only the console changed it since.
Says(content, c) == content \in {c, "edited", "gone"}

\* What the pass listed was so, and is where nobody changed it.
CopiesRead ==
  /\ Len(copies) <= Len(gateway)
  /\ \A p \in on : p \in DOMAIN copies => copies[p].content # "gone"
  /\ stage = "listed" =>
       on \subseteq DOMAIN copies /\ \A p \in DOMAIN copies : Says(gateway[p].content, copies[p].content)
  /\ stage = "applied" => made \notin DOMAIN copies
  /\ adopted \subseteq DOMAIN copies
  /\ \A p \in adopted : Says(gateway[p].content, copies[p].content)

Apart == HoldersApart /\ PassReads /\ CopiesRead

\* No policy became another's, and none says anything new unless changed or
\* deleted on the console's side.
OnlyTaken ==
  /\ Len(gateway') \in Nat /\ Len(gateway) <= Len(gateway')
  /\ \A p \in DOMAIN gateway : /\ p \in DOMAIN gateway'
                               /\ gateway'[p] = gateway[p] \/ gateway'[p].content \in {"edited", "gone"}

LEMMA Types ==
  ASSUME IInv
  PROVE  /\ GoodGateway(gateway) /\ Len(gateway) \in Nat /\ DOMAIN gateway = 1..Len(gateway)
         /\ \A k \in Keys : /\ rows[k] # NoRow => rows[k] \in Rows /\ rows[k].policy \in Nat
                            /\ seen[k] # NoRow => seen[k] \in Rows /\ seen[k].policy \in Nat
                            /\ rows[k] \in Rows \cup {NoRow} /\ seen[k] \in Rows \cup {NoRow}
         /\ copies \in Seq(Copies \cup {Admin}) /\ Len(copies) \in Nat /\ DOMAIN copies = 1..Len(copies)
         /\ adopted \subseteq DOMAIN gateway /\ on \subseteq DOMAIN gateway
         /\ made \in Nat /\ made # 1
         /\ rows \in [Keys -> Rows \cup {NoRow}] /\ seen \in [Keys -> Rows \cup {NoRow}]
<1>1. GoodGateway(gateway) /\ GoodRows(rows) /\ GoodRows(seen) /\ copies \in Seq(Copies \cup {Admin})
  BY DEF IInv, World, PassTypes
<1>2. gateway \in Seq(Copies \cup {Admin})
  BY <1>1 DEF GoodGateway
<1>3. Len(gateway) \in Nat /\ DOMAIN gateway = 1..Len(gateway)
  BY <1>2
<1>4. rows \in [Keys -> Rows \cup {NoRow}] /\ seen \in [Keys -> Rows \cup {NoRow}]
  BY <1>1 DEF GoodRows
<1>5. \A row \in Rows : row.policy \in Nat
  BY DEF Rows
<1>6. /\ adopted \subseteq DOMAIN gateway /\ on \subseteq DOMAIN gateway
      /\ made \in (0..Len(gateway)) \ {1}
  BY DEF IInv, PassTypes
<1>7. \A k \in Keys : /\ rows[k] # NoRow => rows[k] \in Rows /\ rows[k].policy \in Nat
                      /\ seen[k] # NoRow => seen[k] \in Rows /\ seen[k].policy \in Nat
                      /\ rows[k] \in Rows \cup {NoRow} /\ seen[k] \in Rows \cup {NoRow}
  BY <1>4, <1>5
<1>8. QED
  BY <1>1, <1>3, <1>4, <1>6, <1>7

\* What is on the gateway is of a policy made there.
LEMMA LiveFacts ==
  ASSUME IInv, NEW p, p \in LiveIds
  PROVE  p \in DOMAIN gateway /\ p \in Nat /\ p # 0 /\ gateway[p].content # "gone"
  BY Types DEF LiveIds

----------------------------------------------------------------------------
(* What the gateway's answers change                                       *)

LEMMA PutFacts ==
  ASSUME IInv, stage = "put", NEW p, p = seen[key].policy, p \in LiveIds,
         gateway' = PutBack(gateway, p, plan[key])
  PROVE  /\ Len(gateway') = Len(gateway) /\ DOMAIN gateway' = DOMAIN gateway
         /\ gateway'[p].content = plan[key]
         /\ \A q \in DOMAIN gateway : q # p => gateway'[q] = gateway[q]
<1>1. key \in Keys /\ plan[key] \in Contents /\ seen[key] # NoRow
  BY DEF IInv, PassStages, Writing
<1>2. p # 1
  BY <1>1 DEF IInv, PassTypes, GoodRows
<1>3. p \in 2..Len(gateway)
  BY <1>2, LiveFacts, Types
<1>4. GoodGateway(gateway') /\ Len(gateway') = Len(gateway)
  BY <1>1, <1>3, Types, PutBackGood
<1>5. gateway[p] \in Copies
  BY <1>3, Types DEF GoodGateway
<1>6. gateway' = [gateway EXCEPT ![p] = [gateway[p] EXCEPT !.content = plan[key]]]
  BY DEF PutBack
<1>7. [gateway[p] EXCEPT !.content = plan[key]].content = plan[key]
  BY <1>5 DEF Copies
<1>8. DOMAIN gateway' = DOMAIN gateway
  BY <1>6
<1>9. QED
  BY <1>3, <1>4, <1>6, <1>7, <1>8, Types

LEMMA DeleteFacts ==
  ASSUME IInv, NEW p, p # 1, gateway' \in {gateway, DeleteFrom(gateway, p)}
  PROVE  /\ OnlyTaken /\ Len(gateway') = Len(gateway) /\ DOMAIN gateway' = DOMAIN gateway
         /\ \A q \in DOMAIN gateway : q # p => gateway'[q] = gateway[q]
<1>1. CASE gateway' = gateway
  BY <1>1, Types DEF OnlyTaken
<1>2. CASE gateway' = DeleteFrom(gateway, p) /\ p \in LiveIds
  <2>1. p \in 2..Len(gateway)
    BY <1>2, LiveFacts, Types
  <2>2. gateway[p] \in Copies
    BY <2>1, Types DEF GoodGateway
  <2>3. gateway' = [gateway EXCEPT ![p] = [gateway[p] EXCEPT !.content = "gone"]]
    BY <1>2 DEF DeleteFrom
  <2>4. [gateway[p] EXCEPT !.content = "gone"].content = "gone"
    BY <2>2 DEF Copies
  <2>5. Len(gateway') = Len(gateway)
    BY <1>2, Types, DeleteGood
  <2>6. DOMAIN gateway' = DOMAIN gateway /\ gateway'[p].content = "gone"
        /\ \A q \in DOMAIN gateway : q # p => gateway'[q] = gateway[q]
    BY <2>1, <2>3, <2>4, Types
  <2>7. QED
    BY <2>5, <2>6, Types DEF OnlyTaken
<1>3. CASE gateway' = DeleteFrom(gateway, p) /\ p \notin LiveIds
  BY <1>1, <1>3 DEF DeleteFrom
<1>4. QED
  BY <1>1, <1>2, <1>3

LEMMA AppendFacts ==
  ASSUME IInv, NEW copy, gateway' = Append(gateway, copy)
  PROVE  /\ OnlyTaken /\ Len(gateway') = Len(gateway) + 1 /\ gateway'[Len(gateway')] = copy
         /\ Len(gateway') \in DOMAIN gateway' /\ Len(gateway') \notin DOMAIN gateway
         /\ Len(gateway') # 0
         /\ \A q \in DOMAIN gateway : q \in DOMAIN gateway' /\ gateway'[q] = gateway[q]
<1>1. gateway \in Seq(Copies \cup {Admin}) /\ Len(gateway) \in Nat /\ DOMAIN gateway = 1..Len(gateway)
  BY Types DEF GoodGateway
<1>2. /\ DOMAIN gateway' = 1..(Len(gateway) + 1) /\ Len(gateway') = Len(gateway) + 1
      /\ gateway'[Len(gateway) + 1] = copy
      /\ \A q \in DOMAIN gateway : gateway'[q] = gateway[q]
  BY <1>1
<1>3. QED
  BY <1>1, <1>2 DEF OnlyTaken

----------------------------------------------------------------------------
(* The records stay apart: what the steps have in common                   *)

LEMMA NamesKept ==
  ASSUME \A k \in Keys :
           /\ \/ rows'[k] = NoRow \/ rows'[k].policy = 0
              \/ rows[k] # NoRow /\ rows'[k].policy = rows[k].policy
           /\ seen'[k] = NoRow \/ seen'[k] = seen[k] \/ seen'[k] = rows[k]
  PROVE  \A k \in Keys, p \in Nat : Names(k, p)' => Names(k, p)
BY DEF Names

LEMMA HoldersKept ==
  ASSUME IInv, HoldersApart, OnlyTaken \/ DOMAIN gateway' = DOMAIN gateway,
         \A k \in Keys, p \in Nat : Names(k, p)' => Names(k, p),
         adopted' \subseteq adopted,
         stage' \notin {"applied", "record", "putrow"} \/ UNCHANGED <<stage, made, seen, key>>
  PROVE  HoldersApart'
<1>1. \A k \in Keys, p \in Nat : Names(k, p)' => p \in DOMAIN gateway' /\ p \notin adopted'
  BY DEF HoldersApart, OnlyTaken
<1>2. \A j, k \in Keys, p \in Nat : Names(j, p)' /\ Names(k, p)' => j = k
  BY DEF HoldersApart
<1>3. CASE stage' \notin {"applied", "record", "putrow"}
  BY <1>1, <1>2, <1>3 DEF HoldersApart
<1>4. CASE UNCHANGED <<stage, made, seen, key>>
  <2>2. PICK m : m = made
    OBVIOUS
  <2>3. stage \in {"applied", "record"} => \A k \in Keys : ~Names(k, m)'
    BY <2>2, Types DEF HoldersApart
  <2>4. stage' \in {"applied", "record"} => \A k \in Keys : ~Names(k, made)'
    BY <1>4, <2>2, <2>3 DEF Names
  <2>5. QED
    BY <1>1, <1>2, <1>4, <2>4 DEF HoldersApart
<1>5. QED
  BY <1>3, <1>4

LEMMA CopiesKept ==
  ASSUME IInv, CopiesRead, OnlyTaken, copies' = copies, adopted' \subseteq adopted,
         \A p \in on' : p \in on \/ p \notin DOMAIN copies,
         stage' # "applied" \/ UNCHANGED <<stage, made>>,
         stage' # "listed" \/ UNCHANGED <<stage, on>>
  PROVE  CopiesRead'
<1>1. \A p \in DOMAIN gateway : \A c : Says(gateway[p].content, c) => Says(gateway'[p].content, c)
  BY DEF OnlyTaken, Says
<1>2. Len(copies') <= Len(gateway')
  <2>1. Len(copies) \in Nat /\ Len(gateway) \in Nat /\ Len(copies) <= Len(gateway)
    BY Types DEF CopiesRead
  <2>2. Len(gateway') \in Nat /\ Len(gateway) <= Len(gateway')
    BY DEF OnlyTaken
  <2>3. QED
    BY <2>1, <2>2
<1>3. \A p \in adopted' : Says(gateway'[p].content, copies'[p].content)
  BY <1>1, Types DEF CopiesRead
<1>4. stage' = "listed" =>
        on' \subseteq DOMAIN copies' /\ \A p \in DOMAIN copies' : Says(gateway'[p].content, copies'[p].content)
  <2>1. DOMAIN copies \subseteq DOMAIN gateway
    BY Types DEF CopiesRead
  <2>2. QED
    BY <1>1, <2>1 DEF CopiesRead
<1>5. QED
  BY <1>2, <1>3, <1>4 DEF CopiesRead

LEMMA StopApart ==
  ASSUME IInv, Apart, Stop, UNCHANGED <<rows, gateway>>
  PROVE  Apart'
<1>1. /\ stage' = "off" /\ kind' = "owners" /\ copies' = <<>> /\ on' = {} /\ adopted' = {}
      /\ todo' = {} /\ \A k \in Keys : seen'[k] = NoRow
  BY DEF Stop
<1>2. \A k \in Keys, p \in Nat : Names(k, p)' => Names(k, p)
  BY <1>1, NamesKept
<1>3. HoldersApart'
  BY <1>1, <1>2, HoldersKept DEF Apart
<1>4. PassReads'
  BY <1>1 DEF PassReads, Fresh, Writing, Deleting
<1>5. CopiesRead'
  <2>1. Len(copies') = 0 /\ Len(gateway') \in Nat
    BY <1>1, Types
  <2>2. QED
    BY <1>1, <2>1 DEF CopiesRead
<1>6. QED
  BY <1>3, <1>4, <1>5 DEF Apart

\* A step that changes no record leaves the rows as the pass read them.
LEMMA ReadsKept ==
  ASSUME PassReads, \A k \in Keys : Fresh(k)' => Fresh(k),
         \A k \in Keys : seen'[k] = seen[k],
         \A k \in Keys : \/ rows'[k] = rows[k] \/ (rows'[k] = NoRow /\ seen[k] # NoRow)
                         \/ rows'[k] = NoRow /\ rows[k] = NoRow,
         stage' \in {"off", "listed"} => UNCHANGED <<stage, kind>>,
         stage' \in {"sweep", "end"} => kind' = "rules",
         stage' \in Writing \cup Deleting => key' \in todo',
         stage' \in Writing \cup Deleting \cup {"apply", "remove"} => todo' \subseteq Half',
         stage' \in Deleting \cup {"remove"} => \A k \in todo' : plan'[k] \notin Contents
  PROVE  PassReads'
<1>1. \A k \in Keys : Fresh(k)' => SameRow(k)'
  BY DEF PassReads, SameRow
<1>2. stage' \in {"off", "listed"} => kind' = "owners" /\ \A k \in Keys : seen'[k] = NoRow
  BY DEF PassReads
<1>3. QED
  BY <1>1, <1>2 DEF PassReads

----------------------------------------------------------------------------
(* The records stay apart: step by step                                    *)

LEMMA ListApart == ASSUME IInv, Apart, ListPolicies PROVE Apart'
<1> USE DEF Apart
<1>1. /\ stage = "off" /\ stage' = "listed" /\ copies' = gateway /\ on' = LiveIds
      /\ UNCHANGED <<gateway, rows, kind, adopted, seen, made, todo, key, plan>>
  BY DEF ListPolicies
<1>2. \A k \in Keys, p \in Nat : Names(k, p)' => Names(k, p)
  BY <1>1, NamesKept
<1>3. HoldersApart'
  BY <1>1, <1>2, HoldersKept
<1>4. PassReads'
  BY <1>1 DEF PassReads, Fresh, Writing, Deleting
<1>5. CopiesRead'
  <2>1. adopted \subseteq DOMAIN gateway /\ Len(gateway) \in Nat
    BY Types
  <2>2. QED
    BY <1>1, <2>1 DEF CopiesRead, LiveIds, Says
<1>6. QED
  BY <1>3, <1>4, <1>5

LEMMA SettleApart == ASSUME IInv, Apart, SettleLostCreates PROVE Apart'
<1> USE DEF Apart
<1>1. PICK match \in [Pending -> on \cup {0}] :
        Matches(match, Carries) /\ adopted' = {match[i] : i \in Pending} \ {0}
  BY DEF SettleLostCreates, SettleLostCreatesBy
<1>2. /\ stage = "listed" /\ stage' = "plan"
      /\ UNCHANGED <<gateway, rows, kind, copies, on, seen, made, todo, key, plan>>
  BY DEF SettleLostCreates, SettleLostCreatesBy
<1>3. ASSUME NEW p \in adopted'
      PROVE  p \in on /\ ~ByRow(p)
  <2>1. PICK i \in Pending : p = match[i] /\ match[i] # 0
    BY <1>1, <1>3
  <2> DEFINE open == {q \in on : /\ ~Claimed(q) /\ Carries(copies[q], ops[i])
                                 /\ \A j \in Pending : j < i => match[j] # q}
  <2>2. IF open = {} THEN match[i] = 0 ELSE match[i] \in open
    BY <1>1 DEF Matches
  <2>3. \A q \in open : q \in on /\ ~Claimed(q)
    OBVIOUS
  <2> HIDE DEF open
  <2>4. match[i] \in open
    BY <2>1, <2>2
  <2>5. QED
    BY <2>1, <2>3, <2>4 DEF Claimed
<1>4. \A k \in Keys, p \in Nat : Names(k, p)' => Names(k, p)
  BY <1>2, NamesKept
<1>5. \A k \in Keys, p \in adopted' : ~Names(k, p)
  BY <1>2, <1>3 DEF ByRow, Names, PassReads
<1>6. HoldersApart'
  BY <1>2, <1>4, <1>5 DEF HoldersApart
<1>7. PassReads'
  BY <1>2 DEF PassReads, Fresh, Writing, Deleting
<1>8. CopiesRead'
  BY <1>2, <1>3 DEF CopiesRead
<1>9. QED
  BY <1>6, <1>7, <1>8

LEMMA PlanApart == ASSUME IInv, Apart, Plan PROVE Apart'
<1> USE DEF Apart
<1>1. /\ stage = "plan" /\ stage' = "apply" /\ plan' = desired /\ seen' = rows
      /\ todo' = {k \in Half : desired[k] \in Contents}
      /\ UNCHANGED <<gateway, rows, kind, copies, on, adopted, made, key>>
  BY DEF Plan
<1>2. \A k \in Keys, p \in Nat : Names(k, p)' => Names(k, p)
  BY <1>1, NamesKept
<1>3. HoldersApart'
  BY <1>1, <1>2, HoldersKept
<1>4. PassReads'
  BY <1>1 DEF PassReads, SameRow, Half, Writing, Deleting
<1>5. OnlyTaken
  BY <1>1, Types DEF OnlyTaken
<1>6. CopiesRead'
  BY <1>1, <1>5, CopiesKept
<1>7. QED
  BY <1>3, <1>4, <1>6

\* A row the pass writes without naming another policy in it.
LEMMA RowApart ==
  ASSUME IInv, Apart, NEW k \in Keys, rows'[k].policy = 0 \/ (rows[k] # NoRow /\ rows'[k].policy = rows[k].policy),
         \A j \in Keys : j # k => rows'[j] = rows[j],
         UNCHANGED <<gateway, copies, on, adopted, plan, seen, kind>>,
         todo' \subseteq todo, stage' \in Writing \cup Deleting \cup {"apply", "remove"},
         stage \in Writing \cup Deleting \cup {"apply", "remove"},
         stage' \notin {"applied", "record", "putrow"},
         stage' \in Writing \cup Deleting => key' \in todo',
         stage' \in Deleting \cup {"remove"} => stage \in Deleting \cup {"remove"},
         \A j \in Keys : Fresh(j)' => Fresh(j) /\ (j # k \/ SameRow(j)')
  PROVE  Apart'
<1> USE DEF Apart
<1>3. \A j \in Keys, p \in Nat : Names(j, p)' => Names(j, p)
  BY NamesKept
<1>4. HoldersApart'
  BY <1>3, HoldersKept
<1>5. PassReads'
  <2>1. \A j \in Keys : Fresh(j)' => SameRow(j)'
    BY DEF PassReads, SameRow
  <2>2. todo' \subseteq Half'
    BY DEF PassReads, Half
  <2>3. stage' \notin {"off", "listed", "sweep", "end"}
    BY DEF Writing, Deleting
  <2>4. stage' \in Deleting \cup {"remove"} => \A j \in todo' : plan'[j] \notin Contents
    BY DEF PassReads
  <2>5. QED
    BY <2>1, <2>2, <2>3, <2>4 DEF PassReads
<1>6. OnlyTaken
  BY Types DEF OnlyTaken
<1>7. CopiesRead'
  BY <1>6, CopiesKept DEF Writing, Deleting
<1>8. QED
  BY <1>4, <1>5, <1>7

\* A step of the pass that writes no record and takes nothing.
LEMMA StepApart ==
  ASSUME IInv, Apart, OnlyTaken, UNCHANGED <<rows, seen, copies, kind, plan>>,
         adopted' \subseteq adopted, \A p \in on' : p \in on \/ p \notin DOMAIN copies,
         todo' \subseteq todo, \A k \in Keys : Fresh(k)' => Fresh(k),
         stage \notin {"off", "listed"}, stage' \notin {"off", "listed", "applied", "record", "putrow"},
         stage' \in {"sweep", "end"} => kind = "rules",
         stage' \in Writing \cup Deleting => key' \in todo',
         stage' \in Writing \cup Deleting \cup {"apply", "remove"} =>
           stage \in Writing \cup Deleting \cup {"apply", "remove"},
         stage' \in Deleting \cup {"remove"} => stage \in Deleting \cup {"remove"}
  PROVE  Apart'
<1> USE DEF Apart
<1>1. \A k \in Keys, p \in Nat : Names(k, p)' => Names(k, p)
  BY NamesKept
<1>2. HoldersApart'
  BY <1>1, HoldersKept
<1>3. PassReads'
  <2>1. stage' \in Writing \cup Deleting \cup {"apply", "remove"} => todo' \subseteq Half'
    BY DEF PassReads, Half
  <2>2. stage' \in Deleting \cup {"remove"} => \A k \in todo' : plan'[k] \notin Contents
    BY DEF PassReads
  <2>3. QED
    BY <2>1, <2>2, ReadsKept
<1>4. CopiesRead'
  BY CopiesKept
<1>5. QED
  BY <1>2, <1>3, <1>4

LEMMA SameGatewayTaken == ASSUME IInv, UNCHANGED gateway PROVE OnlyTaken
  BY Types DEF OnlyTaken

LEMMA UnchangedApart == ASSUME IInv, Apart, NEW k \in Keys, Unchanged(k) PROVE Apart'
<1> DEFINE row == [rows[k] EXCEPT !.observed = plan[k]]
<1>0. /\ stage = "apply" /\ k \in todo /\ seen[k] # NoRow /\ (todo' = todo \ {k} \/ Stop)
      /\ UNCHANGED <<gateway, ops, Others>>
  BY DEF Unchanged, AsWanted, OnGateway, WriteRow
<1>1. CASE Stop /\ UNCHANGED rows
  BY <1>0, <1>1, StopApart
<1>2. CASE /\ UNCHANGED rows /\ todo' = todo \ {k}
           /\ UNCHANGED <<stage, kind, copies, on, adopted, plan, seen, key, made, sweeping, bad, quiet>>
  <2>1. \A j \in Keys : Fresh(j)' => Fresh(j)
    BY <1>2 DEF Fresh, Half
  <2>2. stage = "apply"
    BY DEF Unchanged
  <2>3. QED
    BY <1>0, <1>2, <2>1, <2>2, SameGatewayTaken, StepApart DEF Writing, Deleting
<1>3. CASE /\ rows[k] # NoRow /\ rows' = [rows EXCEPT ![k] = row] /\ todo' = todo \ {k}
           /\ UNCHANGED <<stage, kind, copies, on, adopted, plan, seen, key, made, sweeping, bad, quiet>>
  <2>1. row.policy = rows[k].policy /\ row # NoRow
    <3>1. rows[k] \in Rows /\ plan[k] \in Contents
      BY <1>3, Types DEF Unchanged, IInv, PassStages
    <3>2. row \in Rows /\ row.policy = rows[k].policy
      BY <3>1 DEF Rows
    <3>3. QED
      BY <3>2, PolicySyncAssumption
  <2>2. \A j \in Keys : Fresh(j)' => Fresh(j) /\ j # k
    <3>1. plan[k] \in Contents /\ stage = "apply"
      BY DEF Unchanged, IInv, PassStages
    <3>2. QED
      BY <1>3, <3>1 DEF Fresh, Half, Deleting
  <2>3. stage = "apply" /\ UNCHANGED gateway
    BY <1>0 DEF Unchanged
  <2> HIDE DEF row
  <2>5. /\ rows[k] # NoRow /\ rows'[k].policy = rows[k].policy /\ todo' \subseteq todo
        /\ \A j \in Keys : j # k => rows'[j] = rows[j]
    BY <1>3, <2>1, Types
  <2>6. stage = "apply" /\ stage' = "apply"
    BY <1>3, <2>3
  <2>7. QED
    BY <1>3, <2>2, <2>3, <2>5, <2>6, RowApart DEF Writing, Deleting
<1>4. QED
  BY <1>1, <1>2, <1>3 DEF Unchanged, WriteRow, AsWanted, OnGateway

LEMMA StartUpdateApart == ASSUME IInv, Apart, NEW k \in Keys, StartUpdate(k) PROVE Apart'
<1> DEFINE row == [rows[k] EXCEPT !.drift = TRUE]
<1>0. stage = "apply" /\ k \in todo /\ seen[k] # NoRow /\ UNCHANGED <<gateway, ops, Others>>
  BY DEF StartUpdate, OnGateway
<1>1. CASE Stop /\ UNCHANGED rows
  BY <1>0, <1>1, StopApart
<1>2. CASE /\ UNCHANGED rows /\ stage' = "put" /\ key' = k
           /\ UNCHANGED <<kind, copies, on, adopted, plan, seen, todo, made, sweeping, bad, quiet>>
  <2>1. \A j \in Keys : Fresh(j)' => Fresh(j)
    BY <1>0, <1>2 DEF Fresh, Half, Writing, Deleting
  <2>2. QED
    BY <1>0, <1>2, <2>1, SameGatewayTaken, StepApart DEF Writing, Deleting
<1>3. CASE /\ rows[k] # NoRow /\ rows' = [rows EXCEPT ![k] = row] /\ stage' = "put" /\ key' = k
           /\ UNCHANGED <<kind, copies, on, adopted, plan, seen, todo, made, sweeping, bad, quiet>>
  <2>0. rows[k] \in Rows /\ rows'[k] = row
    BY <1>3, Types
  <2>1. /\ row.policy = rows[k].policy /\ row # NoRow
        /\ row.failed = rows[k].failed /\ row.desired = rows[k].desired /\ row.observed = rows[k].observed
    <3>1. row \in Rows
      BY <2>0 DEF Rows
    <3>2. QED
      BY <2>0, <3>1, PolicySyncAssumption DEF Rows
  <2>2. \A j \in Keys : Fresh(j)' => Fresh(j)
    BY <1>0, <1>3 DEF Fresh, Half, Writing, Deleting
  <2> HIDE DEF row
  <2>3. \A j \in Keys : j # k \/ SameRow(j)'
    <3>1. Fresh(k)
      BY <1>0 DEF Fresh, Apart, PassReads, Writing
    <3>2. SameRow(k)
      BY <3>1 DEF Apart, PassReads
    <3>3. QED
      BY <1>0, <1>3, <2>0, <2>1, <3>2 DEF SameRow
  <2>5. /\ rows[k] # NoRow /\ rows'[k].policy = rows[k].policy /\ todo' \subseteq todo /\ key' \in todo'
        /\ \A j \in Keys : j # k => rows'[j] = rows[j]
    BY <1>0, <1>3, <2>0, <2>1, Types
  <2>6. stage = "apply" /\ stage' = "put"
    BY <1>0, <1>3
  <2>7. QED
    BY <1>0, <1>3, <2>2, <2>3, <2>5, <2>6, RowApart DEF Writing, Deleting
<1>4. QED
  BY <1>0, <1>1, <1>2, <1>3 DEF StartUpdate, WriteRow

\* What the pass puts back is of the key it is at, and of nothing it matched.
LEMMA PutApart == ASSUME IInv, Apart, Put \/ PutFails PROVE Apart'
<1> USE DEF Apart
<1>0. /\ stage = "put" /\ key \in Keys /\ seen[key] # NoRow /\ stage' \in {"putrow", "error", "create"}
      /\ UNCHANGED <<rows, kind, copies, on, adopted, plan, seen, todo, key>>
      /\ stage' = "putrow" => made' = seen[key].policy /\ seen[key].policy \in LiveIds
  BY DEF Put, PutFails, IInv, PassStages, Writing
<1>1. /\ Len(gateway') = Len(gateway) /\ DOMAIN gateway' = DOMAIN gateway
      /\ \A q \in DOMAIN gateway : q # seen[key].policy => gateway'[q] = gateway[q]
      /\ seen[key].policy \in LiveIds \/ UNCHANGED gateway
  <2>1. CASE UNCHANGED gateway
    BY <2>1
  <2>2. CASE seen[key].policy \in LiveIds /\ gateway' = PutBack(gateway, seen[key].policy, plan[key])
    BY <1>0, <2>2, PutFacts
  <2>3. QED
    BY <2>1, <2>2 DEF Put, PutFails
<1>2. seen[key].policy \in LiveIds => Names(key, seen[key].policy) /\ seen[key].policy \in Nat /\ seen[key].policy # 0
  BY <1>0, LiveFacts DEF Names
<1>3. \A q \in adopted : gateway'[q] = gateway[q]
  <2>1. \A q \in adopted : q \in DOMAIN gateway
    BY Types
  <2>2. seen[key].policy \in LiveIds => seen[key].policy \notin adopted
    BY <1>0, <1>2 DEF HoldersApart
  <2>3. QED
    BY <1>1, <2>1, <2>2
<1>4. HoldersApart'
  <2>1. \A k \in Keys, p \in Nat : Names(k, p)' => Names(k, p)
    BY <1>0, NamesKept
  <2>2. CASE stage' # "putrow"
    BY <1>0, <1>1, <2>1, <2>2, HoldersKept
  <2>3. CASE stage' = "putrow"
    BY <1>0, <1>1, <1>2, <2>1, <2>3 DEF HoldersApart
  <2>4. QED
    BY <2>2, <2>3
<1>5. PassReads'
  <2>1. \A k \in Keys : Fresh(k)' => Fresh(k)
    BY <1>0 DEF Fresh, Half, Writing, Deleting
  <2>2. QED
    BY <1>0, <2>1, ReadsKept DEF PassReads, Writing, Deleting, Half
<1>6. CopiesRead'
  BY <1>0, <1>1, <1>3 DEF CopiesRead
<1>7. QED
  BY <1>4, <1>5, <1>6

LEMMA StartCreateApart == ASSUME IInv, Apart, NEW k \in Keys, StartCreate(k) PROVE Apart'
<1>1. /\ stage = "apply" /\ k \in todo /\ stage' = "create" /\ key' = k
      /\ UNCHANGED <<gateway, rows, kind, copies, on, adopted, plan, seen, todo, made>>
  BY DEF StartCreate
<1>2. \A j \in Keys : Fresh(j)' => Fresh(j)
  BY <1>1 DEF Fresh, Half, Writing, Deleting
<1>3. QED
  BY <1>1, <1>2, SameGatewayTaken, StepApart DEF Writing, Deleting

LEMMA ReclaimApart == ASSUME IInv, Apart, Reclaim PROVE Apart'
<1> USE DEF Apart
<1>1. /\ stage = "create" /\ stage' = "record"
      /\ UNCHANGED <<gateway, rows, kind, copies, on, plan, seen, todo, key>>
  BY DEF Reclaim
<1>2. PICK p \in adopted : made' = p /\ adopted' = adopted \ {p}
  BY DEF Reclaim
<1>3. p \in Nat /\ p # 0 /\ \A k \in Keys : ~Names(k, p)
  BY Types DEF HoldersApart
<1>4. HoldersApart'
  <2>1. \A k \in Keys, q \in Nat : Names(k, q)' => Names(k, q)
    BY <1>1, NamesKept
  <2>2. \A k \in Keys : ~Names(k, made)'
    BY <1>1, <1>2, <1>3 DEF Names
  <2>3. made' # 0 /\ made' \notin adopted'
    BY <1>2, <1>3
  <2>4. QED
    BY <1>1, <1>2, <2>1, <2>2, <2>3 DEF HoldersApart
<1>5. PassReads'
  <2>1. \A k \in Keys : Fresh(k)' => Fresh(k)
    BY <1>1 DEF Fresh, Half, Writing, Deleting
  <2>2. QED
    BY <1>1, <2>1, ReadsKept DEF PassReads, Writing, Deleting, Half
<1>6. CopiesRead'
  BY <1>1, <1>2, SameGatewayTaken, CopiesKept
<1>7. QED
  BY <1>4, <1>5, <1>6

LEMMA OpenCreateApart == ASSUME IInv, Apart, OpenCreate PROVE Apart'
<1>1. /\ stage = "create" /\ stage' = "post"
      /\ UNCHANGED <<gateway, rows, kind, copies, on, adopted, plan, seen, todo, key, made>>
  BY DEF OpenCreate, OpenCreateAs
<1>2. \A j \in Keys : Fresh(j)' => Fresh(j)
  BY <1>1 DEF Fresh, Half, Writing, Deleting
<1>3. key \in todo
  BY <1>1 DEF Apart, PassReads, Writing
<1>4. QED
  BY <1>1, <1>2, <1>3, SameGatewayTaken, StepApart DEF Writing, Deleting

\* A new policy is nobody's yet, and was not there when the pass listed them.
LEMMA PostApart == ASSUME IInv, Apart, Post PROVE Apart'
<1> USE DEF Apart
<1>1. /\ stage = "post" /\ stage' = "applied" /\ made' = Len(gateway')
      /\ gateway' = Append(gateway, [key |-> key, content |-> plan[key]])
      /\ UNCHANGED <<rows, kind, copies, on, adopted, plan, seen, todo, key>>
  BY DEF Post
<1>2. /\ OnlyTaken /\ Len(gateway') = Len(gateway) + 1 /\ Len(gateway') \notin DOMAIN gateway
      /\ Len(gateway') # 0
  BY <1>1, AppendFacts
<1>3. \A k \in Keys, q \in Nat : Names(k, q)' => Names(k, q)
  BY <1>1, NamesKept
<1> PICK m : m = made'
  OBVIOUS
<1>4. m \in Nat /\ m # 0 /\ m \notin DOMAIN gateway /\ m > Len(gateway)
  BY <1>1, <1>2, Types
<1>5. HoldersApart'
  <2>1. \A k \in Keys : ~Names(k, m)'
    BY <1>3, <1>4 DEF HoldersApart
  <2>2. \A k \in Keys : ~Names(k, made)'
    BY <2>1 DEF Names
  <2>3. made' # 0 /\ made' \notin adopted'
    BY <1>1, <1>4, Types
  <2>4. \A k \in Keys, q \in Nat : Names(k, q)' => q \in DOMAIN gateway' /\ q \notin adopted'
    BY <1>1, <1>2, <1>3 DEF HoldersApart, OnlyTaken
  <2>5. \A j, k \in Keys, q \in Nat : Names(j, q)' /\ Names(k, q)' => j = k
    BY <1>3 DEF HoldersApart
  <2>6. QED
    BY <1>1, <2>2, <2>3, <2>4, <2>5 DEF HoldersApart
<1>6. PassReads'
  <2>1. \A k \in Keys : Fresh(k)' => Fresh(k)
    BY <1>1 DEF Fresh, Half, Writing, Deleting
  <2>2. QED
    BY <1>1, <2>1, ReadsKept DEF PassReads, Writing, Deleting, Half
<1>7. CopiesRead'
  <2>1. made' \notin DOMAIN copies'
    BY <1>1, <1>4, Types DEF CopiesRead
  <2>2. Len(copies') <= Len(gateway')
    BY <1>1, <1>2, Types DEF CopiesRead
  <2>3. \A p \in adopted' : Says(gateway'[p].content, copies'[p].content)
    BY <1>1, <1>2, Types DEF CopiesRead, OnlyTaken, Says
  <2>4. QED
    BY <1>1, <2>1, <2>2, <2>3 DEF CopiesRead
<1>8. QED
  BY <1>5, <1>6, <1>7

LEMMA PostFailsApart == ASSUME IInv, Apart, PostFails PROVE Apart'
<1>1. /\ stage = "post" /\ stage' = "error"
      /\ UNCHANGED <<rows, kind, copies, on, adopted, plan, seen, todo, key, made>>
      /\ gateway' = Append(gateway, [key |-> key, content |-> plan[key]]) \/ UNCHANGED gateway
  BY DEF PostFails
<1>2. OnlyTaken
  BY <1>1, AppendFacts, SameGatewayTaken
<1>3. \A j \in Keys : Fresh(j)' => Fresh(j)
  BY <1>1 DEF Fresh, Half, Writing, Deleting
<1>4. key \in todo
  BY <1>1 DEF Apart, PassReads, Writing
<1>5. QED
  BY <1>1, <1>2, <1>3, <1>4, StepApart DEF Writing, Deleting

LEMMA ApplyOperationApart == ASSUME IInv, Apart, ApplyOperation PROVE Apart'
<1> USE DEF Apart
<1>1. /\ stage = "applied" /\ stage' = "record" /\ on' = on \cup {made}
      /\ UNCHANGED <<gateway, rows, kind, copies, adopted, plan, seen, todo, key, made>>
  BY DEF ApplyOperation
<1>2. \A k \in Keys, q \in Nat : Names(k, q)' => Names(k, q)
  BY <1>1, NamesKept
<1>3. HoldersApart'
  <2>1. \A k \in Keys : ~Names(k, made)'
    BY <1>1 DEF HoldersApart, Names
  <2>2. QED
    BY <1>1, <1>2, <2>1 DEF HoldersApart
<1>4. PassReads'
  <2>1. \A k \in Keys : Fresh(k)' => Fresh(k)
    BY <1>1 DEF Fresh, Half, Writing, Deleting
  <2>2. QED
    BY <1>1, <2>1, ReadsKept DEF PassReads, Writing, Deleting, Half
<1>5. CopiesRead'
  <2>1. \A p \in on' : p \in on \/ p \notin DOMAIN copies
    BY <1>1 DEF CopiesRead
  <2>2. QED
    BY <1>1, <2>1, SameGatewayTaken, CopiesKept
<1>6. QED
  BY <1>3, <1>4, <1>5

\* Recorded, the policy made for a key is that key's and no other's.
LEMMA RecordApart == ASSUME IInv, Apart, RecordPolicy PROVE Apart'
<1> USE DEF Apart
<1>0. stage \in {"putrow", "record"} /\ key \in Keys /\ key \in todo /\ UNCHANGED <<gateway, ops, Others>>
  BY DEF RecordPolicy, IInv, PassStages, PassReads, Writing
<1>1. CASE Stop /\ UNCHANGED rows
  BY <1>0, <1>1, StopApart
<1>2. CASE rows' = [rows EXCEPT ![key] = Clean(key)] /\ Proceed
  <2>1. /\ stage' = "apply" /\ key' = NoKey /\ todo' = todo \ {key}
        /\ UNCHANGED <<kind, copies, on, adopted, plan, seen>>
    BY <1>2 DEF Proceed
  <2> PICK m : m = made
    OBVIOUS
  <2>2. /\ rows'[key] = Clean(key) /\ Clean(key).policy = m
        /\ \A k \in Keys : k # key => rows'[k] = rows[k]
    BY <1>0, <1>2, Types DEF Clean
  <2> PICK x \in Keys : x = key
    BY <1>0
  <2>3. m \in Nat /\ m # 0 /\ m \in DOMAIN gateway /\ m \notin adopted /\ \A k \in Keys : k # key => ~Names(k, m)
    <3>1. m # 0 /\ m \in 0..Len(gateway)
      BY <1>0, Types DEF HoldersApart, IInv, PassTypes
    <3>2. CASE stage = "record"
      BY <3>1, <3>2, Types DEF HoldersApart
    <3>3. CASE stage = "putrow"
      <4>1. Names(key, m)
        BY <3>1, <3>3 DEF HoldersApart, Names
      <4>2. QED
        BY <1>0, <3>1, <3>3, <4>1, Types DEF HoldersApart
    <3>4. QED
      BY <1>0, <3>2, <3>3
  <2>4. \A k \in Keys, p \in Nat : Names(k, p)' => Names(k, p) \/ (k = key /\ p = m)
    <3>1. rows'[x].policy = m /\ seen' = seen /\ \A k \in Keys : k # x => rows'[k] = rows[k]
      BY <2>1, <2>2
    <3>2. ASSUME NEW k \in Keys, NEW p \in Nat, k # x, Names(k, p)' PROVE Names(k, p)
      BY <3>1, <3>2 DEF Names
    <3>3. ASSUME NEW p \in Nat, Names(x, p)' PROVE Names(x, p) \/ p = m
      BY <3>1, <3>3 DEF Names
    <3>4. QED
      BY <3>2, <3>3
  <2>5. HoldersApart'
    <3>1. \A k \in Keys, p \in Nat : Names(k, p)' => p \in DOMAIN gateway' /\ p \notin adopted'
      BY <1>0, <2>1, <2>3, <2>4 DEF HoldersApart
    <3>2. \A j, k \in Keys, p \in Nat : Names(j, p)' /\ Names(k, p)' => j = k
      BY <1>0, <2>3, <2>4 DEF HoldersApart
    <3>3. QED
      BY <2>1, <3>1, <3>2 DEF HoldersApart
  <2>6. PassReads'
    <3>1. plan[key] \in Contents
      BY <1>0 DEF IInv, PassStages, Writing
    <3>2. \A k \in Keys : Fresh(k)' => Fresh(k) /\ k # key
      BY <1>0, <2>1, <3>1 DEF Fresh, Half, Writing, Deleting
    <3>3. \A k \in Keys : Fresh(k)' => SameRow(k)'
      BY <2>1, <2>2, <3>2 DEF PassReads, SameRow
    <3>4. todo' \subseteq Half'
      BY <1>0, <2>1 DEF PassReads, Half, Writing
    <3>5. QED
      BY <2>1, <3>3, <3>4 DEF PassReads, Writing, Deleting
  <2>7. CopiesRead'
    BY <1>0, <2>1, SameGatewayTaken, CopiesKept
  <2>8. QED
    BY <2>5, <2>6, <2>7
<1>3. QED
  BY <1>1, <1>2 DEF RecordPolicy, WriteRow

LEMMA WriteErrorApart == ASSUME IInv, Apart, WriteError PROVE Apart'
<1> USE DEF Apart
<1> DEFINE row == ErrorRow(key, TRUE)
<1>0. /\ stage = "error" /\ key \in Keys /\ key \in todo /\ plan[key] \in Contents
      /\ UNCHANGED <<gateway, ops, Others>>
  BY DEF WriteError, IInv, PassStages, PassReads, Writing
<1>1. CASE Stop /\ UNCHANGED rows
  BY <1>0, <1>1, StopApart
<1>2. CASE /\ rows' = [rows EXCEPT ![key] = row] /\ Proceed
           /\ IF seen[key] # NoRow THEN rows[key] # NoRow ELSE rows[key] = NoRow
  <2>1. /\ stage' = "apply" /\ key' = NoKey /\ todo' = todo \ {key}
        /\ UNCHANGED <<kind, copies, on, adopted, plan, seen>>
    BY <1>2 DEF Proceed
  <2>2. row.policy \in {0, rows[key].policy} /\ row # NoRow /\ (rows[key] # NoRow \/ row.policy = 0)
    <3>1. CASE seen[key] = NoRow
      <4>1. row = [policy |-> 0, desired |-> plan[key], observed |-> "none", failed |-> TRUE, drift |-> FALSE]
        BY <3>1 DEF ErrorRow
      <4>2. [policy |-> 0, desired |-> plan[key], observed |-> "none", failed |-> TRUE, drift |-> FALSE] \in Rows
        BY <1>0, NewErrorRow
      <4> HIDE DEF row
      <4>3. row.policy = 0
        BY <4>1
      <4>4. row # NoRow
        BY <4>1, <4>2, PolicySyncAssumption
      <4>5. QED
        BY <4>3, <4>4
    <3>2. CASE seen[key] # NoRow
      <4>1. rows[key] # NoRow /\ rows[key] \in Rows
        BY <1>0, <1>2, <3>2, Types
      <4> DEFINE drift == rows[key].drift /\ seen[key].desired = plan[key]
      <4>2. row = [rows[key] EXCEPT !.failed = TRUE, !.desired = plan[key], !.drift = drift]
        BY <3>2 DEF ErrorRow
      <4>3. drift \in BOOLEAN
        OBVIOUS
      <4> HIDE DEF drift
      <4>4. row = [policy |-> rows[key].policy, desired |-> plan[key], observed |-> rows[key].observed,
                   failed |-> TRUE, drift |-> drift]
        <5> HIDE DEF row
        <5>1. QED
          BY <4>1, <4>2 DEF Rows
      <4>5. rows[key].policy \in Nat /\ rows[key].observed \in Contents \cup {"none"}
        BY <4>1 DEF Rows
      <4> HIDE DEF row
      <4>6. row \in Rows
        BY <1>0, <4>3, <4>4, <4>5 DEF Rows
      <4>7. row.policy = rows[key].policy
        BY <4>4
      <4>8. QED
        BY <4>1, <4>6, <4>7, PolicySyncAssumption
    <3>3. QED
      BY <3>1, <3>2
  <2>3. \A k \in Keys : Fresh(k)' => Fresh(k) /\ k # key
    BY <1>0, <2>1 DEF Fresh, Half, Writing, Deleting
  <2> HIDE DEF row
  <2>4. rows'[key] = row /\ \A k \in Keys : k # key => rows'[k] = rows[k]
    BY <1>0, <1>2, Types
  <2>5. PICK x \in Keys : x = key
    BY <1>0
  <2>6. \A k \in Keys : Fresh(k)' => Fresh(k) /\ k # x
    BY <2>3, <2>5
  <2>7. QED
    BY <1>0, <2>1, <2>2, <2>4, <2>5, <2>6, RowApart DEF Writing, Deleting
<1> HIDE DEF row
<1>3. \/ Stop /\ UNCHANGED rows
      \/ /\ rows' = [rows EXCEPT ![key] = row] /\ Proceed
         /\ IF seen[key] # NoRow THEN rows[key] # NoRow ELSE rows[key] = NoRow
  BY DEF WriteError, WriteRow, row
<1>4. QED
  BY <1>1, <1>2, <1>3

LEMMA EndApplyApart == ASSUME IInv, Apart, EndApply PROVE Apart'
<1> USE DEF Apart
<1>1. /\ stage = "apply" /\ stage' = "remove" /\ todo' = {k \in Half : Unwanted(k)}
      /\ UNCHANGED <<gateway, rows, kind, copies, on, adopted, plan, seen, key, made>>
  BY DEF EndApply
<1>2. \A k \in Keys, p \in Nat : Names(k, p)' => Names(k, p)
  BY <1>1, NamesKept
<1>3. HoldersApart'
  BY <1>1, <1>2, HoldersKept
<1>4. PassReads'
  <2>1. \A k \in todo' : k \in Half /\ plan[k] \notin Contents
    BY <1>1 DEF Unwanted
  <2>2. \A k \in Keys : Fresh(k)' => Fresh(k)
    BY <1>1, <2>1 DEF Fresh, Writing, Deleting
  <2>3. todo' \subseteq Half'
    BY <1>1 DEF Half
  <2>4. QED
    BY <1>1, <2>1, <2>2, <2>3, ReadsKept DEF Writing, Deleting
<1>5. CopiesRead'
  BY <1>1, SameGatewayTaken, CopiesKept
<1>6. QED
  BY <1>3, <1>4, <1>5

LEMMA StartRemoveApart == ASSUME IInv, Apart, NEW k \in Keys, StartRemove(k) PROVE Apart'
<1>1. /\ stage = "remove" /\ k \in todo /\ stage' \in {"delete", "deleterow"} /\ key' = k
      /\ UNCHANGED <<gateway, rows, kind, copies, on, adopted, plan, seen, todo, made>>
  BY DEF StartRemove
<1>2. \A j \in Keys : Fresh(j)' => Fresh(j)
  BY <1>1 DEF Fresh, Half, Writing, Deleting
<1>3. QED
  BY <1>1, <1>2, SameGatewayTaken, StepApart DEF Writing, Deleting

LEMMA DeleteStepApart == ASSUME IInv, Apart, Delete \/ DeleteFails PROVE Apart'
<1>1. /\ stage = "delete" /\ stage' \in {"deleterow", "deleteerror"} /\ on' \subseteq on
      /\ UNCHANGED <<rows, kind, copies, adopted, plan, seen, todo, key, made>>
      /\ gateway' \in {gateway, DeleteFrom(gateway, seen[key].policy)}
  BY DEF Delete, DeleteFails
<1>2. seen[key].policy # 1
  BY <1>1 DEF IInv, PassStages, PassTypes, GoodRows, Deleting
<1>3. OnlyTaken
  BY <1>1, <1>2, DeleteFacts
<1>4. \A j \in Keys : Fresh(j)' => Fresh(j)
  BY <1>1 DEF Fresh, Half, Writing, Deleting
<1>5. key \in todo
  BY <1>1 DEF Apart, PassReads, Deleting
<1>6. QED
  BY <1>1, <1>3, <1>4, <1>5, StepApart DEF Writing, Deleting

LEMMA DropRowApart == ASSUME IInv, Apart, DropRow PROVE Apart'
<1> USE DEF Apart
<1>0. stage \in {"deleterow", "deleteerror"} /\ key \in Keys /\ key \in todo /\ UNCHANGED <<gateway, ops, Others>>
  BY DEF DropRow, IInv, PassStages, PassReads, Deleting
<1>1. CASE Stop /\ UNCHANGED rows
  BY <1>0, <1>1, StopApart
<1>2. CASE rows[key] # NoRow
  <2>1. /\ stage' = "remove" /\ key' = NoKey /\ todo' = todo \ {key}
        /\ UNCHANGED <<kind, copies, on, adopted, plan, seen, made>>
        /\ rows' = [rows EXCEPT ![key] = IF stage = "deleterow" THEN NoRow ELSE [@ EXCEPT !.failed = TRUE]]
    BY <1>2 DEF DropRow
  <2>2. \A k \in Keys : Fresh(k)' => Fresh(k) /\ k # key
    BY <1>0, <2>1 DEF Fresh, Half, Writing, Deleting
  <2>3. CASE stage = "deleterow"
    <3>1. rows'[key] = NoRow /\ \A k \in Keys : k # key => rows'[k] = rows[k]
      BY <1>0, <2>1, <2>3, Types
    <3>2. \A k \in Keys, p \in Nat : Names(k, p)' => Names(k, p)
      BY <2>1, <3>1, NamesKept
    <3>3. HoldersApart'
      BY <1>0, <2>1, <3>2, SameGatewayTaken, HoldersKept
    <3>4. \A k \in Keys : Fresh(k)' => SameRow(k)'
      <4>1. seen' = seen
        BY <2>1
      <4>2. QED
        BY <2>2, <3>1, <4>1 DEF PassReads, SameRow
    <3>5. todo' \subseteq Half' /\ \A k \in todo' : plan'[k] \notin Contents
      BY <1>0, <2>1 DEF PassReads, Half, Deleting
    <3>6. PassReads'
      BY <2>1, <3>4, <3>5 DEF PassReads, Writing, Deleting
    <3>7. CopiesRead'
      BY <1>0, <2>1, SameGatewayTaken, CopiesKept
    <3>8. QED
      BY <3>3, <3>6, <3>7
  <2>4. CASE stage = "deleteerror"
    <3> DEFINE row == [rows[key] EXCEPT !.failed = TRUE]
    <3>1. rows' = [rows EXCEPT ![key] = row]
      BY <2>1, <2>4
    <3>2. rows[key] \in Rows
      BY <1>0, <1>2, Types
    <3>3. row \in Rows /\ row.policy = rows[key].policy
      BY <3>2 DEF Rows
    <3> HIDE DEF row
    <3>4. QED
      BY <1>0, <1>2, <2>1, <2>2, <3>1, <3>3, RowApart, PolicySyncAssumption DEF Writing, Deleting
  <2>5. QED
    BY <1>0, <2>3, <2>4
<1>3. QED
  BY <1>1, <1>2 DEF DropRow

LEMMA EndHalfApart == ASSUME IInv, Apart, EndHalf PROVE Apart'
<1> USE DEF Apart
<1>1. /\ stage = "remove" /\ UNCHANGED <<gateway, rows, copies, on, adopted, plan, seen, key, made>>
      /\ stage' = "plan" \/ (stage' = "sweep" /\ kind' = "rules")
  BY DEF EndHalf, IInv, PassTypes
<1>2. \A k \in Keys, p \in Nat : Names(k, p)' => Names(k, p)
  BY <1>1, NamesKept
<1>3. HoldersApart'
  BY <1>1, <1>2, HoldersKept
<1>4. PassReads'
  BY <1>1 DEF PassReads, Fresh, Writing, Deleting
<1>5. CopiesRead'
  BY <1>1, SameGatewayTaken, CopiesKept
<1>6. QED
  BY <1>3, <1>4, <1>5

LEMMA SweepApart ==
  ASSUME IInv, Apart, NEW i \in DOMAIN ops, Sweep(i) \/ SweepFails(i)
  PROVE  Apart'
<1>1. /\ stage = "sweep" /\ on' \subseteq on
      /\ UNCHANGED <<stage, rows, kind, copies, adopted, plan, seen, todo, key, made>>
      /\ gateway' \in {gateway, DeleteFrom(gateway, ops[i].policy)}
  BY DEF Sweep, SweepFails
<1>2. OnlyTaken
  BY <1>1, OpOfSeq, DeleteFacts DEF IInv, World
<1>3. \A j \in Keys : Fresh(j)' => Fresh(j)
  BY <1>1 DEF Fresh, Writing, Deleting
<1>4. kind = "rules"
  BY <1>1 DEF Apart, PassReads
<1>5. QED
  BY <1>1, <1>2, <1>3, <1>4, StepApart DEF Writing, Deleting

LEMMA EndSweepApart == ASSUME IInv, Apart, EndSweep PROVE Apart'
<1>1. /\ stage = "sweep" /\ stage' = "end"
      /\ UNCHANGED <<gateway, rows, kind, copies, on, adopted, plan, seen, todo, key, made>>
  BY DEF EndSweep
<1>2. \A j \in Keys : Fresh(j)' => Fresh(j)
  BY <1>1 DEF Fresh, Writing, Deleting
<1>3. kind = "rules"
  BY <1>1 DEF Apart, PassReads
<1>4. QED
  BY <1>1, <1>2, <1>3, SameGatewayTaken, StepApart DEF Writing, Deleting

\* What happens meanwhile takes rows and policies away, and adds policies.
LEMMA MeanwhileTaken ==
  ASSUME IInv, Meanwhile \/ UNCHANGED vars
  PROVE  /\ OnlyTaken /\ UNCHANGED passVars
         /\ \A k \in Keys : rows'[k] = rows[k] \/ rows'[k] = NoRow
         /\ \A k \in Keys : rows'[k] = NoRow /\ rows[k] # NoRow => quiet' = FALSE
<1> DEFINE Goal == /\ OnlyTaken /\ UNCHANGED passVars
                   /\ \A k \in Keys : rows'[k] = rows[k] \/ rows'[k] = NoRow
                   /\ \A k \in Keys : rows'[k] = NoRow /\ rows[k] # NoRow => quiet' = FALSE
<1>1. CASE UNCHANGED vars
  BY <1>1, SameGatewayTaken DEF vars
<1>2. CASE \E i \in DOMAIN ops : Age(i)
  BY <1>2, SameGatewayTaken DEF Age
<1>3. CASE \E i \in DOMAIN ops : LandLate(i)
  BY <1>3, AppendFacts DEF LandLate
<1>4. CASE \E k \in Keys : Wish(k)
  BY <1>4, SameGatewayTaken DEF Wish
<1>5. CASE RemovePolicies
  <2>1. PICK D \in SUBSET {k \in RuleKeys : rows[k] # NoRow} :
          gateway' = [p \in DOMAIN gateway |->
            IF \E k \in D : rows[k].policy = p THEN [gateway[p] EXCEPT !.content = "gone"]
                                              ELSE gateway[p]]
    BY <1>5 DEF RemovePolicies
  <2>2. \A p \in DOMAIN gateway : gateway[p] \in Copies \cup {Admin}
    BY Types DEF GoodGateway
  <2>3. \A g \in Copies \cup {Admin} : [g EXCEPT !.content = "gone"].content = "gone"
    BY DEF Copies, Admin
  <2>4. \A p \in DOMAIN gateway : /\ p \in DOMAIN gateway'
                                  /\ gateway'[p] = gateway[p] \/ gateway'[p].content \in {"edited", "gone"}
    BY <2>1, <2>2, <2>3
  <2>5. Len(gateway') = Len(gateway)
    <3>1. gateway' = [p \in 1..Len(gateway) |-> gateway'[p]]
      BY <2>1, Types
    <3>2. QED
      BY <3>1, Types
  <2>6. QED
    BY <1>5, <2>4, <2>5, Types DEF RemovePolicies, OnlyTaken
<1>6. CASE RemoveRule
  BY <1>6, SameGatewayTaken DEF RemoveRule
<1>7. CASE \E p \in DOMAIN gateway : ConsoleChange(p)
  <2>1. PICK p \in DOMAIN gateway : ConsoleChange(p)
    BY <1>7
  <2>2. PICK c \in {"edited", "gone"} : gateway' = [gateway EXCEPT ![p] = [gateway[p] EXCEPT !.content = c]]
    BY <2>1 DEF ConsoleChange, PutBack
  <2>3. gateway[p] \in Copies \cup {Admin}
    BY Types DEF GoodGateway
  <2>4. [gateway[p] EXCEPT !.content = c].content = c
    BY <2>3 DEF Copies, Admin
  <2>5. Len(gateway') = Len(gateway)
    <3>1. gateway' = [q \in 1..Len(gateway) |-> gateway'[q]]
      BY <2>2, Types
    <3>2. QED
      BY <3>1, Types
  <2>6. OnlyTaken
    BY <2>2, <2>4, <2>5, Types DEF OnlyTaken
  <2>7. QED
    BY <2>1, <2>6 DEF ConsoleChange
<1>8. QED
  BY <1>1, <1>2, <1>3, <1>4, <1>5, <1>6, <1>7 DEF Meanwhile

LEMMA MeanwhileApart == ASSUME IInv, Apart, Meanwhile \/ UNCHANGED vars PROVE Apart'
<1> USE DEF Apart
<1>1. /\ OnlyTaken /\ UNCHANGED <<stage, kind, copies, on, adopted, plan, seen, todo, key, made>>
      /\ \A k \in Keys : rows'[k] = rows[k] \/ rows'[k] = NoRow
  BY MeanwhileTaken DEF passVars
<1>2. \A k \in Keys, p \in Nat : Names(k, p)' => Names(k, p)
  BY <1>1, NamesKept
<1>3. HoldersApart'
  BY <1>1, <1>2, HoldersKept
<1>4. PassReads'
  <2>1. \A k \in Keys : Fresh(k)' <=> Fresh(k)
    BY <1>1 DEF Fresh, Half
  <2>2. \A k \in Keys : Fresh(k)' => SameRow(k)'
    BY <1>1, <2>1 DEF PassReads, SameRow
  <2>3. Half' = Half
    BY <1>1 DEF Half
  <2>4. QED
    BY <1>1, <2>2, <2>3 DEF PassReads
<1>5. CopiesRead'
  BY <1>1, CopiesKept
<1>6. QED
  BY <1>3, <1>4, <1>5

LEMMA StepsApart == ASSUME IInv, Apart, [Next]_vars PROVE Apart'
<1>1. CASE Meanwhile \/ UNCHANGED vars
  BY <1>1, MeanwhileApart
<1>2. CASE PassStep
  <2>1. EndPass => Apart'
    BY StopApart DEF EndPass
  <2>2. QED
    BY <1>2, <2>1, ListApart, SettleApart, PlanApart, UnchangedApart, StartUpdateApart, StartCreateApart,
       StartRemoveApart, PutApart, ReclaimApart, OpenCreateApart, PostApart, ApplyOperationApart,
       RecordApart, WriteErrorApart, EndApplyApart, DeleteStepApart, DropRowApart, EndHalfApart,
       SweepApart, EndSweepApart
    DEF PassStep
<1>3. CASE PassFault
  <2>1. Crash => Apart'
    BY StopApart DEF Crash
  <2>2. QED
    BY <1>3, <2>1, PutApart, PostFailsApart, DeleteStepApart, SweepApart DEF PassFault
<1>4. QED
  BY <1>1, <1>2, <1>3 DEF Next

LEMMA InitApart == Init => Apart
<1> SUFFICES ASSUME Init PROVE Apart
  OBVIOUS
<1>1. /\ stage = "off" /\ kind = "owners" /\ copies = <<>> /\ on = {} /\ adopted = {} /\ todo = {}
      /\ Len(gateway) = 1 /\ \A k \in Keys : rows[k] = NoRow /\ seen[k] = NoRow
  BY DEF Init
<1>2. HoldersApart
  BY <1>1 DEF HoldersApart, Names
<1>3. PassReads
  BY <1>1 DEF PassReads, Fresh, Writing, Deleting
<1>4. CopiesRead
  BY <1>1 DEF CopiesRead
<1>5. QED
  BY <1>2, <1>3, <1>4 DEF Apart

----------------------------------------------------------------------------
(* What a row tells of its policy                                          *)

\* A row that says its last write worked tells what the policy was to say.
Truthful(row) ==
  row.policy \in DOMAIN gateway /\ row.policy # 0 /\ row.observed = row.desired /\ row.desired \in Contents

\* The rule's half of the plan is still to come.
Later(k) == stage # "off" /\ kind = "owners" /\ k \in RuleKeys

\* Keys whose policies the pass has not written since it listed them.
Unwritten(k) ==
  \/ stage = "listed" \/ (stage = "plan" /\ (kind = "owners" \/ k \in RuleKeys))
  \/ stage \in Writing \cup {"apply"} /\ k \in todo
  \/ Later(k)

\* The write of the key is at the gateway or has failed, and is not on its row yet.
AtWrite(k) == stage \in {"putrow", "error"} /\ k = key

\* Unless its last write failed, a row tells what its policy says and what the
\* pass listed of it.
RowConfirmed(k) ==
  rows[k] # NoRow /\ ~rows[k].failed =>
    /\ Truthful(rows[k])
    /\ Says(gateway[rows[k].policy].content, rows[k].desired) \/ AtWrite(k)
    /\ Unwritten(k) /\ rows[k].policy \in DOMAIN copies =>
         Says(copies[rows[k].policy].content, rows[k].desired)

MadeConfirmed ==
  stage \in {"putrow", "applied", "record"} => Says(gateway[made].content, plan[key])

Confirmed == (\A k \in Keys : RowConfirmed(k)) /\ MadeConfirmed

\* A row left as it was, gone or marked as failed, on a policy nobody but the
\* console changed.
LEMMA RowKept ==
  ASSUME IInv, NEW k \in Keys, RowConfirmed(k),
         \/ rows'[k] = NoRow \/ rows'[k].failed
         \/ rows[k] # NoRow /\ rows'[k].policy = rows[k].policy /\ rows'[k].failed = rows[k].failed
            /\ rows'[k].desired = rows[k].desired /\ rows'[k].observed = rows[k].observed,
         \A q \in DOMAIN gateway : rows[k] # NoRow /\ q = rows[k].policy =>
           /\ q \in DOMAIN gateway'
           /\ gateway'[q] = gateway[q] \/ gateway'[q].content \in {"edited", "gone"} \/ AtWrite(k)',
         Unwritten(k)' => Unwritten(k) /\ copies' = copies,
         AtWrite(k) => AtWrite(k)' \/ rows'[k] = NoRow \/ rows'[k].failed
  PROVE  RowConfirmed(k)'
<1> SUFFICES ASSUME rows'[k] # NoRow, ~rows'[k].failed
             PROVE  /\ Truthful(rows[k])'
                    /\ Says(gateway[rows[k].policy].content, rows[k].desired)' \/ AtWrite(k)'
                    /\ Unwritten(k)' /\ rows'[k].policy \in DOMAIN copies' =>
                         Says(copies[rows[k].policy].content, rows[k].desired)'
  BY DEF RowConfirmed
<1>1. PICK q : q = rows[k].policy
  OBVIOUS
<1>2. /\ rows[k] # NoRow /\ ~rows[k].failed /\ rows'[k].policy = q
      /\ rows'[k].desired = rows[k].desired /\ rows'[k].observed = rows[k].observed
  BY <1>1
<1>3. /\ q \in DOMAIN gateway /\ q # 0 /\ rows[k].observed = rows[k].desired /\ rows[k].desired \in Contents
      /\ Says(gateway[q].content, rows[k].desired) \/ AtWrite(k)
      /\ Unwritten(k) /\ q \in DOMAIN copies => Says(copies[q].content, rows[k].desired)
  BY <1>1, <1>2 DEF RowConfirmed, Truthful
<1>4. q \in DOMAIN gateway' /\ (gateway'[q] = gateway[q] \/ gateway'[q].content \in {"edited", "gone"} \/ AtWrite(k)')
  BY <1>1, <1>2, <1>3
<1>5. Truthful(rows[k])'
  BY <1>2, <1>3, <1>4 DEF Truthful
<1>6. Says(gateway'[q].content, rows'[k].desired) \/ AtWrite(k)'
  BY <1>2, <1>3, <1>4 DEF Says
<1>7. Unwritten(k)' /\ q \in DOMAIN copies' => Says(copies'[q].content, rows'[k].desired)
  BY <1>2, <1>3
<1>8. QED
  BY <1>2, <1>5, <1>6, <1>7

LEMMA ConfirmedKept ==
  ASSUME IInv, Apart, Confirmed, OnlyTaken,
         \A k \in Keys :
           /\ \/ rows'[k] = rows[k] \/ rows'[k] = NoRow \/ rows'[k].failed
              \/ rows[k] # NoRow /\ rows'[k].policy = rows[k].policy /\ rows'[k].failed = rows[k].failed
                 /\ rows'[k].desired = rows[k].desired /\ rows'[k].observed = rows[k].observed
           /\ Unwritten(k)' => Unwritten(k) /\ copies' = copies
           /\ AtWrite(k) => UNCHANGED <<stage, key>> \/ rows'[k] = NoRow \/ rows'[k].failed,
         stage' \in {"putrow", "applied", "record"} =>
           stage \in {"putrow", "applied", "record"} /\ UNCHANGED <<made, key, plan>>
  PROVE  Confirmed'
<1>1. ASSUME NEW k \in Keys PROVE RowConfirmed(k)'
  <2>1. CASE rows'[k] = NoRow
    BY <2>1 DEF RowConfirmed
  <2>2. CASE rows'[k] # NoRow
    <3>1. RowConfirmed(k)
      BY DEF Confirmed
    <3>2. \A q \in DOMAIN gateway : /\ q \in DOMAIN gateway'
                                    /\ gateway'[q] = gateway[q] \/ gateway'[q].content \in {"edited", "gone"}
      BY DEF OnlyTaken
    <3>3. AtWrite(k) => AtWrite(k)' \/ rows'[k] = NoRow \/ rows'[k].failed
      BY DEF AtWrite
    <3>4. \/ rows'[k] = NoRow \/ rows'[k].failed
          \/ rows[k] # NoRow /\ rows'[k].policy = rows[k].policy /\ rows'[k].failed = rows[k].failed
             /\ rows'[k].desired = rows[k].desired /\ rows'[k].observed = rows[k].observed
      BY <2>2
    <3>5. QED
      BY <3>1, <3>2, <3>3, <3>4, RowKept
  <2>3. QED
    BY <2>1, <2>2
<1>2. MadeConfirmed'
  <2>1. PICK m : m = made
    OBVIOUS
  <2>2. CASE stage' \in {"putrow", "applied", "record"}
    <3>1. Says(gateway[m].content, plan[key]) /\ m \in DOMAIN gateway
      <4>1. stage \in {"putrow", "applied", "record"}
        BY <2>2
      <4>2. m # 0 /\ m \in 0..Len(gateway)
        BY <2>1, <4>1 DEF Apart, HoldersApart, IInv, PassTypes
      <4>3. QED
        BY <2>1, <4>1, <4>2, Types DEF Confirmed, MadeConfirmed
    <3>2. Says(gateway'[m].content, plan[key])
      BY <3>1 DEF OnlyTaken, Says
    <3>3. QED
      BY <2>1, <2>2, <3>2 DEF MadeConfirmed
  <2>3. QED
    BY <2>2 DEF MadeConfirmed
<1>3. QED
  BY <1>1, <1>2 DEF Confirmed

\* A step of the pass that changes neither a record nor what a policy says.
LEMMA QuietStepConfirmed ==
  ASSUME IInv, Apart, Confirmed, OnlyTaken, UNCHANGED <<rows, copies, kind>>,
         stage \notin {"off", "putrow", "error"}, stage' \notin {"off", "listed", "putrow", "applied", "record"},
         stage' \in Writing \cup {"apply"} => stage \in Writing \cup {"apply"} /\ todo' \subseteq todo,
         stage' # "plan" \/ stage = "listed"
  PROVE  Confirmed'
<1>1. \A k \in Keys : Unwritten(k)' => Unwritten(k) /\ copies' = copies
  <2> SUFFICES ASSUME NEW k \in Keys, Unwritten(k)' PROVE Unwritten(k)
    OBVIOUS
  <2>1. CASE stage' \in Writing \cup {"apply"} /\ k \in todo'
    BY <2>1 DEF Unwritten
  <2>2. CASE Later(k)'
    BY <2>2 DEF Unwritten, Later
  <2>3. CASE stage' = "plan"
    BY <2>3 DEF Unwritten
  <2>4. QED
    BY <2>1, <2>2, <2>3 DEF Unwritten
<1>2. \A k \in Keys : ~AtWrite(k)
  BY DEF AtWrite
<1>3. QED
  BY <1>1, <1>2, ConfirmedKept

LEMMA ListConfirmed == ASSUME IInv, Apart, Confirmed, ListPolicies PROVE Confirmed'
<1>1. /\ stage = "off" /\ stage' = "listed" /\ copies' = gateway
      /\ UNCHANGED <<gateway, rows>>
  BY DEF ListPolicies
<1>2. ASSUME NEW k \in Keys PROVE RowConfirmed(k)'
  BY <1>1 DEF Confirmed, RowConfirmed, Truthful, AtWrite
<1>3. MadeConfirmed'
  BY <1>1 DEF MadeConfirmed
<1>4. QED
  BY <1>2, <1>3 DEF Confirmed

LEMMA SettleConfirmed == ASSUME IInv, Apart, Confirmed, SettleLostCreates PROVE Confirmed'
<1>1. stage = "listed" /\ stage' = "plan" /\ UNCHANGED <<gateway, rows, copies, kind>>
  BY DEF SettleLostCreates, SettleLostCreatesBy
<1>2. QED
  BY <1>1, SameGatewayTaken, QuietStepConfirmed DEF Writing

LEMMA PlanConfirmed == ASSUME IInv, Apart, Confirmed, Plan PROVE Confirmed'
<1>1. /\ stage = "plan" /\ stage' = "apply" /\ todo' = {k \in Half : desired[k] \in Contents}
      /\ UNCHANGED <<gateway, rows, copies, kind>>
  BY DEF Plan
<1>2. \A k \in Keys : Unwritten(k)' => Unwritten(k) /\ copies' = copies
  BY <1>1 DEF Unwritten, Later, Half, IInv, PassTypes, Writing
<1>3. \A k \in Keys : ~AtWrite(k)
  BY <1>1 DEF AtWrite
<1>4. QED
  BY <1>1, <1>2, <1>3, SameGatewayTaken, ConfirmedKept

\* Once a pass has stopped, it has nothing left to write.
LEMMA StopConfirmed ==
  ASSUME IInv, Apart, Confirmed, Stop, UNCHANGED <<gateway, rows>>,
         stage \in {"putrow", "error"} => rows[key] = NoRow
  PROVE  Confirmed'
<1>1. stage' = "off"
  BY DEF Stop
<1>2. \A k \in Keys : Unwritten(k)' => Unwritten(k) /\ copies' = copies
  BY <1>1 DEF Unwritten, Later, Writing
<1>3. \A k \in Keys : AtWrite(k) => rows'[k] = NoRow
  BY DEF AtWrite
<1>4. QED
  BY <1>1, <1>2, <1>3, SameGatewayTaken, ConfirmedKept

\* A row as wanted, with no write of it failed, is never found observed otherwise.
LEMMA UnchangedConfirmed == ASSUME IInv, Apart, Confirmed, NEW k \in Keys, Unchanged(k) PROVE Confirmed'
<1>1. /\ stage = "apply" /\ k \in todo /\ AsWanted(k) /\ seen[k] # NoRow /\ UNCHANGED <<gateway, Others>>
  BY DEF Unchanged, AsWanted, OnGateway
<1>2. Fresh(k) /\ SameRow(k)
  BY <1>1 DEF Fresh, Apart, PassReads, Half, Writing
<1>3. rows[k] # NoRow => seen[k].observed = plan[k]
  <2>1. rows[k] # NoRow => ~rows[k].failed /\ rows[k].desired = plan[k] /\ rows[k].observed = seen[k].observed
    BY <1>1, <1>2 DEF SameRow, AsWanted
  <2>2. QED
    BY <2>1 DEF Confirmed, RowConfirmed, Truthful
<1>4. \/ Stop /\ UNCHANGED rows
      \/ /\ UNCHANGED <<rows, stage, copies, kind>> /\ todo' = todo \ {k}
  BY <1>1, <1>3 DEF Unchanged, WriteRow
<1>5. CASE Stop /\ UNCHANGED rows
  BY <1>1, <1>5, StopConfirmed
<1>6. CASE /\ UNCHANGED <<rows, stage, copies, kind>> /\ todo' = todo \ {k}
  BY <1>1, <1>6, SameGatewayTaken, QuietStepConfirmed DEF Writing
<1>7. QED
  BY <1>4, <1>5, <1>6

LEMMA StartUpdateConfirmed == ASSUME IInv, Apart, Confirmed, NEW k \in Keys, StartUpdate(k) PROVE Confirmed'
<1> DEFINE row == [rows[k] EXCEPT !.drift = TRUE]
<1>1. stage = "apply" /\ k \in todo /\ seen[k] # NoRow /\ UNCHANGED gateway
  BY DEF StartUpdate, OnGateway
<1>2. \/ Stop /\ UNCHANGED rows
      \/ /\ stage' = "put" /\ UNCHANGED <<kind, copies, todo>>
         /\ UNCHANGED rows \/ (rows[k] # NoRow /\ rows' = [rows EXCEPT ![k] = row])
  BY <1>1 DEF StartUpdate, WriteRow
<1>3. CASE Stop /\ UNCHANGED rows
  BY <1>1, <1>3, StopConfirmed
<1>4. CASE stage' = "put" /\ UNCHANGED <<kind, copies, todo, rows>>
  BY <1>1, <1>4, SameGatewayTaken, QuietStepConfirmed DEF Writing
<1>5. CASE /\ stage' = "put" /\ UNCHANGED <<kind, copies, todo>>
           /\ rows[k] # NoRow /\ rows' = [rows EXCEPT ![k] = row]
  <2>1. rows[k] \in Rows /\ rows'[k] = row /\ \A j \in Keys : j # k => rows'[j] = rows[j]
    BY <1>5, Types
  <2>2. /\ rows'[k].policy = rows[k].policy /\ rows'[k].failed = rows[k].failed
        /\ rows'[k].desired = rows[k].desired /\ rows'[k].observed = rows[k].observed
    BY <2>1 DEF Rows
  <2> HIDE DEF row
  <2>3. \A j \in Keys : Unwritten(j)' => Unwritten(j) /\ copies' = copies
    BY <1>1, <1>5 DEF Unwritten, Later, Writing
  <2>4. \A j \in Keys : ~AtWrite(j)
    BY <1>1 DEF AtWrite
  <2>5. \A j \in Keys :
          \/ rows'[j] = rows[j]
          \/ rows[j] # NoRow /\ rows'[j].policy = rows[j].policy /\ rows'[j].failed = rows[j].failed
             /\ rows'[j].desired = rows[j].desired /\ rows'[j].observed = rows[j].observed
    BY <1>5, <2>1, <2>2
  <2>6. QED
    BY <1>1, <1>5, <2>3, <2>4, <2>5, SameGatewayTaken, ConfirmedKept
<1>6. QED
  BY <1>2, <1>3, <1>4, <1>5

\* A policy put back says what is planned, whichever way its answer went.
LEMMA PutConfirmed == ASSUME IInv, Apart, Confirmed, Put \/ PutFails PROVE Confirmed'
<1>0. /\ stage = "put" /\ key \in Keys /\ key \in todo /\ plan[key] \in Contents /\ seen[key] # NoRow
      /\ stage' \in {"putrow", "error", "create"}
      /\ UNCHANGED <<rows, kind, copies, plan, seen, todo, key>>
      /\ stage' = "putrow" => made' = seen[key].policy /\ seen[key].policy \in LiveIds
  BY DEF Put, PutFails, IInv, PassStages, Apart, PassReads, Writing
<1>1. CASE UNCHANGED gateway /\ stage' # "putrow"
  BY <1>0, <1>1, SameGatewayTaken, QuietStepConfirmed DEF Writing
<1>2. CASE /\ seen[key].policy \in LiveIds /\ gateway' = PutBack(gateway, seen[key].policy, plan[key])
           /\ stage' \in {"putrow", "error"}
  <2> PICK p \in Nat : p = seen[key].policy
    BY <1>0, Types
  <2> PICK x \in Keys : x = key
    BY <1>0
  <2>1. /\ DOMAIN gateway' = DOMAIN gateway /\ gateway'[p].content = plan[key]
        /\ \A q \in DOMAIN gateway : q # p => gateway'[q] = gateway[q]
    BY <1>0, <1>2, PutFacts
  <2>2. Names(x, p)
    BY <1>0, <1>2, LiveFacts DEF Names
  <2>3. ASSUME NEW k \in Keys PROVE RowConfirmed(k)'
    <3>1. RowConfirmed(k)
      BY DEF Confirmed
    <3>2. rows[k] # NoRow /\ rows[k].policy = p => k = x
      <4>1. p # 0
        BY <2>2 DEF Names
      <4>2. rows[k] # NoRow /\ rows[k].policy = p => Names(k, p)
        BY <4>1 DEF Names
      <4>3. QED
        BY <2>2, <4>2 DEF Apart, HoldersApart
    <3>3. AtWrite(x)'
      BY <1>0, <1>2 DEF AtWrite
    <3>4. \A q \in DOMAIN gateway : rows[k] # NoRow /\ q = rows[k].policy =>
            q \in DOMAIN gateway' /\ (gateway'[q] = gateway[q] \/ AtWrite(k)')
      BY <2>1, <3>2, <3>3
    <3>5. Unwritten(k)' => Unwritten(k) /\ copies' = copies
      BY <1>0, <1>2 DEF Unwritten, Later, Writing
    <3>6. ~AtWrite(k)
      BY <1>0 DEF AtWrite
    <3>7. \/ rows'[k] = NoRow
          \/ rows[k] # NoRow /\ rows'[k].policy = rows[k].policy /\ rows'[k].failed = rows[k].failed
             /\ rows'[k].desired = rows[k].desired /\ rows'[k].observed = rows[k].observed
      BY <1>0
    <3>8. QED
      BY <3>1, <3>4, <3>5, <3>6, <3>7, RowKept
  <2>4. MadeConfirmed'
    BY <1>0, <1>2, <2>1 DEF MadeConfirmed, Says
  <2>5. QED
    BY <2>3, <2>4 DEF Confirmed
<1>3. QED
  BY <1>0, <1>1, <1>2 DEF Put, PutFails

\* A step at the write of a key that has its policy by then.
LEMMA MakeConfirmed ==
  ASSUME IInv, Apart, Confirmed, OnlyTaken, UNCHANGED <<rows, copies, kind, todo>>,
         stage \in Writing \ {"putrow", "error"}, stage' \in {"applied", "record"},
         Says(gateway'[made'].content, plan'[key'])
  PROVE  Confirmed'
<1>1. ASSUME NEW k \in Keys PROVE RowConfirmed(k)'
  <2>1. RowConfirmed(k)
    BY DEF Confirmed
  <2>2. \A q \in DOMAIN gateway : /\ q \in DOMAIN gateway'
                                  /\ gateway'[q] = gateway[q] \/ gateway'[q].content \in {"edited", "gone"}
    BY DEF OnlyTaken
  <2>3. Unwritten(k)' => Unwritten(k) /\ copies' = copies
    BY DEF Unwritten, Later, Writing
  <2>4. ~AtWrite(k)
    BY DEF AtWrite
  <2>5. \/ rows'[k] = NoRow
        \/ rows[k] # NoRow /\ rows'[k].policy = rows[k].policy /\ rows'[k].failed = rows[k].failed
           /\ rows'[k].desired = rows[k].desired /\ rows'[k].observed = rows[k].observed
    OBVIOUS
  <2>6. QED
    BY <2>1, <2>2, <2>3, <2>4, <2>5, RowKept
<1>2. MadeConfirmed'
  BY DEF MadeConfirmed
<1>3. QED
  BY <1>1, <1>2 DEF Confirmed

LEMMA ReclaimConfirmed == ASSUME IInv, Apart, Confirmed, Reclaim PROVE Confirmed'
<1>1. /\ stage = "create" /\ stage' = "record"
      /\ UNCHANGED <<gateway, rows, kind, copies, plan, todo, key>>
  BY DEF Reclaim
<1>2. PICK p \in adopted : made' = p /\ Reclaims(copies[p], key, plan[key])
  BY DEF Reclaim
<1>3. copies[p].content = plan[key]
  BY <1>2 DEF Reclaims
<1>4. Says(gateway[p].content, plan[key])
  BY <1>3 DEF Apart, CopiesRead
<1>5. Says(gateway'[made'].content, plan'[key'])
  BY <1>1, <1>2, <1>4
<1>6. QED
  BY <1>1, <1>5, SameGatewayTaken, MakeConfirmed DEF Writing

LEMMA PostConfirmed == ASSUME IInv, Apart, Confirmed, Post PROVE Confirmed'
<1>1. /\ stage = "post" /\ stage' = "applied" /\ made' = Len(gateway')
      /\ gateway' = Append(gateway, [key |-> key, content |-> plan[key]])
      /\ UNCHANGED <<rows, kind, copies, plan, todo, key>>
  BY DEF Post
<1>2. OnlyTaken /\ gateway'[Len(gateway')] = [key |-> key, content |-> plan[key]]
  BY <1>1, AppendFacts
<1>3. Says(gateway'[made'].content, plan'[key'])
  BY <1>1, <1>2 DEF Says
<1>4. QED
  BY <1>1, <1>2, <1>3, MakeConfirmed DEF Writing

LEMMA PostFailsConfirmed == ASSUME IInv, Apart, Confirmed, PostFails PROVE Confirmed'
<1>1. /\ stage = "post" /\ stage' = "error" /\ UNCHANGED <<rows, kind, copies, todo>>
      /\ gateway' = Append(gateway, [key |-> key, content |-> plan[key]]) \/ UNCHANGED gateway
  BY DEF PostFails
<1>2. OnlyTaken
  BY <1>1, AppendFacts, SameGatewayTaken
<1>3. QED
  BY <1>1, <1>2, QuietStepConfirmed DEF Writing

LEMMA ApplyOperationConfirmed == ASSUME IInv, Apart, Confirmed, ApplyOperation PROVE Confirmed'
<1>1. /\ stage = "applied" /\ stage' = "record"
      /\ UNCHANGED <<gateway, rows, kind, copies, plan, todo, key, made>>
  BY DEF ApplyOperation
<1>2. Says(gateway'[made'].content, plan'[key'])
  BY <1>1 DEF Confirmed, MadeConfirmed
<1>3. QED
  BY <1>1, <1>2, SameGatewayTaken, MakeConfirmed DEF Writing

\* Where the pass stops over a row it read, the row has gone.
LEMMA StopsWithoutRow ==
  ASSUME IInv, Apart, stage \in Writing,
         ~(IF seen[key] # NoRow THEN rows[key] # NoRow ELSE rows[key] = NoRow /\ desired[key] # "deleted")
  PROVE  rows[key] = NoRow
<1>1. Fresh(key) /\ SameRow(key)
  <2>1. key \in Keys /\ key \in todo /\ todo \subseteq Half
    BY DEF IInv, PassStages, Apart, PassReads
  <2>2. QED
    BY <2>1 DEF Fresh, Apart, PassReads
<1>2. QED
  BY <1>1 DEF SameRow

LEMMA RecordConfirmed == ASSUME IInv, Apart, Confirmed, RecordPolicy PROVE Confirmed'
<1>0. /\ stage \in {"putrow", "record"} /\ key \in Keys /\ key \in todo /\ plan[key] \in Contents
      /\ todo \subseteq Half /\ UNCHANGED <<gateway, Others>>
  BY DEF RecordPolicy, IInv, PassStages, Apart, PassReads, Writing
<1>1. CASE Stop /\ UNCHANGED rows /\ rows[key] = NoRow
  BY <1>0, <1>1, StopConfirmed
<1>2. CASE rows' = [rows EXCEPT ![key] = Clean(key)] /\ Proceed
  <2>1. /\ stage' = "apply" /\ todo' = todo \ {key} /\ UNCHANGED <<kind, copies>>
    BY <1>2 DEF Proceed
  <2> PICK m : m = made
    OBVIOUS
  <2> PICK x \in Keys : x = key
    BY <1>0
  <2>2. /\ rows'[x].policy = m /\ rows'[x].desired = plan[x] /\ rows'[x].observed = plan[x]
        /\ \A k \in Keys : k # x => rows'[k] = rows[k]
    <3>1. rows'[x] = Clean(x) /\ \A k \in Keys : k # x => rows'[k] = rows[k]
      BY <1>2, Types
    <3>2. QED
      BY <3>1 DEF Clean
  <2>3. m \in DOMAIN gateway /\ m # 0 /\ Says(gateway[m].content, plan[x])
    <3>1. m # 0
      BY <1>0 DEF Apart, HoldersApart
    <3>2. m \in 0..Len(gateway)
      BY DEF IInv, PassTypes
    <3>3. QED
      BY <1>0, <3>1, <3>2, Types DEF Confirmed, MadeConfirmed
  <2>4. ~Unwritten(x)'
    BY <1>0, <2>1 DEF Unwritten, Later, Half
  <2>5. RowConfirmed(x)'
    <3>1. Truthful(rows[x])'
      BY <1>0, <2>2, <2>3 DEF Truthful
    <3>2. Says(gateway[rows[x].policy].content, rows[x].desired)'
      BY <1>0, <2>2, <2>3
    <3>3. QED
      BY <2>4, <3>1, <3>2 DEF RowConfirmed
  <2>6. ASSUME NEW k \in Keys, k # x PROVE RowConfirmed(k)'
    <3>1. RowConfirmed(k) /\ ~AtWrite(k) /\ rows'[k] = rows[k]
      BY <2>2, <2>6 DEF Confirmed, AtWrite
    <3>2. Unwritten(k)' => Unwritten(k) /\ copies' = copies
      BY <1>0, <2>1 DEF Unwritten, Later, Writing
    <3>3. \A q \in DOMAIN gateway : q \in DOMAIN gateway' /\ gateway'[q] = gateway[q]
      BY <1>0
    <3>4. \/ rows'[k] = NoRow
          \/ rows[k] # NoRow /\ rows'[k].policy = rows[k].policy /\ rows'[k].failed = rows[k].failed
             /\ rows'[k].desired = rows[k].desired /\ rows'[k].observed = rows[k].observed
      BY <3>1
    <3>5. QED
      BY <3>1, <3>2, <3>3, <3>4, RowKept
  <2>7. MadeConfirmed'
    BY <2>1 DEF MadeConfirmed
  <2>8. QED
    BY <2>5, <2>6, <2>7 DEF Confirmed
<1>3. QED
  <2>1. stage \in Writing
    BY <1>0 DEF Writing
  <2>2. QED
    BY <1>1, <1>2, <2>1, StopsWithoutRow DEF RecordPolicy, WriteRow

LEMMA WriteErrorConfirmed == ASSUME IInv, Apart, Confirmed, WriteError PROVE Confirmed'
<1>0. /\ stage = "error" /\ stage \in Writing /\ key \in Keys /\ key \in todo /\ plan[key] \in Contents
      /\ UNCHANGED <<gateway, Others>>
  BY DEF WriteError, IInv, PassStages, Apart, PassReads, Writing
<1>1. CASE Stop /\ UNCHANGED rows /\ rows[key] = NoRow
  BY <1>0, <1>1, StopConfirmed
<1>2. CASE /\ rows' = [rows EXCEPT ![key] = ErrorRow(key, TRUE)] /\ Proceed
           /\ seen[key] # NoRow => rows[key] # NoRow
  <2>1. /\ stage' = "apply" /\ todo' = todo \ {key} /\ UNCHANGED <<kind, copies>>
    BY <1>2 DEF Proceed
  <2> PICK x \in Keys : x = key
    BY <1>0
  <2>2. rows'[x] = ErrorRow(x, TRUE) /\ \A k \in Keys : k # x => rows'[k] = rows[k]
    BY <1>2, Types
  <2>3. rows'[x].failed
    <3>1. CASE seen[x] = NoRow
      BY <2>2, <3>1 DEF ErrorRow
    <3>2. CASE seen[x] # NoRow
      <4>1. rows[x] \in Rows
        BY <1>2, <3>2, Types
      <4>2. PICK drift : ErrorRow(x, TRUE) = [rows[x] EXCEPT !.failed = TRUE, !.desired = plan[x], !.drift = drift]
        BY <3>2 DEF ErrorRow
      <4>3. [rows[x] EXCEPT !.failed = TRUE, !.desired = plan[x], !.drift = drift].failed
        BY <4>1 DEF Rows
      <4>4. QED
        BY <2>2, <4>2, <4>3
    <3>3. QED
      BY <3>1, <3>2
  <2>4. \A k \in Keys : Unwritten(k)' => Unwritten(k) /\ copies' = copies
    BY <1>0, <2>1 DEF Unwritten, Later, Writing
  <2>5. \A k \in Keys : AtWrite(k) => rows'[k].failed
    BY <2>3 DEF AtWrite
  <2>6. \A k \in Keys : rows'[k] = rows[k] \/ rows'[k].failed
    BY <2>2, <2>3
  <2>7. QED
    BY <1>0, <2>1, <2>4, <2>5, <2>6, SameGatewayTaken, ConfirmedKept
<1>3. QED
  BY <1>0, <1>1, <1>2, StopsWithoutRow DEF WriteError, WriteRow

LEMMA DropRowConfirmed == ASSUME IInv, Apart, Confirmed, DropRow PROVE Confirmed'
<1>0. stage \in {"deleterow", "deleteerror"} /\ key \in Keys /\ UNCHANGED <<gateway, Others>>
  BY DEF DropRow, IInv, PassStages, Deleting
<1>1. CASE Stop /\ UNCHANGED rows
  BY <1>0, <1>1, StopConfirmed
<1>2. CASE rows[key] # NoRow
  <2>1. /\ stage' = "remove" /\ UNCHANGED <<kind, copies>>
        /\ rows' = [rows EXCEPT ![key] = IF stage = "deleterow" THEN NoRow ELSE [@ EXCEPT !.failed = TRUE]]
    BY <1>2 DEF DropRow
  <2> PICK x \in Keys : x = key
    BY <1>0
  <2>2. rows[x] \in Rows
    BY <1>2, Types
  <2>3. [rows[x] EXCEPT !.failed = TRUE].failed
    BY <2>2 DEF Rows
  <2>4. rows'[x] = NoRow \/ rows'[x].failed
    BY <2>1, <2>3, Types
  <2>5. \A k \in Keys : rows'[k] = rows[k] \/ rows'[k] = NoRow \/ rows'[k].failed
    BY <2>1, <2>4, Types
  <2>6. \A k \in Keys : Unwritten(k)' => Unwritten(k) /\ copies' = copies
    BY <1>0, <2>1 DEF Unwritten, Later, Writing
  <2>7. \A k \in Keys : ~AtWrite(k)
    BY <1>0 DEF AtWrite
  <2>8. QED
    BY <1>0, <2>1, <2>5, <2>6, <2>7, SameGatewayTaken, ConfirmedKept
<1>3. QED
  BY <1>1, <1>2 DEF DropRow

LEMMA EndHalfConfirmed == ASSUME IInv, Apart, Confirmed, EndHalf PROVE Confirmed'
<1>1. /\ stage = "remove" /\ UNCHANGED <<gateway, rows, copies>>
      /\ (stage' = "plan" /\ kind = "owners" /\ kind' = "rules") \/ (stage' = "sweep" /\ kind' = kind)
  BY DEF EndHalf
<1>2. \A k \in Keys : Unwritten(k)' => Unwritten(k) /\ copies' = copies
  BY <1>1 DEF Unwritten, Later, Writing
<1>3. \A k \in Keys : ~AtWrite(k)
  BY <1>1 DEF AtWrite
<1>4. QED
  BY <1>1, <1>2, <1>3, SameGatewayTaken, ConfirmedKept

LEMMA TakingConfirmed ==
  ASSUME IInv, Apart, Confirmed,
         \/ Delete \/ DeleteFails
         \/ \E i \in DOMAIN ops : Sweep(i) \/ SweepFails(i)
  PROVE  Confirmed'
<1>1. CASE Delete \/ DeleteFails
  <2>1. /\ stage = "delete" /\ stage' \in {"deleterow", "deleteerror"} /\ UNCHANGED <<rows, copies, kind>>
        /\ gateway' \in {gateway, DeleteFrom(gateway, seen[key].policy)}
    BY <1>1 DEF Delete, DeleteFails
  <2>2. seen[key].policy # 1
    BY <2>1 DEF IInv, PassStages, PassTypes, GoodRows, Deleting
  <2>3. OnlyTaken
    BY <2>1, <2>2, DeleteFacts
  <2>4. QED
    BY <2>1, <2>3, QuietStepConfirmed DEF Writing
<1>2. ASSUME NEW i \in DOMAIN ops, Sweep(i) \/ SweepFails(i) PROVE Confirmed'
  <2>1. /\ stage = "sweep" /\ stage' = "sweep" /\ UNCHANGED <<rows, copies, kind>>
        /\ gateway' \in {gateway, DeleteFrom(gateway, ops[i].policy)}
    BY <1>2 DEF Sweep, SweepFails
  <2>2. OnlyTaken
    BY <2>1, OpOfSeq, DeleteFacts DEF IInv, World
  <2>3. QED
    BY <2>1, <2>2, QuietStepConfirmed DEF Writing
<1>3. QED
  BY <1>1, <1>2

\* The steps that change neither the gateway nor a record.
LEMMA MovingConfirmed ==
  ASSUME IInv, Apart, Confirmed,
         \/ OpenCreate \/ EndApply \/ EndSweep
         \/ \E k \in Keys : StartCreate(k) \/ StartRemove(k)
  PROVE  Confirmed'
<1>1. /\ UNCHANGED <<gateway, rows, copies, kind>>
      /\ \/ stage = "create" /\ stage' = "post" /\ todo' = todo
         \/ stage = "apply" /\ stage' = "remove"
         \/ stage = "sweep" /\ stage' = "end"
         \/ stage = "apply" /\ stage' = "create" /\ todo' = todo
         \/ stage = "remove" /\ stage' \in {"delete", "deleterow"}
  BY DEF OpenCreate, OpenCreateAs, EndApply, EndSweep, StartCreate, StartRemove
<1>2. QED
  BY <1>1, SameGatewayTaken, QuietStepConfirmed DEF Writing

LEMMA MeanwhileConfirmed == ASSUME IInv, Apart, Confirmed, Meanwhile \/ UNCHANGED vars PROVE Confirmed'
<1>1. /\ OnlyTaken /\ UNCHANGED <<stage, kind, copies, plan, todo, key, made>>
      /\ \A k \in Keys : rows'[k] = rows[k] \/ rows'[k] = NoRow
  BY MeanwhileTaken DEF passVars
<1>2. \A k \in Keys : Unwritten(k)' => Unwritten(k) /\ copies' = copies
  BY <1>1 DEF Unwritten, Later
<1>3. QED
  BY <1>1, <1>2, ConfirmedKept

\* Whatever a pass does as long as its process lives.
LEMMA StepsConfirmed == ASSUME IInv, Apart, Confirmed, [Next]_vars, ~crashed' PROVE Confirmed'
<1>1. CASE Meanwhile \/ UNCHANGED vars
  BY <1>1, MeanwhileConfirmed
<1>2. CASE PassStep
  <2>1. EndPass => Confirmed'
    BY StopConfirmed DEF EndPass
  <2>2. QED
    BY <1>2, <2>1, ListConfirmed, SettleConfirmed, PlanConfirmed, UnchangedConfirmed, StartUpdateConfirmed,
       PutConfirmed, ReclaimConfirmed, PostConfirmed, ApplyOperationConfirmed, RecordConfirmed,
       WriteErrorConfirmed, DropRowConfirmed, EndHalfConfirmed, TakingConfirmed, MovingConfirmed
    DEF PassStep
<1>3. CASE PassFault
  BY <1>3, PutConfirmed, PostFailsConfirmed, TakingConfirmed DEF PassFault, Crash
<1>4. QED
  BY <1>1, <1>2, <1>3 DEF Next

----------------------------------------------------------------------------
(* What is noted as changed on the console was                             *)

\* Only a pass about to put a policy back notes a drift that was not noted.
LEMMA DriftOnlyNoted ==
  ASSUME IInv, [Next]_vars, NEW k \in Keys, DriftNoted(k)', ~DriftNoted(k)
  PROVE  StartUpdate(k) /\ AsWanted(k) /\ rows[k] # NoRow
<1>1. rows'[k] # NoRow /\ rows'[k].drift /\ ~(rows[k] # NoRow /\ rows[k].drift)
  BY DEF DriftNoted
<1>2. ~(Meanwhile \/ UNCHANGED vars)
  BY <1>1, MeanwhileTaken
<1>3. ~UNCHANGED rows
  BY <1>1
<1>4. ~PassFault
  BY <1>3 DEF PassFault, PutFails, PostFails, DeleteFails, Crash, SweepFails
<1>5. ASSUME NEW j \in Keys, Unchanged(j) PROVE FALSE
  <2>1. rows[j] # NoRow /\ rows' = [rows EXCEPT ![j] = [rows[j] EXCEPT !.observed = plan[j]]]
    BY <1>3, <1>5 DEF Unchanged, WriteRow, AsWanted, OnGateway
  <2>2. rows[j] \in Rows
    BY <2>1, Types
  <2>3. [rows[j] EXCEPT !.observed = plan[j]].drift = rows[j].drift
    BY <2>2 DEF Rows
  <2>4. QED
    BY <1>1, <2>1, <2>3, Types
<1>6. ~RecordPolicy
  <2> SUFFICES ASSUME RecordPolicy PROVE FALSE
    OBVIOUS
  <2>1. rows' = [rows EXCEPT ![key] = Clean(key)]
    BY <1>3 DEF RecordPolicy, WriteRow
  <2>2. Clean(key).drift => rows[key] # NoRow /\ rows[key].drift
    BY DEF Clean
  <2>3. QED
    BY <1>1, <2>1, <2>2, Types
<1>7. ~WriteError
  <2> SUFFICES ASSUME WriteError PROVE FALSE
    OBVIOUS
  <2>1. rows' = [rows EXCEPT ![key] = ErrorRow(key, TRUE)] /\ (seen[key] # NoRow => rows[key] # NoRow)
    BY <1>3 DEF WriteError, WriteRow
  <2>2. k = key /\ rows'[k] = ErrorRow(key, TRUE)
    BY <1>1, <2>1, Types
  <2>3. CASE seen[key] = NoRow
    BY <1>1, <2>2, <2>3 DEF ErrorRow
  <2>4. CASE seen[key] # NoRow
    <3>1. rows[k] \in Rows
      BY <2>1, <2>2, <2>4, Types
    <3> DEFINE drift == rows[k].drift /\ seen[k].desired = plan[k]
    <3>2. rows'[k] = [rows[k] EXCEPT !.failed = TRUE, !.desired = plan[k], !.drift = drift]
      BY <2>2, <2>4 DEF ErrorRow
    <3>3. rows[k].drift \/ ~drift
      OBVIOUS
    <3> HIDE DEF drift
    <3>4. [rows[k] EXCEPT !.failed = TRUE, !.desired = plan[k], !.drift = drift].drift = drift
      BY <3>1 DEF Rows
    <3>5. rows'[k].drift = drift
      BY <3>2, <3>4
    <3>6. QED
      BY <1>1, <2>1, <2>2, <2>4, <3>3, <3>5
  <2>5. QED
    BY <2>3, <2>4
<1>8. ~DropRow
  <2> SUFFICES ASSUME DropRow PROVE FALSE
    OBVIOUS
  <2>1. /\ rows[key] # NoRow
        /\ rows' = [rows EXCEPT ![key] = IF stage = "deleterow" THEN NoRow ELSE [@ EXCEPT !.failed = TRUE]]
    BY <1>3 DEF DropRow
  <2>2. k = key /\ rows'[k] = [rows[k] EXCEPT !.failed = TRUE]
    BY <1>1, <2>1, Types
  <2>3. rows[k] \in Rows
    BY <2>1, <2>2, Types
  <2>4. [rows[k] EXCEPT !.failed = TRUE].drift = rows[k].drift
    BY <2>3 DEF Rows
  <2>5. QED
    BY <1>1, <2>1, <2>2, <2>4
<1>9. PICK j \in Keys : StartUpdate(j)
  <2>1. PassStep
    BY <1>2, <1>4 DEF Next
  <2>2. QED
    BY <1>3, <1>5, <1>6, <1>7, <1>8, <2>1
    DEF PassStep, ListPolicies, SettleLostCreates, SettleLostCreatesBy, Plan, StartCreate, StartRemove, Put,
        Reclaim, OpenCreate, OpenCreateAs, Post, ApplyOperation, EndApply, Delete, EndHalf, Sweep, EndSweep, EndPass
<1>10. AsWanted(j) /\ rows' = [rows EXCEPT ![j] = [rows[j] EXCEPT !.drift = TRUE]]
       /\ (seen[j] # NoRow => rows[j] # NoRow)
  BY <1>3, <1>9 DEF StartUpdate, WriteRow
<1>11. j = k
  BY <1>1, <1>10, Types
<1>12. QED
  BY <1>9, <1>10, <1>11 DEF AsWanted, OnGateway

LEMMA DriftIsTheConsole ==
  ASSUME IInv, Apart, Confirmed, [Next]_vars
  PROVE  ~NotedWithoutConsole
<1> SUFFICES ASSUME NEW k \in Keys, ~DriftNoted(k), DriftNoted(k)'
             PROVE  copies[seen[k].policy].content = "edited"
  BY DEF NotedWithoutConsole
<1>1. StartUpdate(k) /\ AsWanted(k) /\ rows[k] # NoRow
  BY DriftOnlyNoted
<1>2. /\ stage = "apply" /\ k \in todo /\ seen[k] # NoRow /\ seen[k].policy \in on
      /\ seen[k].desired = plan[k] /\ ~seen[k].failed
      /\ seen[k].policy \in DOMAIN copies /\ copies[seen[k].policy].content # plan[k]
  BY <1>1 DEF StartUpdate, AsWanted, OnGateway, Drifted
<1>3. SameRow(k)
  <2>1. Fresh(k)
    BY <1>2 DEF Fresh, Apart, PassReads, Writing
  <2>2. QED
    BY <2>1 DEF Apart, PassReads
<1>4. rows[k].policy = seen[k].policy /\ rows[k].desired = plan[k] /\ ~rows[k].failed
  BY <1>1, <1>2, <1>3 DEF SameRow
<1>5. Unwritten(k)
  BY <1>2 DEF Unwritten
<1>6. Says(copies[seen[k].policy].content, plan[k])
  BY <1>1, <1>2, <1>4, <1>5 DEF Confirmed, RowConfirmed
<1>7. copies[seen[k].policy].content # "gone"
  BY <1>2 DEF Apart, CopiesRead
<1>8. QED
  BY <1>2, <1>6, <1>7 DEF Says

LEMMA AlwaysApart == Spec => [](IInv /\ Apart)
<1>1. Init => IInv /\ Apart
  BY InitInv, InitApart
<1>2. (IInv /\ Apart) /\ [Next]_vars => (IInv /\ Apart)'
  BY StepGood, StepsApart
<1>3. QED
  BY <1>1, <1>2, PTL DEF Spec

\* Nothing raises a process that died; only a crash takes one.
LEMMA CrashedStays == ASSUME [Next]_vars, crashed PROVE crashed'
BY DEF Next, PassStep, PassFault, Meanwhile, vars, Others, ListPolicies, SettleLostCreates,
       SettleLostCreatesBy, Plan, Unchanged, StartUpdate, StartCreate, StartRemove, Put, Reclaim,
       OpenCreate, OpenCreateAs, Post, ApplyOperation, RecordPolicy, WriteError, EndApply, Delete,
       DropRow, EndHalf, Sweep, EndSweep, EndPass, PutFails, PostFails, DeleteFails, Crash, SweepFails,
       Age, LandLate, Wish, RemovePolicies, RemoveRule, ConsoleChange

ConfirmedAlive == ~crashed => Confirmed

LEMMA AlwaysConfirmed == Spec => []ConfirmedAlive
<1>1. Init => ConfirmedAlive
  BY DEF Init, ConfirmedAlive, Confirmed, RowConfirmed, MadeConfirmed
<1>2. (IInv /\ Apart) /\ ConfirmedAlive /\ [Next]_vars => ConfirmedAlive'
  <2> SUFFICES ASSUME IInv, Apart, ConfirmedAlive, [Next]_vars, ~crashed' PROVE Confirmed'
    BY DEF ConfirmedAlive
  <2>1. ~crashed
    BY CrashedStays
  <2>2. QED
    BY <2>1, StepsConfirmed DEF ConfirmedAlive
<1>3. QED
  BY <1>1, <1>2, AlwaysApart, PTL DEF Spec

\* As long as no process died, a policy is noted as changed on the console
\* only when the pass that notes it listed it as someone changed it there.
THEOREM DriftIsTheConsoles == Spec => DriftMeansConsoleAlive
<1>1. (IInv /\ Apart) /\ ConfirmedAlive /\ [Next]_vars => [crashed' \/ ~NotedWithoutConsole]_vars
  <2> SUFFICES ASSUME IInv, Apart, ConfirmedAlive, [Next]_vars, ~crashed' PROVE ~NotedWithoutConsole
    OBVIOUS
  <2>1. ~crashed
    BY CrashedStays
  <2>2. QED
    BY <2>1, DriftIsTheConsole DEF ConfirmedAlive
<1>2. QED
  BY <1>1, AlwaysApart, AlwaysConfirmed, PTL DEF Spec, DriftMeansConsoleAlive

----------------------------------------------------------------------------
(* A pass nobody interferes with                                           *)

\* Keys that are settled for this pass, unless a row is still to be dropped.
Written(k) ==
  \/ kind = "rules" /\ k \notin RuleKeys
  \/ k \in Half /\ stage \notin {"listed", "plan"} /\ (k \notin todo \/ stage \notin Writing \cup {"apply"})

\* A policy the pass matched and has not taken up says what is planned for the key.
Wanting(k) == \E p \in adopted : gateway[p] = [key |-> k, content |-> plan[k]]

\* The key's row holds a policy that is there.
Held(k) == rows[k] # NoRow /\ rows[k].policy \in LiveIds

\* What the pass read is still so, where it has not written itself.
QuietReads ==
  /\ ~removing /\ stage # "off"
  /\ stage \notin {"listed", "plan"} \/ (stage = "plan" /\ kind = "rules") => plan = desired
  /\ \A k \in Keys : Fresh(k) /\ seen[k] # NoRow => rows[k] # NoRow
  /\ stage = "listed" => on \subseteq LiveIds /\ \A p \in DOMAIN copies : gateway[p] = copies[p]
  /\ stage \notin {"listed", "sweep", "end"} => \A p \in adopted : gateway[p] = copies[p]
  /\ \A k \in Keys : Unwritten(k) /\ rows[k] # NoRow /\ rows[k].policy \in on => rows[k].policy \in LiveIds
  /\ stage = "put" => seen[key].policy \in on
  /\ stage \in {"putrow", "applied", "record"} => made \in LiveIds

\* A wanted key that is settled and has a matched policy to take up has one on
\* its row, a failed write of it included.
RowsEnforce == \A k \in Keys : Written(k) /\ plan[k] \in Contents /\ Wanting(k) => Held(k)

ErrorsEnforce == stage \in {"post", "error"} /\ Wanting(key) => seen[key] # NoRow /\ seen[key].policy \in LiveIds

SweepsUnheld == stage = "sweep" => \A i \in sweeping : ~ByRow(ops[i].policy)

QuietInv == quiet => QuietReads /\ RowsEnforce /\ ErrorsEnforce /\ SweepsUnheld

\* The reads of a pass stay as they were while it writes and removes.
LEMMA ReadsQuiet ==
  ASSUME QuietReads, stage \notin {"listed", "plan"}, stage' \notin {"off", "listed"},
         UNCHANGED <<desired, removing, plan, copies, seen>>, adopted' \subseteq adopted,
         \A k \in Keys : Fresh(k)' => Fresh(k) /\ (rows[k] # NoRow => rows'[k] # NoRow),
         stage' \notin {"sweep", "end"} =>
           stage \notin {"sweep", "end"} /\ \A p \in adopted' : gateway'[p] = gateway[p],
         \A k \in Keys : Unwritten(k)' /\ rows'[k] # NoRow =>
           /\ Unwritten(k) /\ rows[k] # NoRow /\ rows'[k].policy = rows[k].policy
           /\ rows[k].policy \in on' => rows[k].policy \in on
           /\ rows[k].policy \in LiveIds => rows[k].policy \in LiveIds',
         stage' = "put" => seen[key'].policy \in on',
         stage' \in {"putrow", "applied", "record"} => made' \in LiveIds'
  PROVE  QuietReads'
<1>1. \A k \in Keys : Fresh(k)' /\ seen'[k] # NoRow => rows'[k] # NoRow
  BY DEF QuietReads
<1>2. stage' \notin {"listed", "sweep", "end"} => \A p \in adopted' : gateway'[p] = copies'[p]
  BY DEF QuietReads
<1>3. \A k \in Keys : Unwritten(k)' /\ rows'[k] # NoRow /\ rows'[k].policy \in on' => rows'[k].policy \in LiveIds'
  BY DEF QuietReads
<1>4. ~removing' /\ stage' # "off" /\ plan' = desired'
  BY DEF QuietReads
<1>5. stage' = "put" => seen'[key'].policy \in on'
  OBVIOUS
<1>6. QED
  BY <1>1, <1>2, <1>3, <1>4, <1>5 DEF QuietReads

\* What is taken up stays so where no record is written and nothing on record deleted.
LEMMA EnforceKept ==
  ASSUME RowsEnforce, UNCHANGED plan,
         \A k \in Keys : plan[k] \in Contents /\ Wanting(k)' => Wanting(k),
         \A k \in Keys : Written(k)' /\ plan[k] \in Contents /\ Wanting(k) =>
           Held(k)' \/ (Written(k) /\ (Held(k) => Held(k)'))
  PROVE  RowsEnforce'
<1> SUFFICES ASSUME NEW k \in Keys, Written(k)', plan'[k] \in Contents, Wanting(k)'
             PROVE  Held(k)'
  BY DEF RowsEnforce
<1>1. plan[k] \in Contents /\ Wanting(k)
  OBVIOUS
<1>2. QED
  BY <1>1 DEF RowsEnforce

LEMMA ListQuiet == ASSUME IInv, Apart, ListPolicies, quiet' PROVE QuietInv'
<1>1. /\ stage = "off" /\ stage' = "listed" /\ copies' = gateway /\ on' = LiveIds /\ ~removing
      /\ UNCHANGED <<gateway, rows, kind, todo, removing>>
  BY DEF ListPolicies, Others
<1>2. kind' = "owners"
  BY <1>1 DEF Apart, PassReads
<1>3. LiveIds' = LiveIds
  BY <1>1 DEF LiveIds
<1>4. \A k \in Keys : ~Written(k)' /\ ~Fresh(k)'
  BY <1>1, <1>2 DEF Written, Fresh, Writing, Deleting
<1>5. QuietReads'
  BY <1>1, <1>3, <1>4 DEF QuietReads
<1>6. RowsEnforce' /\ ErrorsEnforce' /\ SweepsUnheld'
  BY <1>1, <1>4 DEF RowsEnforce, ErrorsEnforce, SweepsUnheld
<1>7. QED
  BY <1>5, <1>6 DEF QuietInv

LEMMA SettleQuiet == ASSUME IInv, Apart, SettleLostCreates, QuietReads PROVE QuietInv'
<1>1. PICK match \in [Pending -> on \cup {0}] :
        Matches(match, Carries) /\ adopted' = {match[i] : i \in Pending} \ {0}
  BY DEF SettleLostCreates, SettleLostCreatesBy
<1>2. /\ stage = "listed" /\ stage' = "plan"
      /\ UNCHANGED <<gateway, rows, kind, copies, on, seen, todo, removing>>
  BY DEF SettleLostCreates, SettleLostCreatesBy, Others
<1>3. kind' = "owners" /\ LiveIds' = LiveIds
  BY <1>2 DEF Apart, PassReads, LiveIds
<1>4. \A k \in Keys : ~Written(k)' /\ ~Fresh(k)'
  BY <1>2, <1>3 DEF Written, Fresh, Writing, Deleting
<1>5. \A p \in adopted' : gateway'[p] = copies'[p]
  <2>1. adopted' \subseteq on
    BY <1>1
  <2>2. on \subseteq DOMAIN copies
    BY <1>2 DEF Apart, CopiesRead
  <2>3. QED
    BY <1>2, <2>1, <2>2 DEF QuietReads
<1>6. QuietReads'
  <2>1. \A k \in Keys : Unwritten(k)
    BY <1>2 DEF Unwritten
  <2>2. \A k \in Keys : rows'[k] # NoRow /\ rows'[k].policy \in on' => rows'[k].policy \in LiveIds'
    BY <1>2, <1>3, <2>1 DEF QuietReads
  <2>3. QED
    BY <1>2, <1>3, <1>4, <1>5, <2>2 DEF QuietReads
<1>7. RowsEnforce' /\ ErrorsEnforce' /\ SweepsUnheld'
  BY <1>2, <1>4 DEF RowsEnforce, ErrorsEnforce, SweepsUnheld
<1>8. QED
  BY <1>6, <1>7 DEF QuietInv

LEMMA PlanQuiet == ASSUME IInv, Apart, Plan, QuietReads, RowsEnforce PROVE QuietInv'
<1>1. /\ stage = "plan" /\ stage' = "apply" /\ plan' = desired /\ seen' = rows
      /\ todo' = {k \in Half : desired[k] \in Contents}
      /\ UNCHANGED <<gateway, rows, kind, copies, on, adopted, desired, removing>>
  BY DEF Plan, Others
<1>2. LiveIds' = LiveIds /\ Half' = Half
  BY <1>1 DEF LiveIds, Half
<1>3. \A k \in Keys : Unwritten(k)' => Unwritten(k)
  BY <1>1 DEF Unwritten, Later, Half, IInv, PassTypes, Writing
<1>4. QuietReads'
  <2>1. \A k \in Keys : Unwritten(k)' /\ rows'[k] # NoRow /\ rows'[k].policy \in on' => rows'[k].policy \in LiveIds'
    BY <1>1, <1>2, <1>3 DEF QuietReads
  <2>2. QED
    BY <1>1, <2>1 DEF QuietReads
<1>5. RowsEnforce'
  <2> SUFFICES ASSUME NEW k \in Keys, Written(k)', plan'[k] \in Contents, Wanting(k)'
               PROVE  Held(k)'
    BY DEF RowsEnforce
  <2>1. kind = "rules" /\ k \notin RuleKeys
    BY <1>1, <1>2 DEF Written
  <2>2. plan'[k] = plan[k]
    BY <1>1, <2>1 DEF QuietReads
  <2>3. Wanting(k)
    BY <1>1, <2>2 DEF Wanting
  <2>4. Written(k)
    BY <2>1 DEF Written
  <2>5. QED
    BY <1>1, <1>2, <2>2, <2>3, <2>4 DEF RowsEnforce, Held
<1>6. ErrorsEnforce' /\ SweepsUnheld'
  BY <1>1 DEF ErrorsEnforce, SweepsUnheld
<1>7. QED
  BY <1>4, <1>5, <1>6 DEF QuietInv

\* A step of the pass that changes neither the gateway nor a record.
LEMMA StillQuiet ==
  ASSUME QuietReads, RowsEnforce, stage \notin {"listed", "plan"},
         stage' \notin {"off", "listed", "putrow", "applied", "record", "sweep", "post", "error"},
         UNCHANGED <<desired, removing, gateway, rows, plan, copies, seen, on, adopted, kind>>,
         stage \notin {"sweep", "end"} \/ stage' = "end",
         \A k \in Keys : (Fresh(k)' => Fresh(k)) /\ (Unwritten(k)' => Unwritten(k)) /\ (Written(k)' => Written(k)),
         stage' = "put" => seen[key'].policy \in on
  PROVE  QuietInv'
<1>1. LiveIds' = LiveIds
  BY DEF LiveIds
<1>2. QuietReads'
  BY <1>1, ReadsQuiet
<1>3. \A k \in Keys : (Wanting(k)' <=> Wanting(k)) /\ (Held(k)' <=> Held(k))
  BY <1>1 DEF Wanting, Held
<1>4. RowsEnforce'
  BY <1>3, EnforceKept
<1>5. ErrorsEnforce' /\ SweepsUnheld'
  BY DEF ErrorsEnforce, SweepsUnheld
<1>6. QED
  BY <1>2, <1>4, <1>5 DEF QuietInv

\* A row the pass still holds as read names a policy that is there, if it was listed.
LEMMA ReadRowLive ==
  ASSUME IInv, Apart, QuietReads, stage \in Writing \cup {"apply"}, NEW k \in todo, seen[k] # NoRow
  PROVE  rows[k] # NoRow /\ rows[k].policy = seen[k].policy /\ (seen[k].policy \in on => Held(k))
<1>1. k \in Keys /\ k \in Half
  BY DEF IInv, PassTypes, Apart, PassReads, Writing
<1>2. Fresh(k) /\ SameRow(k)
  BY <1>1 DEF Fresh, Apart, PassReads
<1>3. rows[k] # NoRow /\ rows[k].policy = seen[k].policy
  BY <1>1, <1>2 DEF QuietReads, SameRow
<1>4. Unwritten(k)
  BY <1>1 DEF Unwritten
<1>5. QED
  BY <1>1, <1>3, <1>4 DEF QuietReads, Held

LEMMA UnchangedQuiet ==
  ASSUME IInv, Apart, QuietReads, RowsEnforce, NEW k \in Keys, Unchanged(k), quiet'
  PROVE  QuietInv'
<1> DEFINE row == [rows[k] EXCEPT !.observed = plan[k]]
<1>1. /\ stage = "apply" /\ k \in todo /\ seen[k] # NoRow /\ seen[k].policy \in on
      /\ UNCHANGED <<gateway, desired, removing>>
  BY DEF Unchanged, AsWanted, OnGateway, Others
<1>2. /\ rows[k] # NoRow /\ rows[k].policy = seen[k].policy /\ Held(k)
  BY <1>1, ReadRowLive DEF Writing
<1>3. /\ UNCHANGED <<stage, kind, copies, on, adopted, plan, seen, key, made>> /\ todo' = todo \ {k}
      /\ rows' = rows \/ rows' = [rows EXCEPT ![k] = row]
  BY DEF Unchanged, WriteRow, Stop
<1>4. LiveIds' = LiveIds
  BY <1>1 DEF LiveIds
<1>5. \A j \in Keys : (rows[j] # NoRow <=> rows'[j] # NoRow) /\ (rows[j] # NoRow => rows'[j].policy = rows[j].policy)
  <2>1. rows[k] \in Rows
    BY <1>2, Types
  <2>2. row \in Rows /\ row.policy = rows[k].policy
    <3>1. plan[k] \in Contents
      BY <1>1 DEF IInv, PassStages
    <3>2. QED
      BY <2>1, <3>1 DEF Rows
  <2>3. row # NoRow
    BY <2>2, PolicySyncAssumption
  <2> HIDE DEF row
  <2>4. QED
    BY <1>2, <1>3, <2>2, <2>3, Types
<1>6. \A j \in Keys : (Held(j)' <=> Held(j)) /\ (Wanting(j)' <=> Wanting(j))
  BY <1>1, <1>3, <1>4, <1>5 DEF Held, Wanting
<1>7. QuietReads'
  <2>1. \A j \in Keys : (Fresh(j)' => Fresh(j)) /\ (Unwritten(j)' => Unwritten(j))
    <3>1. Half' = Half /\ plan[k] \in Contents
      BY <1>1, <1>3 DEF Half, IInv, PassStages
    <3>2. QED
      BY <1>1, <1>3, <3>1 DEF Fresh, Unwritten, Later, Writing, Deleting
  <2>2. QED
    BY <1>1, <1>3, <1>4, <1>5, <2>1, ReadsQuiet
<1>8. RowsEnforce'
  <2>1. \A j \in Keys : Written(j)' => Written(j) \/ j = k
    BY <1>1, <1>3 DEF Written, Half
  <2>2. QED
    BY <1>2, <1>3, <1>6, <2>1, EnforceKept
<1>9. ErrorsEnforce' /\ SweepsUnheld'
  BY <1>1, <1>3 DEF ErrorsEnforce, SweepsUnheld
<1>10. QED
  BY <1>7, <1>8, <1>9 DEF QuietInv

LEMMA StartUpdateQuiet ==
  ASSUME IInv, Apart, QuietReads, RowsEnforce, NEW k \in Keys, StartUpdate(k), quiet'
  PROVE  QuietInv'
<1> DEFINE row == [rows[k] EXCEPT !.drift = TRUE]
<1>1. /\ stage = "apply" /\ k \in todo /\ seen[k] # NoRow /\ seen[k].policy \in on
      /\ UNCHANGED <<gateway, desired, removing>>
  BY DEF StartUpdate, OnGateway, Others
<1>2. rows[k] # NoRow
  BY <1>1, ReadRowLive DEF Writing
<1>3. /\ stage' = "put" /\ key' = k /\ UNCHANGED <<kind, copies, on, adopted, plan, seen, todo, made>>
      /\ rows' = rows \/ rows' = [rows EXCEPT ![k] = row]
  BY DEF StartUpdate, WriteRow, Stop
<1>4. LiveIds' = LiveIds
  BY <1>1 DEF LiveIds
<1>5. \A j \in Keys : (rows[j] # NoRow <=> rows'[j] # NoRow) /\ (rows[j] # NoRow => rows'[j].policy = rows[j].policy)
  <2>1. rows[k] \in Rows
    BY <1>2, Types
  <2>2. row \in Rows /\ row.policy = rows[k].policy
    BY <2>1 DEF Rows
  <2>3. row # NoRow
    BY <2>2, PolicySyncAssumption
  <2> HIDE DEF row
  <2>4. QED
    BY <1>2, <1>3, <2>2, <2>3, Types
<1>6. \A j \in Keys : (Held(j)' <=> Held(j)) /\ (Wanting(j)' <=> Wanting(j))
  BY <1>1, <1>3, <1>4, <1>5 DEF Held, Wanting
<1>7. QuietReads'
  <2>1. \A j \in Keys : (Fresh(j)' => Fresh(j)) /\ (Unwritten(j)' => Unwritten(j))
    BY <1>1, <1>3 DEF Fresh, Unwritten, Later, Half, Writing, Deleting
  <2>2. seen[key'].policy \in on'
    BY <1>1, <1>3
  <2>3. QED
    BY <1>1, <1>3, <1>4, <1>5, <2>1, <2>2, ReadsQuiet
<1>8. RowsEnforce'
  <2>1. \A j \in Keys : Written(j)' => Written(j)
    BY <1>1, <1>3 DEF Written, Half, Writing
  <2>2. QED
    BY <1>3, <1>6, <2>1, EnforceKept
<1>9. ErrorsEnforce' /\ SweepsUnheld'
  BY <1>3 DEF ErrorsEnforce, SweepsUnheld
<1>10. QED
  BY <1>7, <1>8, <1>9 DEF QuietInv

LEMMA MovingQuiet ==
  ASSUME IInv, Apart, QuietReads, RowsEnforce,
         EndApply \/ EndSweep \/ \E k \in Keys : StartCreate(k) \/ StartRemove(k)
  PROVE  QuietInv'
<1>1. /\ UNCHANGED <<desired, removing, gateway, rows, plan, copies, seen, on, adopted, kind>>
      /\ \/ stage = "apply" /\ stage' = "remove" /\ todo = {} /\ todo' = {k \in Half : Unwanted(k)}
         \/ stage = "sweep" /\ stage' = "end"
         \/ stage = "apply" /\ stage' = "create" /\ todo' = todo
         \/ stage = "remove" /\ stage' \in {"delete", "deleterow"} /\ todo' = todo
  BY DEF EndApply, EndSweep, StartCreate, StartRemove, Others
<1>2. Half' = Half /\ \A k \in todo' : stage' = "remove" => k \in Half /\ plan[k] \notin Contents
  BY <1>1 DEF Half, Unwanted
<1>3. \A k \in Keys : Fresh(k)' => Fresh(k)
  BY <1>1, <1>2 DEF Fresh, Writing, Deleting
<1>4. \A k \in Keys : (Unwritten(k)' => Unwritten(k)) /\ (Written(k)' => Written(k))
  BY <1>1, <1>2 DEF Unwritten, Later, Written, Writing
<1>5. QED
  BY <1>1, <1>3, <1>4, StillQuiet

\* Putting a policy back takes none away, and touches none that was matched.
LEMMA PutLive ==
  ASSUME IInv, Apart, Put \/ PutFails
  PROVE  LiveIds \subseteq LiveIds' /\ \A q \in adopted : gateway'[q] = gateway[q]
<1>1. stage = "put" /\ key \in Keys /\ seen[key] # NoRow /\ plan[key] \in Contents
  BY DEF Put, PutFails, IInv, PassStages, Writing
<1>2. CASE UNCHANGED gateway
  BY <1>2 DEF LiveIds
<1>3. CASE seen[key].policy \in LiveIds /\ gateway' = PutBack(gateway, seen[key].policy, plan[key])
  <2> PICK p \in Nat : p = seen[key].policy
    BY <1>1, Types
  <2>1. /\ DOMAIN gateway' = DOMAIN gateway /\ gateway'[p].content = plan[key]
        /\ \A q \in DOMAIN gateway : q # p => gateway'[q] = gateway[q]
    BY <1>1, <1>3, PutFacts
  <2>2. plan[key] # "gone"
    BY <1>1, PolicySyncAssumption
  <2>3. \A q \in LiveIds : q \in LiveIds'
    BY <2>1, <2>2 DEF LiveIds
  <2>4. p \notin adopted
    <3>1. Names(key, p)
      BY <1>1, <1>3, LiveFacts DEF Names
    <3>2. QED
      BY <1>1, <3>1 DEF Apart, HoldersApart
  <2>5. \A q \in adopted : q \in DOMAIN gateway
    BY Types
  <2>6. QED
    BY <2>1, <2>3, <2>4, <2>5
<1>4. QED
  BY <1>2, <1>3 DEF Put, PutFails

LEMMA PutQuiet == ASSUME IInv, Apart, QuietReads, RowsEnforce, Put \/ PutFails PROVE QuietInv'
<1>1. /\ stage = "put" /\ key \in Keys /\ key \in todo /\ seen[key] # NoRow
      /\ stage' \in {"putrow", "error", "create"}
      /\ UNCHANGED <<rows, kind, copies, on, adopted, plan, seen, todo, key, desired, removing>>
      /\ stage' = "putrow" => made' = seen[key].policy /\ seen[key].policy \in LiveIds
  BY DEF Put, PutFails, IInv, PassStages, Apart, PassReads, Writing, Others
<1>2. LiveIds \subseteq LiveIds' /\ \A q \in adopted : gateway'[q] = gateway[q]
  BY PutLive
<1>3. seen[key].policy \in LiveIds
  <2>1. seen[key].policy \in on
    BY <1>1 DEF QuietReads
  <2>2. Held(key) /\ rows[key].policy = seen[key].policy
    BY <1>1, <2>1, ReadRowLive DEF Writing
  <2>3. QED
    BY <2>2 DEF Held
<1>4. \A k \in Keys : Unwritten(k)' => Unwritten(k)
  BY <1>1 DEF Unwritten, Later, Writing
<1>5. \A k \in Keys : Fresh(k)' => Fresh(k)
  BY <1>1 DEF Fresh, Half, Writing, Deleting
<1>6. QuietReads'
  <2>1. stage' \in {"putrow", "applied", "record"} => made' \in LiveIds'
    BY <1>1, <1>2
  <2>2. QED
    BY <1>1, <1>2, <1>4, <1>5, <2>1, ReadsQuiet
<1>7. RowsEnforce'
  <2>1. \A k \in Keys : (Wanting(k)' => Wanting(k)) /\ (Held(k) => Held(k)')
    BY <1>1, <1>2 DEF Wanting, Held
  <2>2. \A k \in Keys : Written(k)' => Written(k)
    BY <1>1 DEF Written, Half, Writing
  <2>3. QED
    BY <1>1, <2>1, <2>2, EnforceKept
<1>8. ErrorsEnforce' /\ SweepsUnheld'
  BY <1>1, <1>2, <1>3 DEF ErrorsEnforce, SweepsUnheld
<1>9. QED
  BY <1>6, <1>7, <1>8 DEF QuietInv

\* A policy taken up says what is planned, so it is there.
LEMMA ReclaimQuiet == ASSUME IInv, Apart, QuietReads, RowsEnforce, Reclaim PROVE QuietInv'
<1>1. /\ stage = "create" /\ stage' = "record" /\ plan[key] \in Contents
      /\ UNCHANGED <<gateway, rows, kind, copies, on, plan, seen, todo, key, desired, removing>>
  BY DEF Reclaim, Others, IInv, PassStages, Writing
<1>2. PICK p \in adopted : Reclaims(copies[p], key, plan[key]) /\ made' = p /\ adopted' = adopted \ {p}
  BY DEF Reclaim
<1>3. p \in LiveIds
  <2>1. gateway[p].content = plan[key] /\ p \in DOMAIN gateway
    <3>1. gateway[p] = copies[p] /\ p \in DOMAIN gateway
      BY <1>1, <1>2, Types DEF QuietReads
    <3>2. QED
      BY <1>2, <3>1 DEF Reclaims
  <2>2. QED
    BY <1>1, <2>1, PolicySyncAssumption DEF LiveIds
<1>4. LiveIds' = LiveIds
  BY <1>1 DEF LiveIds
<1>5. \A k \in Keys : (Unwritten(k)' => Unwritten(k)) /\ (Written(k)' => Written(k))
  BY <1>1 DEF Unwritten, Later, Written, Half, Writing
<1>6. \A k \in Keys : Fresh(k)' => Fresh(k)
  BY <1>1 DEF Fresh, Half, Writing, Deleting
<1>7. QuietReads'
  BY <1>1, <1>2, <1>3, <1>4, <1>5, <1>6, ReadsQuiet
<1>8. RowsEnforce'
  <2>1. \A k \in Keys : (Wanting(k)' => Wanting(k)) /\ (Held(k) => Held(k)')
    BY <1>1, <1>2, <1>4 DEF Wanting, Held
  <2>2. QED
    BY <1>1, <1>5, <2>1, EnforceKept
<1>9. ErrorsEnforce' /\ SweepsUnheld'
  BY <1>1 DEF ErrorsEnforce, SweepsUnheld
<1>10. QED
  BY <1>7, <1>8, <1>9 DEF QuietInv

\* A policy is created only where none that was matched says what is planned.
LEMMA OpenCreateQuiet == ASSUME IInv, Apart, QuietReads, RowsEnforce, OpenCreate PROVE QuietInv'
<1>1. /\ stage = "create" /\ stage' = "post"
      /\ \A p \in adopted : ~Reclaims(copies[p], key, plan[key])
      /\ UNCHANGED <<gateway, rows, kind, copies, on, adopted, plan, seen, todo, key, made, desired, removing>>
  BY DEF OpenCreate, OpenCreateAs, Others
<1>2. LiveIds' = LiveIds
  BY <1>1 DEF LiveIds
<1>3. \A k \in Keys : (Unwritten(k)' => Unwritten(k)) /\ (Written(k)' => Written(k))
  BY <1>1 DEF Unwritten, Later, Written, Half, Writing
<1>4. \A k \in Keys : Fresh(k)' => Fresh(k)
  BY <1>1 DEF Fresh, Half, Writing, Deleting
<1>5. QuietReads'
  BY <1>1, <1>2, <1>3, <1>4, ReadsQuiet
<1>6. RowsEnforce'
  <2>1. \A k \in Keys : (Wanting(k)' => Wanting(k)) /\ (Held(k) => Held(k)')
    BY <1>1, <1>2 DEF Wanting, Held
  <2>2. QED
    BY <1>1, <1>3, <2>1, EnforceKept
<1>7. ErrorsEnforce'
  <2>1. \A p \in adopted : gateway[p] = copies[p]
    BY <1>1 DEF QuietReads
  <2>2. ~\E p \in adopted : gateway[p] = [key |-> key, content |-> plan[key]]
    BY <1>1, <2>1 DEF Reclaims
  <2>3. QED
    BY <1>1, <2>2 DEF ErrorsEnforce, Wanting
<1>8. QED
  BY <1>1, <1>5, <1>6, <1>7 DEF QuietInv, SweepsUnheld

\* A policy made takes none away, and changes none that was matched.
LEMMA AppendLive ==
  ASSUME IInv, NEW copy, gateway' = Append(gateway, copy)
  PROVE  LiveIds \subseteq LiveIds' /\ \A q \in adopted : gateway'[q] = gateway[q]
<1>1. \A q \in DOMAIN gateway : q \in DOMAIN gateway' /\ gateway'[q] = gateway[q]
  BY AppendFacts
<1>2. adopted \subseteq DOMAIN gateway
  BY Types
<1>3. QED
  BY <1>1, <1>2 DEF LiveIds

LEMMA PostQuiet ==
  ASSUME IInv, Apart, QuietReads, RowsEnforce, ErrorsEnforce, Post \/ PostFails
  PROVE  QuietInv'
<1>1. /\ stage = "post" /\ key \in Keys /\ plan[key] \in Contents
      /\ UNCHANGED <<rows, kind, copies, on, adopted, plan, seen, todo, key, desired, removing>>
      /\ \/ /\ stage' = "applied" /\ made' = Len(gateway')
            /\ gateway' = Append(gateway, [key |-> key, content |-> plan[key]])
         \/ /\ stage' = "error"
            /\ gateway' = Append(gateway, [key |-> key, content |-> plan[key]]) \/ UNCHANGED gateway
  BY DEF Post, PostFails, Others, IInv, PassStages, Writing
<1>2. LiveIds \subseteq LiveIds' /\ \A q \in adopted : gateway'[q] = gateway[q]
  <2>1. CASE UNCHANGED gateway
    BY <2>1 DEF LiveIds
  <2>2. QED
    BY <1>1, <2>1, AppendLive
<1>3. stage' = "applied" => made' \in LiveIds'
  <2>1. [key |-> key, content |-> plan[key]].content # "gone"
    BY <1>1, PolicySyncAssumption
  <2>2. QED
    BY <1>1, <2>1, AppendFacts DEF LiveIds
<1>4. \A k \in Keys : (Unwritten(k)' => Unwritten(k)) /\ (Written(k)' => Written(k))
  BY <1>1 DEF Unwritten, Later, Written, Half, Writing
<1>5. \A k \in Keys : Fresh(k)' => Fresh(k)
  BY <1>1 DEF Fresh, Half, Writing, Deleting
<1>6. QuietReads'
  <2>1. stage' \notin {"off", "listed", "put", "putrow", "record", "sweep", "end"}
    BY <1>1
  <2>2. stage' \in {"putrow", "applied", "record"} => made' \in LiveIds'
    BY <1>3, <2>1
  <2>3. QED
    BY <1>1, <1>2, <1>4, <1>5, <2>1, <2>2, ReadsQuiet
<1>7. RowsEnforce'
  <2>1. \A k \in Keys : (Wanting(k)' => Wanting(k)) /\ (Held(k) => Held(k)')
    BY <1>1, <1>2 DEF Wanting, Held
  <2>2. QED
    BY <1>1, <1>4, <2>1, EnforceKept
<1>8. ErrorsEnforce'
  <2> PICK x \in Keys : x = key
    BY <1>1
  <2>1. Wanting(x)' => Wanting(x)
    BY <1>1, <1>2 DEF Wanting
  <2>2. stage' = "error" /\ Wanting(x)' => seen[x] # NoRow /\ seen[x].policy \in LiveIds'
    BY <1>1, <1>2, <2>1 DEF ErrorsEnforce
  <2>3. Wanting(key)' => Wanting(x)'
    BY <1>1 DEF Wanting
  <2>4. stage' # "post"
    BY <1>1
  <2>5. QED
    BY <1>1, <2>2, <2>3, <2>4 DEF ErrorsEnforce
<1>9. SweepsUnheld'
  BY <1>1 DEF SweepsUnheld
<1>10. QED
  BY <1>6, <1>7, <1>8, <1>9 DEF QuietInv

\* What is on record now is no other key's.
LEMMA ApplyOperationQuiet == ASSUME IInv, Apart, QuietReads, RowsEnforce, ApplyOperation PROVE QuietInv'
<1>1. /\ stage = "applied" /\ stage' = "record" /\ on' = on \cup {made}
      /\ UNCHANGED <<gateway, rows, kind, copies, adopted, plan, seen, todo, key, made, desired, removing>>
  BY DEF ApplyOperation, Others
<1>2. LiveIds' = LiveIds
  BY <1>1 DEF LiveIds
<1>3. \A k \in Keys : (Unwritten(k)' => Unwritten(k)) /\ (Written(k)' => Written(k))
  BY <1>1 DEF Unwritten, Later, Written, Half, Writing
<1>4. \A k \in Keys : Fresh(k)' => Fresh(k)
  BY <1>1 DEF Fresh, Half, Writing, Deleting
<1>5. \A k \in Keys : rows[k] # NoRow => rows[k].policy # made
  BY <1>1 DEF Apart, HoldersApart, Names
<1>6. QuietReads'
  <2>1. made' \in LiveIds'
    BY <1>1, <1>2 DEF QuietReads
  <2>2. QED
    BY <1>1, <1>2, <1>3, <1>4, <1>5, <2>1, ReadsQuiet
<1>7. RowsEnforce'
  <2>1. \A k \in Keys : (Wanting(k)' => Wanting(k)) /\ (Held(k) => Held(k)')
    BY <1>1, <1>2 DEF Wanting, Held
  <2>2. QED
    BY <1>1, <1>3, <2>1, EnforceKept
<1>8. ErrorsEnforce' /\ SweepsUnheld'
  BY <1>1 DEF ErrorsEnforce, SweepsUnheld
<1>9. QED
  BY <1>6, <1>7, <1>8 DEF QuietInv

\* The write of a key's row ends its turn; the row then holds what it must.
LEMMA TurnQuiet ==
  ASSUME IInv, Apart, QuietReads, RowsEnforce, stage \in Writing, NEW x \in Keys, x = key,
         Proceed, UNCHANGED <<gateway, desired, removing>>,
         \A k \in Keys : k # x => rows'[k] = rows[k],
         Wanting(x) => Held(x)'
  PROVE  QuietInv'
<1>1. /\ stage' = "apply" /\ todo' = todo \ {x}
      /\ UNCHANGED <<kind, copies, on, adopted, plan, seen>>
  BY DEF Proceed
<1>2. LiveIds' = LiveIds
  BY DEF LiveIds
<1>3. x \in Half /\ x \in todo /\ plan[x] \in Contents
  BY DEF IInv, PassStages, Apart, PassReads
<1>4. Half' = Half
  BY <1>1 DEF Half
<1>5. \A k \in Keys : Unwritten(k)' => Unwritten(k) /\ k # x
  BY <1>1, <1>3 DEF Unwritten, Later, Half, Writing
<1>6. \A k \in Keys : Fresh(k)' => Fresh(k) /\ k # x
  BY <1>1, <1>3, <1>4 DEF Fresh, Deleting, Writing
<1>7. \A k \in Keys : Written(k)' => Written(k) \/ k = x
  BY <1>1, <1>4 DEF Written, Writing
<1>8. QuietReads'
  <2>1. stage \notin {"listed", "plan", "sweep", "end"}
    BY DEF Writing
  <2>2. QED
    BY <1>1, <1>2, <1>5, <1>6, <2>1, ReadsQuiet
<1>9. RowsEnforce'
  <2>1. \A k \in Keys : Wanting(k)' => Wanting(k)
    BY <1>1 DEF Wanting
  <2>2. \A k \in Keys : k # x /\ Held(k) => Held(k)'
    BY <1>2 DEF Held
  <2>3. \A k \in Keys : Written(k)' /\ Wanting(k) => Held(k)' \/ (Written(k) /\ (Held(k) => Held(k)'))
    BY <1>7, <2>2
  <2>4. QED
    BY <1>1, <2>1, <2>3, EnforceKept
<1>10. ErrorsEnforce' /\ SweepsUnheld'
  BY <1>1 DEF ErrorsEnforce, SweepsUnheld
<1>11. QED
  BY <1>8, <1>9, <1>10 DEF QuietInv

LEMMA RecordQuiet == ASSUME IInv, Apart, QuietReads, RowsEnforce, RecordPolicy, quiet' PROVE QuietInv'
<1>1. stage \in {"putrow", "record"} /\ stage \in Writing /\ UNCHANGED <<gateway, desired, removing>>
  BY DEF RecordPolicy, Writing, Others
<1>2. rows' = [rows EXCEPT ![key] = Clean(key)] /\ Proceed
  BY DEF RecordPolicy, WriteRow, Stop
<1> PICK x \in Keys : x = key
  BY <1>1 DEF IInv, PassStages
<1>3. rows'[x] = Clean(x) /\ \A k \in Keys : k # x => rows'[k] = rows[k]
  BY <1>2, Types
<1>4. Clean(x).policy = made /\ Clean(x) # NoRow
  <2>1. Clean(x) \in Rows
    <3>1. plan[x] \in Contents /\ made \in Nat
      BY <1>1, Types DEF IInv, PassStages
    <3>2. Clean(x).drift \in BOOLEAN
      <4>1. (seen[x] # NoRow /\ seen[x].desired = plan[x] /\ rows[x] # NoRow /\ rows[x].drift) \in BOOLEAN
        OBVIOUS
      <4>2. QED
        BY <4>1 DEF Clean
    <3>3. QED
      BY <3>1, <3>2 DEF Clean, Rows
  <2>2. QED
    BY <2>1, PolicySyncAssumption DEF Clean
<1>5. Held(x)'
  <2>1. made \in LiveIds /\ LiveIds' = LiveIds
    BY <1>1 DEF QuietReads, LiveIds
  <2>2. QED
    BY <1>3, <1>4, <2>1 DEF Held
<1>6. QED
  BY <1>1, <1>2, <1>3, <1>5, TurnQuiet

\* A failed write leaves the row on the policy it held.
LEMMA WriteErrorQuiet ==
  ASSUME IInv, Apart, QuietReads, RowsEnforce, ErrorsEnforce, WriteError, quiet'
  PROVE  QuietInv'
<1>1. stage = "error" /\ stage \in Writing /\ UNCHANGED <<gateway, desired, removing>>
  BY DEF WriteError, Writing, Others
<1>2. rows' = [rows EXCEPT ![key] = ErrorRow(key, TRUE)] /\ Proceed
  BY DEF WriteError, WriteRow, Stop
<1> PICK x \in Keys : x = key
  BY <1>1 DEF IInv, PassStages
<1>3. rows'[x] = ErrorRow(x, TRUE) /\ \A k \in Keys : k # x => rows'[k] = rows[k]
  BY <1>2, Types
<1>4. ASSUME Wanting(x) PROVE Held(x)'
  <2>1. seen[x] # NoRow /\ seen[x].policy \in LiveIds /\ LiveIds' = LiveIds
    BY <1>1, <1>4 DEF ErrorsEnforce, LiveIds
  <2>2. x \in todo /\ plan[x] \in Contents
    BY <1>1 DEF Apart, PassReads, IInv, PassStages
  <2>3. rows[x] # NoRow /\ rows[x].policy = seen[x].policy
    BY <1>1, <2>1, <2>2, ReadRowLive
  <2>4. rows[x] \in Rows
    BY <2>3, Types
  <2> DEFINE drift == rows[x].drift /\ seen[x].desired = plan[x]
  <2>5. rows'[x] = [rows[x] EXCEPT !.failed = TRUE, !.desired = plan[x], !.drift = drift]
    BY <1>3, <2>1 DEF ErrorRow
  <2>6. drift \in BOOLEAN
    OBVIOUS
  <2> HIDE DEF drift
  <2>7. rows'[x] \in Rows /\ rows'[x].policy = rows[x].policy
    BY <2>2, <2>4, <2>5, <2>6 DEF Rows
  <2>8. rows'[x] # NoRow
    BY <2>7, PolicySyncAssumption
  <2>9. QED
    BY <2>1, <2>3, <2>7, <2>8 DEF Held
<1>5. QED
  BY <1>1, <1>2, <1>3, <1>4, TurnQuiet

\* What is deleted is an unwanted key's, and no other record names it.
LEMMA DeleteQuiet ==
  ASSUME IInv, Apart, QuietReads, RowsEnforce, Delete \/ DeleteFails
  PROVE  QuietInv'
<1>1. /\ stage = "delete" /\ key \in Keys /\ key \in todo /\ seen[key] # NoRow
      /\ todo \subseteq Half /\ plan[key] \notin Contents
      /\ stage' \in {"deleterow", "deleteerror"} /\ on' \subseteq on
      /\ UNCHANGED <<rows, kind, copies, adopted, plan, seen, todo, key, desired, removing>>
      /\ gateway' \in {gateway, DeleteFrom(gateway, seen[key].policy)}
  BY DEF Delete, DeleteFails, Others, IInv, PassStages, Apart, PassReads, Deleting
<1> PICK p \in Nat : p = seen[key].policy
  BY <1>1, Types
<1> PICK x \in Keys : x = key
  BY <1>1
<1>2. p # 1
  BY <1>1 DEF IInv, PassTypes, GoodRows
<1>3. DOMAIN gateway' = DOMAIN gateway /\ \A q \in DOMAIN gateway : q # p => gateway'[q] = gateway[q]
  BY <1>1, <1>2, DeleteFacts
<1>4. p # 0 => Names(x, p)
  BY <1>1 DEF Names
<1>5. \A q \in adopted : gateway'[q] = gateway[q]
  <2>1. 0 \notin adopted /\ adopted \subseteq DOMAIN gateway
    BY Types
  <2>2. p \notin adopted
    BY <1>4, <2>1 DEF Apart, HoldersApart
  <2>3. QED
    BY <1>3, <2>1, <2>2
<1>6. ASSUME NEW k \in Keys, k # x, rows[k] # NoRow, rows[k].policy \in LiveIds
      PROVE  rows[k].policy \in LiveIds'
  <2> PICK q : q = rows[k].policy
    OBVIOUS
  <2>1. q \in Nat /\ q # 0 /\ q \in DOMAIN gateway /\ gateway[q].content # "gone"
    BY <1>6, LiveFacts
  <2>2. Names(k, q)
    BY <1>6, <2>1 DEF Names
  <2>3. q # p
    BY <1>4, <1>6, <2>1, <2>2 DEF Apart, HoldersApart
  <2>4. q \in LiveIds'
    BY <1>3, <2>1, <2>3 DEF LiveIds
  <2>5. QED
    BY <2>4
<1>7. \A k \in Keys : Unwritten(k)' => Unwritten(k) /\ k # x
  BY <1>1 DEF Unwritten, Later, Half, Writing
<1>8. \A k \in Keys : Fresh(k)' => Fresh(k)
  BY <1>1 DEF Fresh, Half, Writing, Deleting
<1>9. QuietReads'
  BY <1>1, <1>5, <1>6, <1>7, <1>8, ReadsQuiet
<1>10. RowsEnforce'
  <2>1. \A k \in Keys : (Wanting(k)' => Wanting(k)) /\ (Written(k)' => Written(k))
    BY <1>1, <1>5 DEF Wanting, Written, Half, Writing
  <2>2. \A k \in Keys : k # x /\ Held(k) => Held(k)'
    BY <1>1, <1>6 DEF Held
  <2>3. QED
    BY <1>1, <2>1, <2>2, EnforceKept
<1>11. ErrorsEnforce' /\ SweepsUnheld'
  BY <1>1 DEF ErrorsEnforce, SweepsUnheld
<1>12. QED
  BY <1>9, <1>10, <1>11 DEF QuietInv

LEMMA DropRowQuiet == ASSUME IInv, Apart, QuietReads, RowsEnforce, DropRow, quiet' PROVE QuietInv'
<1>1. /\ stage \in {"deleterow", "deleteerror"} /\ stage' = "remove" /\ key \in Keys /\ key \in todo
      /\ todo \subseteq Half /\ plan[key] \notin Contents /\ todo' = todo \ {key}
      /\ UNCHANGED <<kind, copies, on, adopted, plan, seen, gateway, desired, removing>>
  BY DEF DropRow, Stop, Others, IInv, PassStages, Apart, PassReads, Deleting
<1> PICK x \in Keys : x = key
  BY <1>1
<1>2. \A k \in Keys : k # x => rows'[k] = rows[k]
  BY Types DEF DropRow, Stop
<1>3. LiveIds' = LiveIds
  BY <1>1 DEF LiveIds
<1>4. \A k \in Keys : Unwritten(k)' => Unwritten(k) /\ k # x
  BY <1>1 DEF Unwritten, Later, Half, Writing
<1>5. \A k \in Keys : Fresh(k)' => Fresh(k) /\ k # x
  BY <1>1 DEF Fresh, Half, Writing, Deleting
<1>6. QuietReads'
  BY <1>1, <1>2, <1>3, <1>4, <1>5, ReadsQuiet
<1>7. RowsEnforce'
  <2>1. \A k \in Keys : (Wanting(k)' => Wanting(k)) /\ (Written(k)' => Written(k))
    BY <1>1 DEF Wanting, Written, Half, Writing
  <2>2. \A k \in Keys : k # x /\ Held(k) => Held(k)'
    BY <1>2, <1>3 DEF Held
  <2>3. QED
    BY <1>1, <2>1, <2>2, EnforceKept
<1>8. ErrorsEnforce' /\ SweepsUnheld'
  BY <1>1 DEF ErrorsEnforce, SweepsUnheld
<1>9. QED
  BY <1>6, <1>7, <1>8 DEF QuietInv

\* The sweep takes up only operations whose policy no row holds.
LEMMA EndHalfQuiet == ASSUME IInv, Apart, QuietReads, RowsEnforce, EndHalf PROVE QuietInv'
<1>1. /\ stage = "remove" /\ todo = {}
      /\ UNCHANGED <<gateway, rows, ops, copies, on, adopted, plan, seen, todo, key, made, desired, removing>>
      /\ \/ kind = "owners" /\ stage' = "plan" /\ kind' = "rules"
         \/ /\ kind = "rules" /\ stage' = "sweep" /\ kind' = "rules"
            /\ sweeping' = {i \in DOMAIN ops : ops[i].status = "applied" /\ ~ByRow(ops[i].policy)}
  BY DEF EndHalf, Others, IInv, PassTypes
<1>2. LiveIds' = LiveIds
  BY <1>1 DEF LiveIds
<1>3. \A k \in Keys : ~Fresh(k)'
  BY <1>1 DEF Fresh, Writing, Deleting
<1>4. \A k \in Keys : (Unwritten(k)' => Unwritten(k)) /\ (Written(k)' => Written(k))
  BY <1>1 DEF Unwritten, Later, Written, Half, Writing
<1>5. QuietReads'
  BY <1>1, <1>2, <1>3, <1>4, ReadsQuiet
<1>6. RowsEnforce'
  <2>1. \A k \in Keys : (Wanting(k)' => Wanting(k)) /\ (Held(k) => Held(k)')
    BY <1>1, <1>2 DEF Wanting, Held
  <2>2. QED
    BY <1>1, <1>4, <2>1, EnforceKept
<1>7. SweepsUnheld'
  <2>1. \A q : ByRow(q)' => ByRow(q)
    BY <1>1 DEF ByRow
  <2>2. stage' = "sweep" => \A i \in sweeping' : ~ByRow(ops[i].policy)
    BY <1>1
  <2>3. stage' = "sweep" => \A i \in sweeping' : ~ByRow(ops[i].policy)'
    BY <1>1, <2>2 DEF ByRow
  <2>4. QED
    BY <1>1, <2>3 DEF SweepsUnheld
<1>8. ErrorsEnforce'
  BY <1>1 DEF ErrorsEnforce
<1>9. QED
  BY <1>5, <1>6, <1>7, <1>8 DEF QuietInv

\* A sweep deletes nothing a row holds.
LEMMA SweepQuiet ==
  ASSUME IInv, Apart, QuietReads, RowsEnforce, SweepsUnheld, NEW i \in DOMAIN ops, Sweep(i) \/ SweepFails(i)
  PROVE  QuietInv'
<1>1. /\ stage = "sweep" /\ i \in sweeping /\ on' \subseteq on /\ sweeping' = sweeping \ {i}
      /\ UNCHANGED <<stage, rows, kind, copies, adopted, plan, seen, todo, key, made, desired, removing>>
      /\ gateway' \in {gateway, DeleteFrom(gateway, ops[i].policy)}
  BY DEF Sweep, SweepFails, Others
<1> PICK p : p = ops[i].policy
  OBVIOUS
<1>2. p # 1 /\ ~ByRow(p)
  BY <1>1, OpOfSeq DEF IInv, World, SweepsUnheld
<1>3. /\ DOMAIN gateway' = DOMAIN gateway
      /\ \A q \in DOMAIN gateway : q # p => gateway'[q] = gateway[q]
  BY <1>1, <1>2, DeleteFacts
<1>4. \A k \in Keys : Held(k) => Held(k)'
  <2> SUFFICES ASSUME NEW k \in Keys, Held(k) PROVE Held(k)'
    OBVIOUS
  <2> PICK q : q = rows[k].policy
    OBVIOUS
  <2>1. q # p /\ q \in LiveIds
    BY <1>2 DEF ByRow, Held
  <2>2. q \in LiveIds'
    BY <1>3, <2>1 DEF LiveIds
  <2>3. QED
    BY <1>1, <2>2 DEF Held
<1>5. \A k \in Keys : plan[k] \in Contents /\ Wanting(k)' => Wanting(k)
  <2> SUFFICES ASSUME NEW k \in Keys, plan[k] \in Contents, Wanting(k)' PROVE Wanting(k)
    OBVIOUS
  <2>1. PICK q \in adopted : gateway'[q] = [key |-> k, content |-> plan[k]]
    BY <1>1 DEF Wanting
  <2>2. q \in DOMAIN gateway /\ gateway'[q].content \notin {"edited", "gone"}
    BY <2>1, Types, PolicySyncAssumption
  <2>3. OnlyTaken
    BY <1>1, <1>2, DeleteFacts
  <2>4. gateway'[q] = gateway[q]
    BY <2>2, <2>3 DEF OnlyTaken
  <2>5. QED
    BY <2>1, <2>4 DEF Wanting
<1>6. \A k \in Keys : ~Fresh(k)' /\ ~Unwritten(k)' /\ (Written(k)' => Written(k))
  <2>1. kind = "rules"
    BY <1>1 DEF Apart, PassReads
  <2>2. QED
    BY <1>1, <2>1 DEF Fresh, Unwritten, Later, Written, Half, Writing, Deleting
<1>7. QuietReads'
  BY <1>1, <1>6, ReadsQuiet
<1>8. RowsEnforce'
  BY <1>1, <1>4, <1>5, <1>6, EnforceKept
<1>9. SweepsUnheld'
  <2>1. ASSUME NEW j \in sweeping' PROVE ops'[j].policy = ops[j].policy /\ j \in sweeping
    <3>1. j \in DOMAIN ops /\ j # i /\ j \in sweeping
      BY <1>1, <2>1 DEF IInv, PassTypes
    <3>2. QED
      BY <3>1 DEF Sweep, SweepFails
  <2>2. \A j \in sweeping' : ~ByRow(ops[j].policy)
    BY <1>1, <2>1 DEF SweepsUnheld
  <2>3. ASSUME NEW j \in sweeping' PROVE ~ByRow(ops[j].policy)'
    BY <1>1, <2>1, <2>2, <2>3 DEF ByRow
  <2>4. QED
    BY <2>3 DEF SweepsUnheld
<1>10. ErrorsEnforce'
  BY <1>1 DEF ErrorsEnforce
<1>11. QED
  BY <1>7, <1>8, <1>9, <1>10 DEF QuietInv

LEMMA StepsQuiet == ASSUME IInv, Apart, QuietInv, [Next]_vars PROVE QuietInv'
<1> SUFFICES ASSUME quiet' PROVE QuietInv'
  BY DEF QuietInv
<1> USE DEF QuietInv
<1>1. CASE UNCHANGED vars
  BY <1>1 DEF vars, passVars, QuietReads, RowsEnforce, ErrorsEnforce, SweepsUnheld, Fresh, Unwritten, Later,
              Written, Half, Wanting, Held, LiveIds, ByRow
<1>2. CASE Meanwhile
  <2>1. PICK i \in DOMAIN ops : Age(i)
    BY <1>2 DEF Meanwhile, LandLate, Wish, RemovePolicies, RemoveRule, ConsoleChange
  <2>2. stage = "off" /\ quiet
    BY <2>1 DEF Age
  <2>3. QED
    BY <2>2 DEF QuietReads
<1>3. CASE ListPolicies
  BY <1>3, ListQuiet
<1>4. CASE PassStep /\ ~ListPolicies
  <2>1. ~EndPass /\ quiet
    BY <1>4
    DEF PassStep, SettleLostCreates, SettleLostCreatesBy, Plan, Unchanged, StartUpdate, StartCreate, StartRemove,
        Put, Reclaim, OpenCreate, OpenCreateAs, Post, ApplyOperation, RecordPolicy, WriteError, EndApply, Delete,
        DropRow, EndHalf, Sweep, EndSweep, EndPass, WriteRow, Proceed, Stop
  <2>2. QED
    BY <1>4, <2>1, SettleQuiet, PlanQuiet, UnchangedQuiet, StartUpdateQuiet, MovingQuiet, PutQuiet,
       ReclaimQuiet, OpenCreateQuiet, PostQuiet, ApplyOperationQuiet, RecordQuiet, WriteErrorQuiet,
       DeleteQuiet, DropRowQuiet, EndHalfQuiet, SweepQuiet
    DEF PassStep
<1>5. CASE PassFault
  <2>1. ~Crash /\ quiet
    BY <1>5 DEF PassFault, PutFails, PostFails, DeleteFails, Crash, SweepFails, Stop
  <2>2. QED
    BY <1>5, <2>1, PutQuiet, PostQuiet, DeleteQuiet, SweepQuiet DEF PassFault
<1>6. QED
  BY <1>1, <1>2, <1>3, <1>4, <1>5 DEF Next

\* Where the sweep is reached undisturbed, what was matched and says what the
\* household wants is not all there is of it.
LEMMA SweepSpares ==
  ASSUME IInv, Apart, QuietInv, NEW p \in adopted
  PROVE  ~SweepsTheOnly(p)
<1> SUFFICES ASSUME NEW k \in Keys, stage = "sweep", quiet, Enforces(p, k),
                    rows[k] = NoRow \/ rows[k].policy \notin LiveIds
             PROVE  FALSE
  BY DEF SweepsTheOnly
<1>1. plan = desired /\ kind = "rules"
  BY DEF QuietInv, QuietReads, Apart, PassReads
<1>2. gateway[p] = [key |-> k, content |-> plan[k]] /\ p \in LiveIds /\ gateway[p] # Admin
  BY <1>1 DEF Enforces, Ours
<1>3. plan[k] \in Contents
  <2>1. p \in DOMAIN gateway /\ gateway[p] \in Copies \cup {Admin}
    BY Types DEF GoodGateway
  <2>2. gateway[p].content \in Contents \cup {"edited", "gone"}
    BY <1>2, <2>1 DEF Copies
  <2>3. plan[k] \in Wishes
    BY DEF IInv, PassTypes
  <2>4. plan[k] = gateway[p].content
    BY <1>2
  <2>5. QED
    BY <2>2, <2>3, <2>4, PolicySyncAssumption DEF Wishes
<1>4. Written(k)
  BY <1>1 DEF Written, Half, Writing
<1>5. Wanting(k)
  BY <1>2 DEF Wanting
<1>6. Held(k)
  BY <1>3, <1>4, <1>5 DEF QuietInv, RowsEnforce
<1>7. QED
  BY <1>6 DEF Held

LEMMA AlwaysQuiet == Spec => []QuietInv
<1>1. Init => QuietInv
  BY DEF Init, QuietInv
<1>2. (IInv /\ Apart) /\ QuietInv /\ [Next]_vars => QuietInv'
  BY StepsQuiet
<1>3. QED
  BY <1>1, <1>2, AlwaysApart, PTL DEF Spec

\* A sweep of a pass nobody interfered with never takes away, of what this pass
\* matched to lost creates, the one policy that enforces a wish.
THEOREM EnforcerStays == Spec => EnforcerKept
<1>1. (IInv /\ Apart) /\ QuietInv => [\A p \in adopted : ~SweepsTheOnly(p)]_vars
  BY SweepSpares
<1>2. QED
  BY <1>1, AlwaysApart, AlwaysQuiet, PTL DEF Spec, EnforcerKept

----------------------------------------------------------------------------
(* What is on record                                                       *)

\* Records name policies FamilyFi made: a row's is that of an applied operation,
\* and so is what the pass is about to write to a row, and what it matched.
RowsOnRecord == \A k \in Keys : rows[k] # NoRow /\ rows[k].policy # 0 => ByOp(rows[k].policy)

MadeOnRecord ==
  /\ stage \in {"putrow", "record"} => ByOp(made)
  /\ stage \notin {"sweep", "end"} => \A p \in adopted : ByOp(p)
  /\ \A p \in Nat : ByOp(p) => p \in DOMAIN gateway

\* The pass knows of every policy on record that is there.
OnKnown == stage # "off" => \A p \in LiveIds : ByOp(p) => p \in on

\* The operation of the create being sent is pending, and its policy is new.
Sending ==
  /\ stage \in {"post", "applied"} =>
       /\ Len(ops) >= 1
       /\ LET op == ops[Newest] IN
            op.status = "pending" /\ op.key = key /\ op.content = plan[key] /\ ~op.old /\ ~op.flying
  /\ stage = "applied" => /\ made \in DOMAIN gateway /\ ~ByOp(made)
                          /\ gateway[made].key = key /\ gateway[made].content \in {plan[key], "edited", "gone"}

RecordInv == RowsOnRecord /\ MadeOnRecord /\ OnKnown /\ Sending /\ SweepsUnheld

LEMMA OpTypes ==
  ASSUME IInv
  PROVE  /\ ops \in Seq(Ops) /\ Len(ops) \in Nat /\ DOMAIN ops = 1..Len(ops)
         /\ \A i \in DOMAIN ops : /\ ops[i] \in Ops /\ i \in Nat /\ ops[i].policy \in Nat
                                  /\ ops[i].key \in Keys /\ ops[i].content \in Contents
                                  /\ ops[i].old \in BOOLEAN /\ ops[i].flying \in BOOLEAN
         /\ \A p : ByOp(p) => p \in Nat
<1>1. ops \in Seq(Ops)
  BY DEF IInv, World, GoodOps
<1>2. \A o \in Ops : /\ o.policy \in Nat /\ o.key \in Keys /\ o.content \in Contents
                     /\ o.old \in BOOLEAN /\ o.flying \in BOOLEAN
  BY DEF Ops
<1>3. Len(ops) \in Nat /\ DOMAIN ops = 1..Len(ops) /\ \A i \in DOMAIN ops : ops[i] \in Ops
  BY <1>1
<1>4. QED
  BY <1>1, <1>2, <1>3 DEF ByOp

\* What a step must keep of the records.
LEMMA RecordKept ==
  ASSUME IInv, RecordInv,
         DOMAIN gateway \subseteq DOMAIN gateway',
         \A k \in Keys : \/ rows'[k] = NoRow \/ rows'[k].policy = 0 \/ ByOp(rows[k].policy)'
                         \/ rows[k] # NoRow /\ rows'[k].policy = rows[k].policy,
         \A p : ByOp(p) => ByOp(p)' \/ (~ByRow(p) /\ stage' = "sweep"),
         \A p : ByOp(p)' => ByOp(p) \/ (p \in DOMAIN gateway /\ p \in on'),
         stage' \in {"putrow", "record"} => ByOp(made)',
         stage' \notin {"sweep", "end"} =>
           \A p \in adopted' : (p \in adopted /\ stage \notin {"sweep", "end"}) \/ ByOp(p)',
         stage' # "off" => \/ on' = LiveIds'
                           \/ /\ stage # "off" /\ \A p \in on : p \in on' \/ p \notin LiveIds'
                              /\ \A p \in LiveIds' : p \in LiveIds \/ p \notin DOMAIN gateway
  PROVE  RowsOnRecord' /\ MadeOnRecord' /\ OnKnown'
<1>1. RowsOnRecord'
  <2> SUFFICES ASSUME NEW k \in Keys, rows'[k] # NoRow, rows'[k].policy # 0, ~ByOp(rows[k].policy)'
               PROVE  FALSE
    BY DEF RowsOnRecord
  <2>1. PICK p : p = rows[k].policy
    OBVIOUS
  <2>2. rows[k] # NoRow /\ rows'[k].policy = p /\ p # 0
    BY <2>1
  <2>3. ByOp(p) /\ ByRow(p)
    BY <2>1, <2>2 DEF RecordInv, RowsOnRecord, ByRow
  <2>4. ByOp(p)'
    BY <2>3
  <2>5. QED
    BY <2>2, <2>4
<1>2. MadeOnRecord'
  <2>1. stage' \notin {"sweep", "end"} => \A p \in adopted' : ByOp(p)'
    BY DEF RecordInv, MadeOnRecord
  <2>2. \A p \in Nat : ByOp(p)' => p \in DOMAIN gateway'
    BY DEF RecordInv, MadeOnRecord
  <2>3. QED
    BY <2>1, <2>2 DEF MadeOnRecord
<1>3. OnKnown'
  <2> SUFFICES ASSUME stage' # "off", NEW p \in LiveIds', ByOp(p)', p \notin on' PROVE FALSE
    BY DEF OnKnown
  <2>1. ByOp(p)
    OBVIOUS
  <2>2. p \in DOMAIN gateway
    BY <2>1, OpTypes DEF RecordInv, MadeOnRecord
  <2>3. p \in LiveIds /\ stage # "off"
    BY <2>2
  <2>4. p \in on
    BY <2>1, <2>3 DEF RecordInv, OnKnown
  <2>5. QED
    BY <2>4
<1>4. QED
  BY <1>1, <1>2, <1>3

\* A step that writes neither the gateway nor an operation.
LEMMA RecordMoved ==
  ASSUME IInv, RecordInv, UNCHANGED <<gateway, ops>>,
         \A k \in Keys : \/ rows'[k] = NoRow \/ rows'[k].policy = 0
                         \/ rows[k] # NoRow /\ rows'[k].policy = rows[k].policy,
         adopted' \subseteq adopted, stage' # "off" => stage # "off" /\ UNCHANGED on,
         stage \in {"sweep", "end"} => stage' \in {"sweep", "end"} \/ adopted' = {},
         stage' \notin {"putrow", "record", "post", "applied", "sweep"} \/
           UNCHANGED <<stage, key, made, plan, sweeping>>,
         stage' = "sweep" => \A k \in Keys : rows'[k] \in {rows[k], NoRow}
  PROVE  RecordInv'
<1>1. \A p : ByOp(p)' <=> ByOp(p)
  BY DEF ByOp
<1>2. LiveIds' = LiveIds
  BY DEF LiveIds
<1>3. stage' = "sweep" => \A p : ByRow(p)' => ByRow(p)
  BY DEF ByRow
<1>4. stage' \in {"putrow", "record"} => ByOp(made)'
  <2>1. PICK m : m = made
    OBVIOUS
  <2>2. QED
    BY <1>1, <2>1 DEF RecordInv, MadeOnRecord
<1>5. RowsOnRecord' /\ MadeOnRecord' /\ OnKnown'
  BY <1>1, <1>2, <1>4, RecordKept
<1>6. Sending'
  <2>1. CASE stage' \notin {"post", "applied"}
    BY <2>1 DEF Sending
  <2>2. CASE UNCHANGED <<stage, key, made, plan>>
    <3>1. PICK m : m = made
      OBVIOUS
    <3>2. stage = "applied" => ~ByOp(m)'
      BY <1>1, <3>1 DEF RecordInv, Sending
    <3>3. stage = "applied" => ~ByOp(made)'
      BY <2>2, <3>1, <3>2
    <3>4. QED
      BY <2>2, <3>3 DEF RecordInv, Sending, Newest
  <2>3. QED
    BY <2>1, <2>2
<1>7. SweepsUnheld'
  <2> SUFFICES ASSUME stage' = "sweep", NEW i \in sweeping', ByRow(ops[i].policy)' PROVE FALSE
    BY DEF SweepsUnheld
  <2>1. stage = "sweep" /\ i \in sweeping
    OBVIOUS
  <2>2. PICK p : p = ops[i].policy
    OBVIOUS
  <2>3. ~ByRow(p)
    BY <2>1, <2>2 DEF RecordInv, SweepsUnheld
  <2>4. ByRow(p)'
    BY <2>2
  <2>5. QED
    BY <1>3, <2>3, <2>4
<1>8. QED
  BY <1>5, <1>6, <1>7 DEF RecordInv

\* The steps of a pass that only read, or turn to the next key.
LEMMA TurnsRecord ==
  ASSUME IInv, RecordInv,
         \/ Plan \/ EndApply \/ EndSweep \/ EndPass \/ Crash
         \/ \E k \in Keys : StartCreate(k) \/ StartRemove(k)
  PROVE  RecordInv'
<1>1. UNCHANGED <<gateway, ops, rows>>
  BY DEF Plan, EndApply, EndSweep, EndPass, Crash, StartCreate, StartRemove
<1>2. CASE stage' = "off"
  <2>1. adopted' = {}
    BY <1>2 DEF Plan, EndApply, EndSweep, EndPass, Crash, StartCreate, StartRemove, Stop
  <2>2. QED
    BY <1>1, <1>2, <2>1, RecordMoved
<1>3. CASE stage' # "off"
  <2>1. /\ stage # "off" /\ UNCHANGED <<on, adopted>>
        /\ stage \in {"sweep", "end"} => stage' \in {"sweep", "end"}
        /\ stage' \notin {"putrow", "record", "post", "applied", "sweep"}
    BY <1>3 DEF Plan, EndApply, EndSweep, EndPass, Crash, StartCreate, StartRemove, Stop
  <2>2. QED
    BY <1>1, <1>3, <2>1, RecordMoved
<1>4. QED
  BY <1>2, <1>3

\* The steps of a pass that write a row and name no other policy in it.
LEMMA NotingRecord ==
  ASSUME IInv, RecordInv, NEW k \in Keys, Unchanged(k) \/ StartUpdate(k)
  PROVE  RecordInv'
<1>1. stage = "apply" /\ k \in todo /\ UNCHANGED <<gateway, ops>>
  BY DEF Unchanged, StartUpdate
<1>2. seen[k] # NoRow
  BY DEF Unchanged, StartUpdate, AsWanted, OnGateway
<1>3. \/ UNCHANGED rows
      \/ rows[k] # NoRow /\ \E c : rows' = [rows EXCEPT ![k] = [rows[k] EXCEPT !.observed = c]]
      \/ rows[k] # NoRow /\ rows' = [rows EXCEPT ![k] = [rows[k] EXCEPT !.drift = TRUE]]
  BY <1>2 DEF Unchanged, StartUpdate, WriteRow
<1>4. \A j \in Keys : \/ rows'[j] = NoRow \/ rows'[j].policy = 0
                      \/ rows[j] # NoRow /\ rows'[j].policy = rows[j].policy
  <2> SUFFICES ASSUME NEW j \in Keys
               PROVE  rows'[j] = NoRow \/ (rows[j] # NoRow /\ rows'[j].policy = rows[j].policy)
    OBVIOUS
  <2>1. rows[j] # NoRow => rows[j] \in Rows
    BY Types
  <2>2. \A row \in Rows : \A c : [row EXCEPT !.observed = c].policy = row.policy
                                 /\ [row EXCEPT !.drift = c].policy = row.policy
    BY DEF Rows
  <2>3. CASE j # k
    BY <1>3, <2>3, Types
  <2>4. CASE j = k
    <3>1. CASE UNCHANGED rows
      BY <3>1
    <3>2. CASE rows[k] # NoRow /\ \E c : rows' = [rows EXCEPT ![k] = [rows[k] EXCEPT !.observed = c]]
      <4>1. PICK c : rows' = [rows EXCEPT ![k] = [rows[k] EXCEPT !.observed = c]]
        BY <3>2
      <4>2. rows'[j] = [rows[j] EXCEPT !.observed = c]
        BY <2>4, <4>1, Types
      <4>3. rows[j] \in Rows /\ rows[j] # NoRow
        BY <2>1, <2>4, <3>2
      <4>4. rows'[j].policy = rows[j].policy
        BY <2>2, <4>2, <4>3
      <4>5. QED
        BY <4>3, <4>4
    <3>3. CASE rows[k] # NoRow /\ rows' = [rows EXCEPT ![k] = [rows[k] EXCEPT !.drift = TRUE]]
      <4>2. rows'[j] = [rows[j] EXCEPT !.drift = TRUE]
        BY <2>4, <3>3, Types
      <4>3. rows[j] \in Rows /\ rows[j] # NoRow
        BY <2>1, <2>4, <3>3
      <4>4. rows'[j].policy = rows[j].policy
        BY <2>2, <4>2, <4>3
      <4>5. QED
        BY <4>3, <4>4
    <3>4. QED
      BY <1>3, <3>1, <3>2, <3>3
  <2>5. QED
    BY <2>3, <2>4
<1>5. \/ stage' = "off" /\ adopted' = {}
      \/ stage' \in {"apply", "put"} /\ UNCHANGED <<on, adopted>>
  BY <1>1 DEF Unchanged, StartUpdate, WriteRow, Stop
<1>6. QED
  BY <1>1, <1>4, <1>5, RecordMoved

LEMMA ErrorsRecord ==
  ASSUME IInv, RecordInv, WriteError \/ DropRow
  PROVE  RecordInv'
<1>1. stage \in {"error"} \cup Deleting /\ key \in Keys /\ UNCHANGED <<gateway, ops>>
  BY DEF WriteError, DropRow, IInv, PassStages, Writing, Deleting
<1>2. \A j \in Keys : \/ rows'[j] = NoRow \/ rows'[j].policy = 0
                      \/ rows[j] # NoRow /\ rows'[j].policy = rows[j].policy
  <2> SUFFICES ASSUME NEW j \in Keys
               PROVE  rows'[j] = NoRow \/ rows'[j].policy = 0 \/ (rows[j] # NoRow /\ rows'[j].policy = rows[j].policy)
    OBVIOUS
  <2>1. rows[j] # NoRow => rows[j] \in Rows
    BY Types
  <2>2. \A row \in Rows : \A b, c : /\ [row EXCEPT !.failed = b].policy = row.policy
                                    /\ \A d : [row EXCEPT !.failed = b, !.desired = c, !.drift = d].policy = row.policy
    BY DEF Rows
  <2>3. CASE j # key
    BY <1>1, <2>3, Types DEF WriteError, DropRow, WriteRow
  <2>4. CASE j = key /\ WriteError
    <3>1. rows'[j] = rows[j] \/ (rows'[j] = ErrorRow(j, TRUE) /\ (seen[j] # NoRow => rows[j] # NoRow))
      BY <1>1, <2>4, Types DEF WriteError, WriteRow
    <3>2. CASE seen[j] = NoRow /\ rows'[j] = ErrorRow(j, TRUE)
      BY <3>2 DEF ErrorRow
    <3>3. CASE seen[j] # NoRow /\ rows'[j] = ErrorRow(j, TRUE) /\ rows'[j] # rows[j]
      <4>1. rows[j] \in Rows /\ rows[j] # NoRow
        BY <2>1, <3>1, <3>3
      <4>2. ErrorRow(j, TRUE).policy = rows[j].policy
        BY <2>2, <3>3, <4>1 DEF ErrorRow
      <4>3. QED
        BY <3>3, <4>1, <4>2
    <3>4. QED
      BY <3>1, <3>2, <3>3
  <2>5. CASE j = key /\ DropRow
    <3>1. rows'[j] = rows[j] \/ rows'[j] = NoRow \/ (rows[j] # NoRow /\ rows'[j] = [rows[j] EXCEPT !.failed = TRUE])
      BY <1>1, <2>5, Types DEF DropRow
    <3>2. CASE rows[j] # NoRow /\ rows'[j] = [rows[j] EXCEPT !.failed = TRUE]
      <4>1. rows[j] \in Rows
        BY <2>1, <3>2
      <4>2. rows'[j].policy = rows[j].policy
        BY <2>2, <3>2, <4>1
      <4>3. QED
        BY <3>2, <4>2
    <3>3. QED
      BY <3>1, <3>2
  <2>6. QED
    BY <2>3, <2>4, <2>5
<1>3. \/ stage' = "off" /\ adopted' = {}
      \/ stage' \in {"apply", "remove"} /\ UNCHANGED <<on, adopted>>
  BY <1>1 DEF WriteError, DropRow, WriteRow, Stop, Proceed
<1>4. QED
  BY <1>1, <1>2, <1>3, RecordMoved DEF Deleting

LEMMA EndHalfRecord == ASSUME IInv, RecordInv, EndHalf PROVE RecordInv'
<1>1. /\ stage = "remove" /\ stage' \in {"plan", "sweep"}
      /\ UNCHANGED <<gateway, rows, ops, on, adopted>>
      /\ stage' = "sweep" => sweeping' = {i \in DOMAIN ops : ops[i].status = "applied" /\ ~ByRow(ops[i].policy)}
  BY DEF EndHalf
<1>2. \A p : (ByOp(p)' <=> ByOp(p)) /\ (ByRow(p)' <=> ByRow(p))
  BY <1>1 DEF ByOp, ByRow
<1>3. LiveIds' = LiveIds
  BY <1>1 DEF LiveIds
<1>4. RowsOnRecord' /\ MadeOnRecord' /\ OnKnown'
  BY <1>1, <1>2, <1>3, RecordKept
<1>5. SweepsUnheld'
  <2>1. stage' = "sweep" => \A i \in sweeping' : ~ByRow(ops[i].policy)
    BY <1>1
  <2>2. stage' = "sweep" => \A i \in sweeping' : ~ByRow(ops[i].policy)'
    BY <1>1, <2>1 DEF ByRow
  <2>3. QED
    BY <1>1, <2>2 DEF SweepsUnheld
<1>6. Sending'
  BY <1>1 DEF Sending
<1>7. QED
  BY <1>4, <1>5, <1>6 DEF RecordInv

\* What is made or taken up is on record before a row holds it.
LEMMA ReclaimRecord == ASSUME IInv, RecordInv, Reclaim PROVE RecordInv'
<1>1. PICK p \in adopted : made' = p /\ adopted' = adopted \ {p}
  BY DEF Reclaim
<1>2. stage = "create" /\ stage' = "record" /\ UNCHANGED <<gateway, rows, ops, on>>
  BY DEF Reclaim
<1>3. \A q : (ByOp(q)' <=> ByOp(q))
  BY <1>2 DEF ByOp
<1>4. LiveIds' = LiveIds
  BY <1>2 DEF LiveIds
<1>5. ByOp(made)'
  <2>1. ByOp(p)'
    BY <1>2, <1>3 DEF RecordInv, MadeOnRecord
  <2>2. QED
    BY <1>1, <2>1
<1>6. RowsOnRecord' /\ MadeOnRecord' /\ OnKnown'
  BY <1>1, <1>2, <1>3, <1>4, <1>5, RecordKept
<1>7. QED
  BY <1>2, <1>6 DEF RecordInv, Sending, SweepsUnheld

LEMMA RecordPolicyRecord == ASSUME IInv, RecordInv, RecordPolicy PROVE RecordInv'
<1>1. /\ stage \in {"putrow", "record"} /\ key \in Keys /\ UNCHANGED <<gateway, ops>>
  BY DEF RecordPolicy, IInv, PassStages, Writing
<1>2. \A q : (ByOp(q)' <=> ByOp(q))
  BY <1>1 DEF ByOp
<1>3. LiveIds' = LiveIds
  BY <1>1 DEF LiveIds
<1>4. \/ stage' = "off" /\ adopted' = {}
      \/ stage' = "apply" /\ UNCHANGED <<on, adopted>>
  BY DEF RecordPolicy, WriteRow, Stop, Proceed
<1>5. \A j \in Keys : \/ rows'[j] = NoRow \/ rows'[j].policy = 0 \/ ByOp(rows[j].policy)'
                      \/ rows[j] # NoRow /\ rows'[j].policy = rows[j].policy
  <2> SUFFICES ASSUME NEW j \in Keys
               PROVE  rows'[j] = NoRow \/ ByOp(rows[j].policy)' \/ (rows[j] # NoRow /\ rows'[j].policy = rows[j].policy)
    OBVIOUS
  <2>1. CASE rows'[j] = rows[j]
    BY <2>1
  <2>2. CASE rows'[j] # rows[j]
    <3>1. j = key /\ rows'[j] = Clean(key)
      BY <1>1, <2>2, Types DEF RecordPolicy, WriteRow
    <3>2. PICK m : m = made
      OBVIOUS
    <3>3. rows'[j].policy = m
      BY <3>1, <3>2 DEF Clean
    <3>4. ByOp(m)'
      BY <1>1, <1>2, <3>2 DEF RecordInv, MadeOnRecord
    <3>5. QED
      BY <3>3, <3>4
  <2>3. QED
    BY <2>1, <2>2
<1>6. RowsOnRecord' /\ MadeOnRecord' /\ OnKnown'
  BY <1>1, <1>2, <1>3, <1>4, <1>5, RecordKept
<1>7. QED
  BY <1>4, <1>6 DEF RecordInv, Sending, SweepsUnheld

\* The list of policies is of all there are.
LEMMA ListRecord == ASSUME IInv, Apart, RecordInv, ListPolicies PROVE RecordInv'
<1>1. /\ stage = "off" /\ stage' = "listed" /\ on' = LiveIds /\ UNCHANGED <<gateway, rows, ops, adopted>>
  BY DEF ListPolicies
<1>2. \A q : (ByOp(q)' <=> ByOp(q))
  BY <1>1 DEF ByOp
<1>3. LiveIds' = LiveIds
  BY <1>1 DEF LiveIds
<1>4. RowsOnRecord' /\ MadeOnRecord' /\ OnKnown'
  BY <1>1, <1>2, <1>3, RecordKept
<1>5. QED
  BY <1>1, <1>4 DEF RecordInv, Sending, SweepsUnheld

LEMMA OpenFacts ==
  ASSUME IInv, OpenCreate
  PROVE  /\ Len(ops') = Len(ops) + 1 /\ Len(ops') \in DOMAIN ops' /\ Len(ops') \notin DOMAIN ops
         /\ \A i \in DOMAIN ops : i \in DOMAIN ops' /\ ops'[i] = ops[i]
         /\ \A i \in DOMAIN ops' : i \in DOMAIN ops \/ i = Len(ops')
         /\ LET op == ops'[Len(ops')] IN
              op.status = "pending" /\ op.key = key /\ op.content = plan[key] /\ ~op.old /\ ~op.flying
<1> DEFINE op == [key |-> key, content |-> plan[key], policy |-> 0, old |-> FALSE,
                  flying |-> FALSE, status |-> "pending"]
<1>1. ops' = Append(ops, op)
  BY DEF OpenCreate, OpenCreateAs
<1>2. op.status = "pending" /\ op.key = key /\ op.content = plan[key] /\ ~op.old /\ ~op.flying
  OBVIOUS
<1> HIDE DEF op
<1>3. ops \in Seq(Ops) /\ Len(ops) \in Nat /\ DOMAIN ops = 1..Len(ops)
  BY OpTypes
<1>4. /\ Len(ops') = Len(ops) + 1 /\ DOMAIN ops' = 1..(Len(ops) + 1)
      /\ \A i \in 1..(Len(ops) + 1) : ops'[i] = IF i = Len(ops) + 1 THEN op ELSE ops[i]
  BY <1>1, <1>3
<1>5. QED
  BY <1>2, <1>3, <1>4

LEMMA OpenCreateRecord == ASSUME IInv, RecordInv, OpenCreate PROVE RecordInv'
<1>1. /\ stage = "create" /\ stage' = "post"
      /\ UNCHANGED <<gateway, rows, on, adopted, key, plan>>
  BY DEF OpenCreate, OpenCreateAs
<1>2. \A q : (ByOp(q)' <=> ByOp(q))
  BY OpenFacts DEF ByOp
<1>3. LiveIds' = LiveIds
  BY <1>1 DEF LiveIds
<1>4. RowsOnRecord' /\ MadeOnRecord' /\ OnKnown'
  BY <1>1, <1>2, <1>3, RecordKept
<1>5. Sending'
  <2>1. Len(ops') >= 1
    BY OpenFacts, OpTypes
  <2>2. QED
    BY <1>1, <2>1, OpenFacts DEF Sending, Newest
<1>6. QED
  BY <1>1, <1>4, <1>5 DEF RecordInv, SweepsUnheld

\* What the matching does to the operations.
Settled(match) ==
  /\ DOMAIN ops' = DOMAIN ops
  /\ \A i \in DOMAIN ops : /\ ops'[i].key = ops[i].key /\ ops'[i].content = ops[i].content
                           /\ ops'[i].old = ops[i].old /\ ops'[i].flying = ops[i].flying
  /\ \A i \in DOMAIN ops \ Pending : ops'[i] = ops[i]
  /\ \A i \in Pending :
       /\ match[i] # 0 => ops'[i].status = "applied" /\ ops'[i].policy = match[i] /\ match[i] \in on
       /\ match[i] = 0 /\ ops[i].old => ops'[i].status = "failed"
       /\ match[i] = 0 /\ ~ops[i].old => ops'[i] = ops[i]

LEMMA OpWritten ==
  ASSUME NEW o \in Ops, NEW s, NEW p
  PROVE  /\ [o EXCEPT !.status = s, !.policy = p].status = s
         /\ [o EXCEPT !.status = s, !.policy = p].policy = p
         /\ [o EXCEPT !.status = s, !.policy = p].key = o.key
         /\ [o EXCEPT !.status = s, !.policy = p].content = o.content
         /\ [o EXCEPT !.status = s, !.policy = p].old = o.old
         /\ [o EXCEPT !.status = s, !.policy = p].flying = o.flying
         /\ [o EXCEPT !.status = s].status = s
         /\ [o EXCEPT !.status = s].policy = o.policy
         /\ [o EXCEPT !.status = s].key = o.key
         /\ [o EXCEPT !.status = s].content = o.content
         /\ [o EXCEPT !.status = s].old = o.old
         /\ [o EXCEPT !.status = s].flying = o.flying
BY DEF Ops

LEMMA SettleFacts ==
  ASSUME IInv, SettleLostCreates
  PROVE  \E match \in [Pending -> on \cup {0}] :
           Matches(match, Carries) /\ Settled(match) /\ adopted' = {match[i] : i \in Pending} \ {0}
<1>1. PICK match \in [Pending -> on \cup {0}] :
        /\ Matches(match, Carries)
        /\ ops' = [i \in DOMAIN ops |->
             IF i \notin Pending THEN ops[i]
             ELSE IF match[i] # 0 THEN [ops[i] EXCEPT !.status = "applied", !.policy = match[i]]
             ELSE IF ops[i].old THEN [ops[i] EXCEPT !.status = "failed"]
             ELSE ops[i]]
        /\ adopted' = {match[i] : i \in Pending} \ {0}
  BY DEF SettleLostCreates, SettleLostCreatesBy
<1>4. Pending \subseteq DOMAIN ops /\ \A i \in DOMAIN ops : ops[i] \in Ops
  BY OpTypes DEF Pending
<1>5. DOMAIN ops' = DOMAIN ops
  BY <1>1
<1>6. ASSUME NEW i \in DOMAIN ops
      PROVE  /\ i \notin Pending => ops'[i] = ops[i]
             /\ i \in Pending /\ match[i] # 0 => ops'[i] = [ops[i] EXCEPT !.status = "applied", !.policy = match[i]]
             /\ i \in Pending /\ match[i] = 0 /\ ops[i].old => ops'[i] = [ops[i] EXCEPT !.status = "failed"]
             /\ i \in Pending /\ match[i] = 0 /\ ~ops[i].old => ops'[i] = ops[i]
  BY <1>1
<1>7. ASSUME NEW i \in DOMAIN ops
      PROVE  /\ ops'[i].key = ops[i].key /\ ops'[i].content = ops[i].content
             /\ ops'[i].old = ops[i].old /\ ops'[i].flying = ops[i].flying
             /\ i \in Pending /\ match[i] # 0 => ops'[i].status = "applied" /\ ops'[i].policy = match[i]
             /\ i \in Pending /\ match[i] = 0 /\ ops[i].old => ops'[i].status = "failed"
  <2>1. PICK o \in Ops : o = ops[i]
    BY <1>4
  <2>2. PICK p : p = match[i]
    OBVIOUS
  <2>3. \/ ops'[i] = o /\ (i \notin Pending \/ (p = 0 /\ ~o.old))
        \/ ops'[i] = [o EXCEPT !.status = "applied", !.policy = p] /\ (i \notin Pending \/ p # 0)
        \/ ops'[i] = [o EXCEPT !.status = "failed"] /\ (i \notin Pending \/ p = 0)
    BY <1>6, <2>1, <2>2
  <2>4. /\ ops'[i].key = o.key /\ ops'[i].content = o.content /\ ops'[i].old = o.old /\ ops'[i].flying = o.flying
        /\ i \in Pending /\ p # 0 => ops'[i].status = "applied" /\ ops'[i].policy = p
        /\ i \in Pending /\ p = 0 /\ o.old => ops'[i].status = "failed"
    BY <2>3 DEF Ops
  <2>5. QED
    BY <2>1, <2>2, <2>4
<1>8. ASSUME NEW i \in Pending
      PROVE  /\ match[i] # 0 => ops'[i].status = "applied" /\ ops'[i].policy = match[i] /\ match[i] \in on
             /\ match[i] = 0 /\ ops[i].old => ops'[i].status = "failed"
             /\ match[i] = 0 /\ ~ops[i].old => ops'[i] = ops[i]
  <2>1. i \in DOMAIN ops /\ match[i] \in on \cup {0}
    BY <1>4
  <2>2. QED
    BY <1>6, <1>7, <2>1
<1>9. Settled(match)
  BY <1>4, <1>5, <1>6, <1>7, <1>8 DEF Settled
<1>10. QED
  BY <1>1, <1>9

\* A match is of a listed policy that nothing claimed, that carries the write,
\* and that no older operation took; where there was none, there is no match.
LEMMA MatchFacts ==
  ASSUME IInv, NEW match \in [Pending -> on \cup {0}], Matches(match, Carries), NEW i \in Pending
  PROVE  /\ match[i] # 0 => /\ match[i] \in on /\ ~Claimed(match[i]) /\ Carries(copies[match[i]], ops[i])
                            /\ \A j \in Pending : j # i => match[j] # match[i]
         /\ \A p \in on : ~Claimed(p) /\ Carries(copies[p], ops[i]) =>
              (match[i] # 0 /\ match[i] <= p) \/ \E j \in Pending : j < i /\ match[j] = p
<1>1. ASSUME NEW n \in Pending
      PROVE  /\ match[n] # 0 => /\ match[n] \in on /\ ~Claimed(match[n]) /\ Carries(copies[match[n]], ops[n])
                                /\ \A j \in Pending : j < n => match[j] # match[n]
             /\ \A p \in on : ~Claimed(p) /\ Carries(copies[p], ops[n]) =>
                  (match[n] # 0 /\ match[n] <= p) \/ \E j \in Pending : j < n /\ match[j] = p
  <2> DEFINE open == {p \in on : /\ ~Claimed(p) /\ Carries(copies[p], ops[n])
                                 /\ \A j \in Pending : j < n => match[j] # p}
  <2>1. IF open = {} THEN match[n] = 0 ELSE match[n] \in open /\ \A p \in open : match[n] <= p
    BY DEF Matches
  <2>2. 0 \notin on
    BY Types
  <2>3. QED
    BY <2>1, <2>2
<1>2. \A n \in Pending : n \in Nat
  BY OpTypes DEF Pending
<1>3. match[i] # 0 => \A j \in Pending : j # i => match[j] # match[i]
  <2> SUFFICES ASSUME match[i] # 0, NEW j \in Pending, j # i, match[j] = match[i] PROVE FALSE
    OBVIOUS
  <2>1. CASE j < i
    BY <1>1, <2>1
  <2>2. CASE i < j
    BY <1>1, <2>2
  <2>3. QED
    BY <1>2, <2>1, <2>2
<1>4. QED
  BY <1>1, <1>3

LEMMA SettleRecord == ASSUME IInv, RecordInv, SettleLostCreates PROVE RecordInv'
<1>1. PICK match \in [Pending -> on \cup {0}] :
        Matches(match, Carries) /\ Settled(match) /\ adopted' = {match[i] : i \in Pending} \ {0}
  BY SettleFacts
<1>2. stage = "listed" /\ stage' = "plan" /\ UNCHANGED <<gateway, rows, on>>
  BY DEF SettleLostCreates, SettleLostCreatesBy
<1>3. LiveIds' = LiveIds
  BY <1>2 DEF LiveIds
<1>4. \A p : ByOp(p) => ByOp(p)'
  BY <1>1 DEF ByOp, Settled, Pending
<1>5. \A p : ByOp(p)' => ByOp(p) \/ (p \in DOMAIN gateway /\ p \in on')
  <2> SUFFICES ASSUME NEW p, ByOp(p)', ~ByOp(p) PROVE p \in on
    BY <1>2, Types
  <2>1. PICK i \in DOMAIN ops' : ops'[i].status = "applied" /\ ops'[i].policy = p
    BY DEF ByOp
  <2>2. i \in DOMAIN ops /\ i \in Pending
    BY <1>1, <2>1 DEF ByOp, Settled
  <2>3. match[i] # 0
    BY <1>1, <2>1, <2>2 DEF Settled, Pending
  <2>4. QED
    BY <1>1, <2>1, <2>2, <2>3 DEF Settled
<1>6. \A p \in adopted' : ByOp(p)'
  BY <1>1 DEF ByOp, Settled, Pending
<1>7. RowsOnRecord' /\ MadeOnRecord' /\ OnKnown'
  BY <1>2, <1>3, <1>4, <1>5, <1>6, RecordKept
<1>8. QED
  BY <1>2, <1>7 DEF RecordInv, Sending, SweepsUnheld

\* What FamilyFi claims is on record.
LEMMA ClaimedOnRecord ==
  ASSUME IInv, RecordInv, NEW p, p # 0, Claimed(p)
  PROVE  ByOp(p)
BY DEF RecordInv, RowsOnRecord, Claimed, ByRow

LEMMA PutRecord == ASSUME IInv, RecordInv, Put \/ PutFails PROVE RecordInv'
<1>1. PICK p : p = seen[key].policy
  OBVIOUS
<1>2. /\ stage = "put" /\ stage' \in {"putrow", "error", "create"}
      /\ UNCHANGED <<rows, ops, on, adopted>>
      /\ \/ UNCHANGED gateway /\ stage' # "putrow"
         \/ p \in LiveIds /\ Claimed(p) /\ gateway' = PutBack(gateway, p, plan[key]) /\ (stage' = "putrow" => made' = p)
  BY <1>1 DEF Put, PutFails
<1>3. \A q : (ByOp(q)' <=> ByOp(q))
  BY <1>2 DEF ByOp
<1>4. DOMAIN gateway' = DOMAIN gateway /\ LiveIds' \subseteq LiveIds
  <2>1. CASE UNCHANGED gateway
    BY <2>1 DEF LiveIds
  <2>2. CASE p \in LiveIds /\ gateway' = PutBack(gateway, p, plan[key])
    BY <1>1, <1>2, <2>2, PutFacts DEF LiveIds
  <2>3. QED
    BY <1>2, <2>1, <2>2
<1>5. stage' = "putrow" => ByOp(made)'
  <2> SUFFICES ASSUME stage' = "putrow" PROVE ByOp(made)'
    OBVIOUS
  <2>1. p \in LiveIds /\ Claimed(p) /\ made' = p
    BY <1>2
  <2>2. ByOp(p)'
    BY <1>3, <2>1, LiveFacts, ClaimedOnRecord
  <2>3. QED
    BY <2>1, <2>2
<1>6. RowsOnRecord' /\ MadeOnRecord' /\ OnKnown'
  BY <1>2, <1>3, <1>4, <1>5, RecordKept
<1>7. QED
  BY <1>2, <1>6 DEF RecordInv, Sending, SweepsUnheld

LEMMA PostRecord == ASSUME IInv, RecordInv, Post PROVE RecordInv'
<1> DEFINE copy == [key |-> key, content |-> plan[key]]
<1>1. /\ stage = "post" /\ stage' = "applied" /\ gateway' = Append(gateway, copy) /\ made' = Len(gateway')
      /\ UNCHANGED <<rows, ops, on, adopted, key, plan>>
  BY DEF Post
<1>2. /\ gateway'[Len(gateway')] = copy
      /\ Len(gateway') \in DOMAIN gateway' /\ Len(gateway') \notin DOMAIN gateway /\ Len(gateway') \in Nat
      /\ \A q \in DOMAIN gateway : q \in DOMAIN gateway' /\ gateway'[q] = gateway[q]
  BY <1>1, AppendFacts DEF OnlyTaken
<1>3. \A q : (ByOp(q)' <=> ByOp(q))
  BY <1>1 DEF ByOp
<1>4. \A p \in LiveIds' : p \in LiveIds \/ p \notin DOMAIN gateway
  BY <1>2 DEF LiveIds
<1>5. RowsOnRecord' /\ MadeOnRecord' /\ OnKnown'
  BY <1>1, <1>2, <1>3, <1>4, RecordKept
<1>6. Sending'
  <2>1. PICK m : m = Len(gateway')
    OBVIOUS
  <2>2. ~ByOp(m)'
    BY <1>2, <1>3, <2>1 DEF RecordInv, MadeOnRecord
  <2>3. ~ByOp(made)'
    BY <1>1, <2>1, <2>2
  <2>4. QED
    BY <1>1, <1>2, <2>3 DEF RecordInv, Sending, Newest
<1>7. QED
  BY <1>1, <1>5, <1>6 DEF RecordInv, SweepsUnheld

LEMMA PostFailsRecord == ASSUME IInv, RecordInv, PostFails PROVE RecordInv'
<1> DEFINE copy == [key |-> key, content |-> plan[key]]
<1>1. /\ stage = "post" /\ stage' = "error" /\ UNCHANGED <<rows, on, adopted>>
      /\ gateway' = gateway \/ gateway' = Append(gateway, copy)
      /\ \/ ops' = ops \/ ops' = [ops EXCEPT ![Newest] = [ops[Newest] EXCEPT !.status = "failed"]]
         \/ ops' = [ops EXCEPT ![Newest] = [ops[Newest] EXCEPT !.flying = TRUE]]
  BY DEF PostFails
<1>2. \A q \in DOMAIN gateway : q \in DOMAIN gateway' /\ gateway'[q] = gateway[q]
  BY <1>1, AppendFacts
<1>3. \A p \in LiveIds' : p \in LiveIds \/ p \notin DOMAIN gateway
  BY <1>2 DEF LiveIds
<1>4. Newest \in DOMAIN ops /\ ops[Newest].status = "pending" /\ ops[Newest] \in Ops
  BY <1>1, OpTypes DEF RecordInv, Sending, Newest
<1>5. ops'[Newest].status # "applied" /\ DOMAIN ops' = DOMAIN ops /\ \A i \in DOMAIN ops : i # Newest => ops'[i] = ops[i]
  BY <1>1, <1>4 DEF Ops
<1>6. \A q : (ByOp(q)' <=> ByOp(q))
  BY <1>4, <1>5 DEF ByOp
<1>7. RowsOnRecord' /\ MadeOnRecord' /\ OnKnown'
  BY <1>1, <1>2, <1>3, <1>6, RecordKept
<1>8. QED
  BY <1>1, <1>7 DEF RecordInv, Sending, SweepsUnheld

LEMMA ApplyFacts ==
  ASSUME IInv, RecordInv, ApplyOperation
  PROVE  /\ Newest \in DOMAIN ops /\ Newest \in Pending
         /\ ops'[Newest].status = "applied" /\ ops'[Newest].policy = made
         /\ ops'[Newest].old = ops[Newest].old /\ ops'[Newest].flying = ops[Newest].flying
         /\ DOMAIN ops' = DOMAIN ops /\ \A i \in DOMAIN ops : i # Newest => ops'[i] = ops[i]
         /\ \A q : ByOp(q)' <=> ByOp(q) \/ q = made
<1>1. stage = "applied" /\ ops' = [ops EXCEPT ![Newest] = [ops[Newest] EXCEPT !.status = "applied", !.policy = made]]
  BY DEF ApplyOperation
<1>2. Newest \in DOMAIN ops /\ ops[Newest].status = "pending" /\ ops[Newest] \in Ops
  BY <1>1, OpTypes DEF RecordInv, Sending, Newest
<1>3. ops'[Newest] = [ops[Newest] EXCEPT !.status = "applied", !.policy = made]
      /\ DOMAIN ops' = DOMAIN ops /\ \A i \in DOMAIN ops : i # Newest => ops'[i] = ops[i]
  BY <1>1, <1>2
<1>5. /\ ops'[Newest].status = "applied" /\ ops'[Newest].policy = made
      /\ ops'[Newest].old = ops[Newest].old /\ ops'[Newest].flying = ops[Newest].flying
  <2>1. PICK o \in Ops : o = ops[Newest]
    BY <1>2
  <2>2. ops'[Newest] = [o EXCEPT !.status = "applied", !.policy = made]
    BY <1>3, <2>1
  <2>3. QED
    BY <2>1, <2>2, OpWritten
<1>6. ASSUME NEW q PROVE ByOp(q)' <=> ByOp(q) \/ q = made
  <2>1. ByOp(q) => ByOp(q)'
    BY <1>2, <1>3 DEF ByOp
  <2>2. ASSUME q = made PROVE ByOp(q)'
    <3>1. Newest \in DOMAIN ops' /\ ops'[Newest].status = "applied" /\ ops'[Newest].policy = q
      BY <1>2, <1>3, <1>5, <2>2
    <3> HIDE DEF Newest
    <3>2. PICK n : n = Newest
      OBVIOUS
    <3>3. \E i \in DOMAIN ops' : ops'[i].status = "applied" /\ ops'[i].policy = q
      BY <3>1, <3>2
    <3>4. QED
      BY <3>3 DEF ByOp
  <2>3. ASSUME ByOp(q)' PROVE ByOp(q) \/ q = made
    <3>1. PICK i \in DOMAIN ops' : ops'[i].status = "applied" /\ ops'[i].policy = q
      BY <2>3 DEF ByOp
    <3>2. QED
      BY <1>3, <1>5, <3>1 DEF ByOp
  <2>4. QED
    BY <2>1, <2>2, <2>3
<1>7. QED
  BY <1>2, <1>3, <1>5, <1>6 DEF Pending

LEMMA ApplyRecord == ASSUME IInv, RecordInv, ApplyOperation PROVE RecordInv'
<1>1. /\ stage = "applied" /\ stage' = "record" /\ on' = on \cup {made}
      /\ UNCHANGED <<gateway, rows, adopted, made>>
  BY DEF ApplyOperation
<1>2. LiveIds' = LiveIds
  BY <1>1 DEF LiveIds
<1>3. PICK m : m = made
  OBVIOUS
<1>4. ByOp(m)' /\ m \in DOMAIN gateway
  BY <1>1, <1>3, ApplyFacts DEF RecordInv, Sending
<1>5. ByOp(made)'
  BY <1>1, <1>3, <1>4
<1>6. RowsOnRecord' /\ MadeOnRecord' /\ OnKnown'
  BY <1>1, <1>2, <1>3, <1>4, <1>5, ApplyFacts, RecordKept
<1>7. QED
  BY <1>1, <1>6 DEF RecordInv, Sending, SweepsUnheld

LEMMA DeleteTakes ==
  ASSUME IInv, NEW p, p # 1, gateway' \in {gateway, DeleteFrom(gateway, p)}
  PROVE  /\ DOMAIN gateway' = DOMAIN gateway /\ LiveIds' \subseteq LiveIds
         /\ gateway' = DeleteFrom(gateway, p) => p \notin LiveIds'
         /\ \A q \in DOMAIN gateway : gateway'[q] = gateway[q] \/ (q = p /\ gateway'[q].content = "gone")
<1>1. CASE gateway' = gateway /\ (gateway' # DeleteFrom(gateway, p) \/ p \notin LiveIds)
  BY <1>1 DEF LiveIds
<1>2. CASE gateway' = DeleteFrom(gateway, p) /\ p \in LiveIds
  <2>1. p \in 2..Len(gateway) /\ gateway[p].content # "gone"
    BY <1>2, LiveFacts, Types
  <2>2. gateway[p] \in Copies
    BY <2>1, Types DEF GoodGateway
  <2>3. gateway' = [gateway EXCEPT ![p] = [gateway[p] EXCEPT !.content = "gone"]]
    BY <1>2 DEF DeleteFrom
  <2>4. [gateway[p] EXCEPT !.content = "gone"].content = "gone"
    BY <2>2 DEF Copies
  <2>5. /\ DOMAIN gateway' = DOMAIN gateway /\ gateway'[p].content = "gone"
        /\ \A q \in DOMAIN gateway : q # p => gateway'[q] = gateway[q]
    BY <2>1, <2>3, <2>4, Types
  <2>6. QED
    BY <2>5 DEF LiveIds
<1>3. CASE gateway' = DeleteFrom(gateway, p) /\ p \notin LiveIds
  BY <1>1, <1>3 DEF DeleteFrom
<1>4. QED
  BY <1>1, <1>2, <1>3

LEMMA DeleteRecord == ASSUME IInv, RecordInv, Delete \/ DeleteFails PROVE RecordInv'
<1>1. PICK p : p = seen[key].policy
  OBVIOUS
<1>2. /\ stage = "delete" /\ stage' \in {"deleterow", "deleteerror"}
      /\ UNCHANGED <<rows, ops, adopted>>
      /\ \/ gateway' \in {gateway, DeleteFrom(gateway, p)} /\ on' = on
         \/ gateway' = DeleteFrom(gateway, p) /\ on' = on \ {p}
  BY <1>1 DEF Delete, DeleteFails
<1>3. p # 1
  BY <1>1, <1>2 DEF IInv, PassTypes, PassStages, GoodRows, Deleting
<1>4. /\ DOMAIN gateway' = DOMAIN gateway /\ LiveIds' \subseteq LiveIds
      /\ \A q \in on : q \in on' \/ q \notin LiveIds'
  BY <1>2, <1>3, DeleteTakes
<1>5. \A q : (ByOp(q)' <=> ByOp(q))
  BY <1>2 DEF ByOp
<1>6. RowsOnRecord' /\ MadeOnRecord' /\ OnKnown'
  BY <1>2, <1>4, <1>5, RecordKept
<1>7. QED
  BY <1>2, <1>6 DEF RecordInv, Sending, SweepsUnheld

\* The sweep closes operations whose policy no row holds.
LEMMA SweepRecord ==
  ASSUME IInv, RecordInv, NEW i \in DOMAIN ops, Sweep(i) \/ SweepFails(i)
  PROVE  RecordInv'
<1>1. PICK p : p = ops[i].policy
  OBVIOUS
<1>2. /\ stage = "sweep" /\ i \in sweeping /\ UNCHANGED <<stage, rows, adopted>> /\ sweeping' = sweeping \ {i}
      /\ ops' = ops \/ ops' = [ops EXCEPT ![i] = [ops[i] EXCEPT !.status = "removed"]]
      /\ \/ gateway' \in {gateway, DeleteFrom(gateway, p)} /\ on' = on
         \/ gateway' = DeleteFrom(gateway, p) /\ on' = on \ {p}
         \/ gateway' = gateway /\ on' = on \ {p} /\ p \notin on
  BY <1>1 DEF Sweep, SweepFails
<1>3. p # 1 /\ ~ByRow(p)
  BY <1>1, <1>2, OpOfSeq DEF IInv, World, RecordInv, SweepsUnheld
<1>4. /\ DOMAIN gateway' = DOMAIN gateway /\ LiveIds' \subseteq LiveIds
      /\ \A q \in on : q \in on' \/ q \notin LiveIds'
  BY <1>2, <1>3, DeleteTakes
<1>5. /\ DOMAIN ops' = DOMAIN ops /\ \A j \in DOMAIN ops : j # i => ops'[j] = ops[j]
      /\ ops'[i] = ops[i] \/ ops'[i].status = "removed"
      /\ \A j \in DOMAIN ops : ops'[j].policy = ops[j].policy
  <2>1. ops[i] \in Ops /\ ops \in Seq(Ops)
    BY OpTypes
  <2>2. [ops[i] EXCEPT !.status = "removed"].status = "removed" /\ [ops[i] EXCEPT !.status = "removed"].policy = ops[i].policy
    BY <2>1 DEF Ops
  <2>3. CASE ops' = ops
    BY <2>3
  <2>4. CASE ops' = [ops EXCEPT ![i] = [ops[i] EXCEPT !.status = "removed"]]
    <3>1. DOMAIN ops' = DOMAIN ops /\ \A j \in DOMAIN ops : ops'[j] = IF j = i THEN [ops[i] EXCEPT !.status = "removed"] ELSE ops[j]
      BY <2>4
    <3>2. QED
      BY <2>2, <3>1
  <2>5. QED
    BY <1>2, <2>3, <2>4
<1>6. \A q : ByOp(q)' => ByOp(q)
  BY <1>5 DEF ByOp
<1>7. \A q : ByOp(q) => ByOp(q)' \/ q = p
  BY <1>1, <1>5 DEF ByOp
<1>8. RowsOnRecord' /\ MadeOnRecord' /\ OnKnown'
  BY <1>2, <1>3, <1>4, <1>6, <1>7, RecordKept
<1>9. SweepsUnheld'
  <2> SUFFICES ASSUME NEW j \in sweeping' PROVE ~ByRow(ops[j].policy)'
    BY DEF SweepsUnheld
  <2>1. j \in sweeping /\ j \in DOMAIN ops
    BY <1>2 DEF IInv, PassTypes
  <2>2. ~ByRow(ops[j].policy)
    BY <1>2, <2>1 DEF RecordInv, SweepsUnheld
  <2>3. ops'[j].policy = ops[j].policy
    BY <1>5, <2>1
  <2>4. QED
    BY <1>2, <2>2, <2>3 DEF ByRow
<1>10. QED
  BY <1>2, <1>8, <1>9 DEF RecordInv, Sending

\* What happens meanwhile names no operation's policy anew, and of the policies
\* already there changes only what they say.
LEMMA MeanwhileSays ==
  ASSUME IInv, Meanwhile \/ UNCHANGED vars
  PROVE  /\ DOMAIN ops' = DOMAIN ops
         /\ \A i \in DOMAIN ops :
              /\ ops'[i].key = ops[i].key /\ ops'[i].content = ops[i].content
              /\ ops'[i].policy = ops[i].policy /\ ops'[i].status = ops[i].status
              /\ ops'[i] = ops[i] \/ ops[i].flying \/ stage = "off"
         /\ DOMAIN gateway \subseteq DOMAIN gateway'
         /\ \A p \in DOMAIN gateway :
              /\ \/ gateway'[p] = gateway[p]
                 \/ gateway'[p].key = gateway[p].key /\ gateway'[p].content \in {"edited", "gone"}
              /\ p \in LiveIds' => p \in LiveIds
<1> DEFINE SameOps == \A i \in DOMAIN ops :
                        /\ ops'[i].key = ops[i].key /\ ops'[i].content = ops[i].content
                        /\ ops'[i].policy = ops[i].policy /\ ops'[i].status = ops[i].status
                        /\ ops'[i] = ops[i] \/ ops[i].flying \/ stage = "off"
           SamePolicies == \A p \in DOMAIN gateway :
                        /\ \/ gateway'[p] = gateway[p]
                           \/ gateway'[p].key = gateway[p].key /\ gateway'[p].content \in {"edited", "gone"}
                        /\ p \in LiveIds' => p \in LiveIds
<1>1. CASE UNCHANGED <<gateway, ops>>
  BY <1>1 DEF LiveIds
<1>2. ASSUME NEW i \in DOMAIN ops, NEW f \in {"old", "flying"}, NEW v,
             ops' = [ops EXCEPT ![i] = [ops[i] EXCEPT ![f] = v]], ops[i].flying \/ stage = "off"
      PROVE  DOMAIN ops' = DOMAIN ops /\ SameOps
  <2>1. ops[i] \in Ops
    BY OpTypes
  <2>2. /\ [ops[i] EXCEPT ![f] = v].key = ops[i].key /\ [ops[i] EXCEPT ![f] = v].content = ops[i].content
        /\ [ops[i] EXCEPT ![f] = v].policy = ops[i].policy /\ [ops[i] EXCEPT ![f] = v].status = ops[i].status
    BY <2>1 DEF Ops
  <2>3. DOMAIN ops' = DOMAIN ops /\ \A j \in DOMAIN ops : ops'[j] = IF j = i THEN [ops[i] EXCEPT ![f] = v] ELSE ops[j]
    BY <1>2
  <2>4. QED
    BY <1>2, <2>2, <2>3
<1>3. CASE \E i \in DOMAIN ops : Age(i)
  <2>1. PICK i \in DOMAIN ops : Age(i)
    BY <1>3
  <2>2. ops' = [ops EXCEPT ![i] = [ops[i] EXCEPT !["old"] = TRUE]] /\ stage = "off" /\ UNCHANGED gateway
    BY <2>1 DEF Age
  <2>3. DOMAIN ops' = DOMAIN ops /\ SameOps
    BY <1>2, <2>2
  <2>4. QED
    BY <2>2, <2>3 DEF LiveIds
<1>4. CASE \E i \in DOMAIN ops : LandLate(i)
  <2>1. PICK i \in DOMAIN ops : LandLate(i)
    BY <1>4
  <2>2. ops' = [ops EXCEPT ![i] = [ops[i] EXCEPT !["flying"] = FALSE]] /\ ops[i].flying
        /\ gateway' = Append(gateway, [key |-> ops[i].key, content |-> ops[i].content])
    BY <2>1 DEF LandLate
  <2>3. DOMAIN ops' = DOMAIN ops /\ SameOps
    BY <1>2, <2>2
  <2>4. \A p \in DOMAIN gateway : p \in DOMAIN gateway' /\ gateway'[p] = gateway[p]
    BY <2>2, AppendFacts
  <2>5. QED
    BY <2>3, <2>4 DEF LiveIds
<1>5. CASE RemovePolicies
  <2>1. PICK D \in SUBSET {k \in RuleKeys : rows[k] # NoRow} :
          gateway' = [p \in DOMAIN gateway |->
            IF \E k \in D : rows[k].policy = p THEN [gateway[p] EXCEPT !.content = "gone"]
                                              ELSE gateway[p]]
    BY <1>5 DEF RemovePolicies
  <2>2. \A p \in DOMAIN gateway : gateway[p] \in Copies \cup {Admin}
    BY Types DEF GoodGateway
  <2>3. \A g \in Copies \cup {Admin} : [g EXCEPT !.content = "gone"].content = "gone" /\ [g EXCEPT !.content = "gone"].key = g.key
    BY DEF Copies, Admin
  <2>4. DOMAIN gateway' = DOMAIN gateway
        /\ \A p \in DOMAIN gateway : \/ gateway'[p] = gateway[p]
                                     \/ gateway'[p].content = "gone" /\ gateway'[p].key = gateway[p].key
    BY <2>1, <2>2, <2>3
  <2>5. UNCHANGED ops
    BY <1>5 DEF RemovePolicies
  <2>6. QED
    BY <2>4, <2>5 DEF LiveIds
<1>6. CASE \E p \in DOMAIN gateway : ConsoleChange(p)
  <2>1. PICK p \in DOMAIN gateway : ConsoleChange(p)
    BY <1>6
  <2>2. PICK c \in {"edited", "gone"} : gateway' = [gateway EXCEPT ![p] = [gateway[p] EXCEPT !.content = c]]
    BY <2>1 DEF ConsoleChange, PutBack
  <2>3. gateway[p] \in Copies \cup {Admin}
    BY Types DEF GoodGateway
  <2>4. [gateway[p] EXCEPT !.content = c].content = c /\ [gateway[p] EXCEPT !.content = c].key = gateway[p].key
    BY <2>3 DEF Copies, Admin
  <2>5. p \in LiveIds /\ UNCHANGED ops
    BY <2>1 DEF ConsoleChange, Ours
  <2>6. DOMAIN gateway' = DOMAIN gateway
        /\ \A q \in DOMAIN gateway : gateway'[q] = IF q = p THEN [gateway[p] EXCEPT !.content = c] ELSE gateway[q]
    BY <2>2
  <2>7. QED
    BY <2>4, <2>5, <2>6 DEF LiveIds
<1>7. QED
  BY <1>1, <1>3, <1>4, <1>5, <1>6 DEF Meanwhile, Wish, RemoveRule, vars

LEMMA MeanwhileRecord == ASSUME IInv, RecordInv, Meanwhile \/ UNCHANGED vars PROVE RecordInv'
<1>1. /\ UNCHANGED <<stage, kind, copies, on, adopted, plan, seen, todo, key, made, sweeping>>
      /\ \A k \in Keys : rows'[k] = rows[k] \/ rows'[k] = NoRow
  BY MeanwhileTaken DEF passVars
<1>2. \A q : (ByOp(q)' <=> ByOp(q))
  BY MeanwhileSays DEF ByOp
<1>3. stage' \in {"putrow", "record"} => ByOp(made)'
  <2>1. PICK m : m = made
    OBVIOUS
  <2>2. stage' \in {"putrow", "record"} => ByOp(m)'
    BY <1>1, <1>2, <2>1 DEF RecordInv, MadeOnRecord
  <2>3. QED
    BY <1>1, <2>1, <2>2
<1>4. RowsOnRecord' /\ MadeOnRecord' /\ OnKnown'
  <2>1. \A k \in Keys : \/ rows'[k] = NoRow
                        \/ rows[k] # NoRow /\ rows'[k].policy = rows[k].policy
    BY <1>1
  <2>2. stage' \notin {"sweep", "end"} => \A p \in adopted' : p \in adopted /\ stage \notin {"sweep", "end"}
    BY <1>1
  <2>3. stage' # "off" => /\ stage # "off" /\ \A p \in on : p \in on' \/ p \notin LiveIds'
                          /\ \A p \in LiveIds' : p \in LiveIds \/ p \notin DOMAIN gateway
    BY <1>1, MeanwhileSays
  <2>4. QED
    BY <1>2, <1>3, <2>1, <2>2, <2>3, MeanwhileSays, RecordKept
<1>5. Sending'
  <2> SUFFICES ASSUME stage \in {"post", "applied"} PROVE Sending'
    BY <1>1 DEF Sending
  <2>1. /\ Len(ops) >= 1 /\ Len(ops) \in DOMAIN ops
        /\ LET op == ops[Len(ops)] IN
            op.status = "pending" /\ op.key = key /\ op.content = plan[key] /\ ~op.old /\ ~op.flying
    BY OpTypes DEF RecordInv, Sending, Newest
  <2>2. ops'[Len(ops)] = ops[Len(ops)] /\ Len(ops') = Len(ops)
    <3>1. DOMAIN ops' = 1..Len(ops') /\ Len(ops') \in Nat
      <4>1. ops' \in Seq(Ops)
        BY StepGood DEF Next, IInv, World, GoodOps
      <4>2. QED
        BY <4>1
    <3>2. DOMAIN ops' = DOMAIN ops /\ Len(ops) \in Nat /\ DOMAIN ops = 1..Len(ops)
      BY OpTypes, MeanwhileSays
    <3>3. Len(ops') = Len(ops)
      <4>1. \A a, b \in Nat : 1..a = 1..b => a = b
        <5> SUFFICES ASSUME NEW a \in Nat, NEW b \in Nat, 1..a = 1..b, a # b PROVE FALSE
          OBVIOUS
        <5>1. a \in 1..b \/ a = 0
          OBVIOUS
        <5>2. b \in 1..a \/ b = 0
          OBVIOUS
        <5>3. QED
          BY <5>1, <5>2
      <4>2. QED
        BY <3>1, <3>2, <4>1
    <3>4. ops'[Len(ops)] = ops[Len(ops)]
      <4>1. ops'[Len(ops)] = ops[Len(ops)] \/ ops[Len(ops)].flying \/ stage = "off"
        BY <2>1, MeanwhileSays
      <4>2. QED
        BY <2>1, <4>1
    <3>5. QED
      BY <3>3, <3>4
  <2>3. PICK m : m = made
    OBVIOUS
  <2>4. stage = "applied" => /\ m \in DOMAIN gateway' /\ ~ByOp(m)'
                             /\ gateway'[m].key = key /\ gateway'[m].content \in {plan[key], "edited", "gone"}
    BY <1>2, <2>3, MeanwhileSays DEF RecordInv, Sending
  <2>5. stage = "applied" => ~ByOp(made)'
    BY <1>1, <2>3, <2>4
  <2>6. QED
    BY <1>1, <2>1, <2>2, <2>3, <2>4, <2>5 DEF Sending, Newest
<1>6. SweepsUnheld'
  <2> SUFFICES ASSUME stage = "sweep", NEW i \in sweeping PROVE ~ByRow(ops[i].policy)'
    BY <1>1 DEF SweepsUnheld
  <2>1. i \in DOMAIN ops /\ ~ByRow(ops[i].policy)
    BY DEF IInv, PassTypes, RecordInv, SweepsUnheld
  <2>2. ops'[i].policy = ops[i].policy
    BY <2>1, MeanwhileSays
  <2>3. QED
    BY <1>1, <2>1, <2>2 DEF ByRow
<1>7. QED
  BY <1>4, <1>5, <1>6 DEF RecordInv

LEMMA StepsRecord == ASSUME IInv, Apart, RecordInv, [Next]_vars PROVE RecordInv'
<1>1. CASE Meanwhile \/ UNCHANGED vars
  BY <1>1, MeanwhileRecord
<1>2. CASE PassStep
  BY <1>2, ListRecord, SettleRecord, TurnsRecord, NotingRecord, PutRecord, ReclaimRecord, OpenCreateRecord,
     PostRecord, ApplyRecord, RecordPolicyRecord, ErrorsRecord, DeleteRecord, EndHalfRecord, SweepRecord
  DEF PassStep
<1>3. CASE PassFault
  BY <1>3, TurnsRecord, PutRecord, PostFailsRecord, DeleteRecord, SweepRecord DEF PassFault
<1>4. QED
  BY <1>1, <1>2, <1>3 DEF Next

LEMMA AlwaysRecord == Spec => []RecordInv
<1>1. Init => RecordInv
  BY DEF Init, RecordInv, RowsOnRecord, MadeOnRecord, OnKnown, Sending, SweepsUnheld, ByOp
<1>2. (IInv /\ Apart) /\ RecordInv /\ [Next]_vars => RecordInv'
  BY StepsRecord
<1>3. QED
  BY <1>1, <1>2, AlwaysApart, PTL DEF Spec

----------------------------------------------------------------------------
(* Policies no record holds, and the creates they may come from            *)

\* What a policy says; one the pass listed, as it listed it until it has matched it.
Told(p) == IF stage = "listed" /\ p \in on THEN copies[p] ELSE gateway[p]

ToldSo == stage = "listed" => \A p \in on : gateway[p].content \in Contents => copies[p] = gateway[p]

SweepsApplied == stage = "sweep" => \A i \in sweeping : ops[i].status = "applied"

\* A policy no operation holds, and a create that may be matched with one; but
\* for the create being sent.
Missing(p) == p \in DOMAIN gateway /\ ~ByOp(p) /\ ~(stage = "applied" /\ p = made)
Waits(i)   == i \in Pending /\ ~(stage \in {"post", "applied"} /\ i = Newest)

\* A step that leaves no policy without the create it may be matched to.
Steady ==
  /\ \A p : Missing(p)' /\ Told(p)'.content \in Contents => Missing(p) /\ Told(p)' = Told(p)
  /\ \A i \in DOMAIN ops :
       /\ i \in DOMAIN ops' /\ ops'[i].key = ops[i].key /\ ops'[i].content = ops[i].content
       /\ ops'[i].flying => ops[i].flying
       /\ Waits(i) => Waits(i)'
  /\ \A i \in DOMAIN ops' : ops'[i].flying => i \in DOMAIN ops

Aged == \A i \in DOMAIN ops' : ops'[i].old => i \in DOMAIN ops /\ ops[i].old

LEMMA SteadyStep ==
  ASSUME IInv, ToldSo, UNCHANGED ops,
         \A p \in DOMAIN gateway' : \/ p \in DOMAIN gateway /\ gateway'[p] = gateway[p]
                                    \/ ByOp(p)' \/ gateway'[p].content \notin Contents,
         stage # "applied", stage' \notin {"listed", "post", "applied"}
  PROVE  Steady /\ Aged
<1>1. \A p : ByOp(p)' <=> ByOp(p)
  BY DEF ByOp
<1>2. ASSUME NEW p, Missing(p)', Told(p)'.content \in Contents
      PROVE  Missing(p) /\ Told(p)' = Told(p)
  <2>1. Told(p)' = gateway'[p]
    BY DEF Told
  <2>2. p \in DOMAIN gateway /\ gateway'[p] = gateway[p]
    BY <1>2, <2>1 DEF Missing
  <2>3. Told(p) = gateway[p]
    BY <1>2, <2>1, <2>2 DEF Told, ToldSo
  <2>4. QED
    BY <1>1, <1>2, <2>1, <2>2, <2>3 DEF Missing
<1>3. \A i : Waits(i) => Waits(i)'
  BY DEF Waits, Pending
<1>4. QED
  BY <1>2, <1>3 DEF Steady, Aged

LEMMA ReadingSteady ==
  ASSUME IInv, ToldSo,
         \/ Plan \/ EndApply \/ EndSweep \/ EndPass \/ Reclaim \/ RecordPolicy \/ WriteError \/ DropRow \/ EndHalf
         \/ \E k \in Keys : StartCreate(k) \/ StartRemove(k) \/ Unchanged(k) \/ StartUpdate(k)
  PROVE  Steady /\ Aged
<1>1. UNCHANGED <<gateway, ops>>
  BY DEF Plan, EndApply, EndSweep, EndPass, StartCreate, StartRemove, Reclaim, RecordPolicy, WriteError, DropRow,
         EndHalf, Unchanged, StartUpdate
<1>2. stage \notin {"applied"} /\ stage' \notin {"listed", "post", "applied"}
  BY DEF Plan, EndApply, EndSweep, EndPass, StartCreate, StartRemove, Reclaim, RecordPolicy, WriteError, DropRow,
         EndHalf, Unchanged, StartUpdate, WriteRow, Proceed, Stop
<1>3. QED
  BY <1>1, <1>2, SteadyStep

LEMMA PutSteady == ASSUME IInv, RecordInv, ToldSo, Put \/ PutFails PROVE Steady /\ Aged
<1>1. PICK p : p = seen[key].policy
  OBVIOUS
<1>2. /\ stage = "put" /\ stage' \in {"putrow", "error", "create"} /\ UNCHANGED ops
      /\ \/ UNCHANGED gateway
         \/ p \in LiveIds /\ Claimed(p) /\ gateway' = PutBack(gateway, p, plan[key])
  BY <1>1 DEF Put, PutFails
<1>3. \A q \in DOMAIN gateway' : (q \in DOMAIN gateway /\ gateway'[q] = gateway[q]) \/ ByOp(q)'
  <2>1. CASE p \in LiveIds /\ Claimed(p) /\ gateway' = PutBack(gateway, p, plan[key])
    <3>1. ByOp(p)'
      BY <1>2, <2>1, LiveFacts, ClaimedOnRecord DEF ByOp
    <3>2. QED
      BY <1>1, <1>2, <2>1, <3>1, PutFacts
  <2>2. QED
    BY <1>2, <2>1
<1>4. QED
  BY <1>2, <1>3, SteadyStep

LEMMA DeleteSteady ==
  ASSUME IInv, ToldSo, Delete \/ DeleteFails \/ \E i \in DOMAIN ops : SweepFails(i)
  PROVE  Steady /\ Aged
<1>1. \E p : p # 1 /\ gateway' \in {gateway, DeleteFrom(gateway, p)}
  <2>1. CASE Delete \/ DeleteFails
    <3>1. PICK p : p = seen[key].policy
      OBVIOUS
    <3>2. stage = "delete" /\ gateway' \in {gateway, DeleteFrom(gateway, p)}
      BY <2>1, <3>1 DEF Delete, DeleteFails
    <3>3. p # 1
      BY <3>1, <3>2 DEF IInv, PassTypes, PassStages, GoodRows, Deleting
    <3>4. QED
      BY <3>2, <3>3
  <2>2. CASE \E i \in DOMAIN ops : SweepFails(i)
    <3>1. PICK i \in DOMAIN ops : SweepFails(i)
      BY <2>2
    <3>2. PICK p : p = ops[i].policy
      OBVIOUS
    <3>3. p # 1 /\ gateway' \in {gateway, DeleteFrom(gateway, p)}
      BY <3>1, <3>2, OpOfSeq DEF IInv, World, SweepFails
    <3>4. QED
      BY <3>3
  <2>3. QED
    BY <2>1, <2>2
<1>2. PICK p : p # 1 /\ gateway' \in {gateway, DeleteFrom(gateway, p)}
  BY <1>1
<1>3. UNCHANGED ops /\ stage \notin {"applied"} /\ stage' \notin {"listed", "post", "applied"}
  BY DEF Delete, DeleteFails, SweepFails
<1>4. \A q \in DOMAIN gateway' : (q \in DOMAIN gateway /\ gateway'[q] = gateway[q]) \/ gateway'[q].content \notin Contents
  BY <1>2, DeleteTakes, PolicySyncAssumption
<1>5. QED
  BY <1>3, <1>4, SteadyStep

\* An operation that proves nothing more leaves no policy behind.
LEMMA SweepSteady ==
  ASSUME IInv, RecordInv, SweepsApplied, NEW i \in DOMAIN ops, Sweep(i)
  PROVE  Steady /\ Aged
<1>1. PICK p : p = ops[i].policy
  OBVIOUS
<1>2. /\ stage = "sweep" /\ stage' = "sweep" /\ UNCHANGED made
      /\ gateway' = (IF p \in on THEN DeleteFrom(gateway, p) ELSE gateway)
      /\ ops' = [ops EXCEPT ![i] = [ops[i] EXCEPT !.status = "removed"]]
  BY <1>1 DEF Sweep
<1>3. p # 1 /\ gateway' \in {gateway, DeleteFrom(gateway, p)}
  BY <1>1, <1>2, OpOfSeq DEF IInv, World
<1>4. /\ DOMAIN ops' = DOMAIN ops /\ \A j \in DOMAIN ops : j # i => ops'[j] = ops[j]
      /\ ops'[i].key = ops[i].key /\ ops'[i].content = ops[i].content
      /\ ops'[i].old = ops[i].old /\ ops'[i].flying = ops[i].flying
  <2>1. PICK o \in Ops : o = ops[i]
    BY OpTypes
  <2>2. ops'[i] = [o EXCEPT !.status = "removed"]
    BY <1>2, <2>1
  <2>3. /\ ops'[i].key = o.key /\ ops'[i].content = o.content
        /\ ops'[i].old = o.old /\ ops'[i].flying = o.flying
    BY <2>2 DEF Ops
  <2>4. DOMAIN ops' = DOMAIN ops /\ \A j \in DOMAIN ops : j # i => ops'[j] = ops[j]
    BY <1>2
  <2>5. QED
    BY <2>1, <2>3, <2>4
<1>5. i \notin Pending /\ ByOp(p)
  BY <1>1, <1>2 DEF Sweep, SweepsApplied, Pending, ByOp
<1>6. \A q : ByOp(q) => ByOp(q)' \/ q = p
  BY <1>1, <1>4 DEF ByOp
<1>7. p \in DOMAIN gateway' => gateway'[p].content \notin Contents
  <2>1. p \notin LiveIds'
    BY <1>2, <1>3, <1>5, DeleteTakes DEF RecordInv, OnKnown
  <2>2. QED
    BY <2>1, PolicySyncAssumption DEF LiveIds
<1>8. ASSUME NEW q, Missing(q)', Told(q)'.content \in Contents
      PROVE  Missing(q) /\ Told(q)' = Told(q)
  <2>1. Told(q)' = gateway'[q] /\ q \in DOMAIN gateway' /\ ~ByOp(q)'
    BY <1>2, <1>8 DEF Told, Missing
  <2>2. q # p
    BY <1>7, <1>8, <2>1
  <2>3. q \in DOMAIN gateway /\ gateway'[q] = gateway[q]
    BY <1>3, <2>1, <2>2, DeleteTakes
  <2>4. ~ByOp(q)
    BY <1>6, <2>1, <2>2
  <2>5. QED
    BY <1>2, <2>1, <2>3, <2>4 DEF Told, Missing
<1>9. ASSUME NEW j \in DOMAIN ops, Waits(j) PROVE Waits(j)'
  <2>1. j # i /\ j \in Pending
    BY <1>5, <1>9 DEF Waits
  <2>2. j \in Pending'
    BY <1>4, <2>1 DEF Pending
  <2>3. QED
    BY <1>2, <2>2 DEF Waits
<1>10. Steady
  BY <1>4, <1>8, <1>9 DEF Steady
<1>11. Aged
  BY <1>4 DEF Aged
<1>12. QED
  BY <1>10, <1>11

LEMMA OpenSteady == ASSUME IInv, OpenCreate PROVE Steady /\ Aged
<1>1. stage = "create" /\ stage' = "post" /\ UNCHANGED gateway
  BY DEF OpenCreate, OpenCreateAs
<1>2. \A q : (ByOp(q)' <=> ByOp(q))
  BY OpenFacts DEF ByOp
<1>3. \A p : (Missing(p)' <=> Missing(p)) /\ Told(p)' = Told(p)
  BY <1>1, <1>2 DEF Missing, Told
<1>4. \A i \in DOMAIN ops : Waits(i) => Waits(i)'
  BY <1>1, OpenFacts DEF Waits, Pending, Newest
<1>5. QED
  BY <1>3, <1>4, OpenFacts DEF Steady, Aged

LEMMA PostSteady == ASSUME IInv, RecordInv, Post PROVE Steady /\ Aged
<1>1. /\ stage = "post" /\ stage' = "applied" /\ made' = Len(gateway') /\ UNCHANGED ops
      /\ gateway' = Append(gateway, [key |-> key, content |-> plan[key]])
  BY DEF Post
<1>2. /\ \A q \in DOMAIN gateway : q \in DOMAIN gateway' /\ gateway'[q] = gateway[q]
      /\ \A q \in DOMAIN gateway' : q \in DOMAIN gateway \/ q = Len(gateway')
  <2>1. gateway \in Seq(Copies \cup {Admin}) /\ Len(gateway) \in Nat /\ DOMAIN gateway = 1..Len(gateway)
    BY Types DEF GoodGateway
  <2>2. DOMAIN gateway' = 1..(Len(gateway) + 1) /\ Len(gateway') = Len(gateway) + 1
    BY <1>1, <2>1
  <2>3. QED
    BY <1>1, <2>1, <2>2, AppendFacts
<1>3. \A q : (ByOp(q)' <=> ByOp(q))
  BY <1>1 DEF ByOp
<1>4. \A p : Missing(p)' => Missing(p) /\ Told(p)' = Told(p)
  BY <1>1, <1>2, <1>3 DEF Missing, Told
<1>5. \A i : Waits(i) => Waits(i)'
  BY <1>1 DEF Waits, Pending, Newest
<1>6. QED
  BY <1>1, <1>4, <1>5 DEF Steady, Aged

LEMMA ApplySteady == ASSUME IInv, RecordInv, ApplyOperation PROVE Steady /\ Aged
<1>1. stage = "applied" /\ stage' = "record" /\ UNCHANGED <<gateway, made>>
  BY DEF ApplyOperation
<1>2. \A p : Missing(p)' => Missing(p) /\ Told(p)' = Told(p)
  BY <1>1, ApplyFacts DEF Missing, Told
<1>3. \A i : Waits(i) => Waits(i)'
  BY <1>1, ApplyFacts DEF Waits, Pending, Newest
<1>4. ops'[Newest].key = ops[Newest].key /\ ops'[Newest].content = ops[Newest].content
  <2>1. PICK o \in Ops : o = ops[Newest]
    BY ApplyFacts, OpTypes
  <2>2. ops'[Newest] = [o EXCEPT !.status = "applied", !.policy = made]
    BY <2>1, ApplyFacts DEF ApplyOperation
  <2>3. ops'[Newest].key = o.key /\ ops'[Newest].content = o.content
    BY <2>2 DEF Ops
  <2>4. QED
    BY <2>1, <2>3
<1>5. QED
  BY <1>2, <1>3, <1>4, ApplyFacts DEF Steady, Aged

LEMMA ListSteady == ASSUME IInv, ListPolicies PROVE Steady /\ Aged
<1>1. /\ stage = "off" /\ stage' = "listed" /\ copies' = gateway /\ UNCHANGED <<gateway, ops>>
  BY DEF ListPolicies
<1>2. \A q : (ByOp(q)' <=> ByOp(q))
  BY <1>1 DEF ByOp
<1>3. \A p : (Missing(p)' => Missing(p)) /\ Told(p)' = Told(p)
  BY <1>1, <1>2 DEF Missing, Told
<1>4. \A i : Waits(i) => Waits(i)'
  BY <1>1 DEF Waits, Pending
<1>5. QED
  BY <1>1, <1>3, <1>4 DEF Steady, Aged

\* What happens meanwhile, but for a create that lands late or ages.
LEMMA MeanwhileSteady ==
  ASSUME IInv, UNCHANGED <<ops, passVars, DOMAIN gateway>>, Meanwhile \/ UNCHANGED vars
  PROVE  Steady /\ Aged
<1>1. UNCHANGED <<stage, copies, on, made>>
  BY DEF passVars
<1>2. \A q : (ByOp(q)' <=> ByOp(q))
  BY DEF ByOp
<1>3. ASSUME NEW p, Missing(p)', Told(p)'.content \in Contents PROVE Missing(p) /\ Told(p)' = Told(p)
  <2>1. p \in DOMAIN gateway /\ Missing(p)
    BY <1>1, <1>2, <1>3 DEF Missing
  <2>2. gateway'[p] = gateway[p] \/ gateway'[p].content \notin Contents
    BY <2>1, MeanwhileSays, PolicySyncAssumption
  <2>3. Told(p)' = Told(p)
    BY <1>1, <1>3, <2>2 DEF Told
  <2>4. QED
    BY <2>1, <2>3
<1>4. \A i : Waits(i) => Waits(i)'
  BY <1>1 DEF Waits, Pending, Newest
<1>5. QED
  BY <1>3, <1>4 DEF Steady, Aged

LEMMA ToldSoKept ==
  ASSUME IInv, ToldSo, SweepsApplied, [Next]_vars
  PROVE  ToldSo' /\ SweepsApplied'
<1>1. CASE Meanwhile \/ UNCHANGED vars
  <2>1. UNCHANGED <<stage, copies, on, sweeping>>
    BY <1>1, MeanwhileTaken DEF passVars
  <2>2. ToldSo'
    <3>1. \A p \in on : p \in DOMAIN gateway
      BY Types
    <3>2. QED
      BY <1>1, <2>1, <3>1, MeanwhileSays, PolicySyncAssumption DEF ToldSo
  <2>3. SweepsApplied'
    BY <1>1, <2>1, MeanwhileSays DEF SweepsApplied, IInv, PassTypes
  <2>4. QED
    BY <2>2, <2>3
<1>2. CASE (PassStep \/ PassFault) /\ stage' \notin {"listed", "sweep"}
  BY <1>2 DEF ToldSo, SweepsApplied
<1>3. CASE (PassStep \/ PassFault) /\ stage' = "listed"
  <2>1. copies' = gateway' /\ UNCHANGED gateway
    BY <1>3 DEF PassStep, PassFault, ListPolicies, SettleLostCreates, SettleLostCreatesBy, Plan, Unchanged,
        StartUpdate, StartCreate, StartRemove,
        Put, Reclaim, OpenCreate, OpenCreateAs, Post, ApplyOperation, RecordPolicy, WriteError, EndApply, Delete,
        DropRow, EndHalf, Sweep, EndSweep, EndPass, WriteRow, Proceed, Stop, PutFails, PostFails, DeleteFails,
        Crash, SweepFails
  <2>2. QED
    BY <1>3, <2>1 DEF ToldSo, SweepsApplied
<1>4. CASE (PassStep \/ PassFault) /\ stage' = "sweep"
  <2>1. EndHalf \/ \E i \in DOMAIN ops : Sweep(i) \/ SweepFails(i)
    BY <1>4 DEF PassStep, PassFault, ListPolicies, SettleLostCreates, SettleLostCreatesBy, Plan, Unchanged,
        StartUpdate, StartCreate, StartRemove,
        Put, Reclaim, OpenCreate, OpenCreateAs, Post, ApplyOperation, RecordPolicy, WriteError, EndApply, Delete,
        DropRow, EndSweep, EndPass, WriteRow, Proceed, Stop, PutFails, PostFails, DeleteFails,
        Crash
  <2>2. CASE EndHalf
    BY <1>4, <2>2 DEF EndHalf, ToldSo, SweepsApplied
  <2>3. CASE \E i \in DOMAIN ops : Sweep(i) \/ SweepFails(i)
    <3>1. PICK i \in DOMAIN ops : Sweep(i) \/ SweepFails(i)
      BY <2>3
    <3>2. stage = "sweep" /\ sweeping' = sweeping \ {i} /\ \A j \in DOMAIN ops : j # i => ops'[j] = ops[j]
      BY <3>1 DEF Sweep, SweepFails
    <3>3. QED
      BY <1>4, <3>2 DEF ToldSo, SweepsApplied, IInv, PassTypes
  <2>4. QED
    BY <2>1, <2>2, <2>3
<1>5. QED
  BY <1>1, <1>2, <1>3, <1>4 DEF Next

LEMMA Least ==
  ASSUME NEW S, S \subseteq Nat, S # {}
  PROVE  \E n \in S : \A m \in S : n <= m
<1>1. PICK n \in S : \A m \in S : ~(<<m, n>> \in OpToRel(<, Nat))
  BY WFMin, NatLessThanWellFounded
<1>2. \A m \in S : ~(m < n)
  BY <1>1 DEF OpToRel
<1>3. QED
  BY <1>2

LEMMA Greatest ==
  ASSUME NEW b \in Nat, NEW S, S \subseteq 1..b, S # {}
  PROVE  \E n \in S : \A m \in S : m <= n
<1> DEFINE T == {b - n : n \in S}
<1>1. T \subseteq Nat /\ T # {}
  <2>1. \A n \in S : b - n \in Nat
    OBVIOUS
  <2>2. QED
    BY <2>1
<1>2. PICK t \in T : \A u \in T : t <= u
  BY <1>1, Least
<1>3. PICK n \in S : t = b - n
  OBVIOUS
<1>4. \A m \in S : b - n <= b - m
  BY <1>2, <1>3
<1>5. QED
  BY <1>4

----------------------------------------------------------------------------
(* Creates that land at once: policies come in the order of their creates  *)

\* What no operation holds, but says what FamilyFi writes.
Unheld == {p \in DOMAIN gateway : Missing(p) /\ Told(p).content \in Contents}

\* The operation that made each is still to be matched, in the same order.
MadeBy(f) ==
  /\ \A p \in Unheld : /\ f[p] \in DOMAIN ops /\ Waits(f[p])
                       /\ ops[f[p]].key = Told(p).key /\ ops[f[p]].content = Told(p).content
  /\ \A p, q \in Unheld : p < q => f[p] < f[q]

InOrder == \E f \in [Unheld -> Nat] : MadeBy(f)

AllListed == stage = "listed" => \A p \in DOMAIN gateway : p \in on \/ gateway[p].content \notin Contents

LastMade == stage = "applied" => made = Len(gateway)

NoneFlying == \A i \in DOMAIN ops : ~ops[i].flying

OrderInv == InOrder /\ AllListed /\ LastMade /\ NoneFlying

LEMMA OrderSteady ==
  ASSUME IInv, InOrder, Steady
  PROVE  InOrder'
<1>1. PICK f \in [Unheld -> Nat] : MadeBy(f)
  BY DEF InOrder
<1>2. ASSUME NEW p \in Unheld' PROVE p \in Unheld /\ Told(p)' = Told(p)
  BY <1>2 DEF Unheld, Steady, Missing
<1> PICK g : g = [p \in Unheld' |-> f[p]]
  OBVIOUS
<1>3. g \in [Unheld' -> Nat] /\ \A p \in Unheld' : g[p] = f[p]
  BY <1>1, <1>2
<1>4. MadeBy(g)'
  <2>1. ASSUME NEW p \in Unheld'
        PROVE  /\ g[p] \in DOMAIN ops' /\ Waits(g[p])'
               /\ ops'[g[p]].key = (Told(p)').key /\ ops'[g[p]].content = (Told(p)').content
    <3>1. PICK i : i = f[p]
      OBVIOUS
    <3>2. /\ i \in DOMAIN ops /\ Waits(i)
          /\ ops[i].key = Told(p).key /\ ops[i].content = Told(p).content
      BY <1>1, <1>2, <2>1, <3>1 DEF MadeBy
    <3>3. /\ i \in DOMAIN ops' /\ Waits(i)'
          /\ ops'[i].key = ops[i].key /\ ops'[i].content = ops[i].content
      BY <3>2 DEF Steady
    <3>4. g[p] = i
      BY <1>3, <2>1, <3>1
    <3>5. QED
      BY <1>2, <2>1, <3>2, <3>3, <3>4
  <2>2. \A p, q \in Unheld' : p < q => g[p] < g[q]
    BY <1>1, <1>2, <1>3 DEF MadeBy
  <2>3. QED
    BY <2>1, <2>2 DEF MadeBy
<1>5. QED
  BY <1>3, <1>4 DEF InOrder

LEMMA AgeSteady == ASSUME IInv, NEW i \in DOMAIN ops, Age(i) PROVE Steady
<1>1. /\ stage = "off" /\ UNCHANGED <<gateway, stage>>
      /\ ops' = [ops EXCEPT ![i] = [ops[i] EXCEPT !.old = TRUE]]
  BY DEF Age, passVars
<1>2. /\ DOMAIN ops' = DOMAIN ops /\ \A j \in DOMAIN ops : j # i => ops'[j] = ops[j]
      /\ ops'[i].key = ops[i].key /\ ops'[i].content = ops[i].content
      /\ ops'[i].status = ops[i].status /\ ops'[i].flying = ops[i].flying /\ ops'[i].policy = ops[i].policy
  <2>1. PICK o \in Ops : o = ops[i]
    BY OpTypes
  <2>2. ops'[i] = [o EXCEPT !.old = TRUE]
    BY <1>1, <2>1
  <2>3. /\ ops'[i].key = o.key /\ ops'[i].content = o.content /\ ops'[i].status = o.status
        /\ ops'[i].flying = o.flying /\ ops'[i].policy = o.policy
    BY <2>2 DEF Ops
  <2>4. DOMAIN ops' = DOMAIN ops /\ \A j \in DOMAIN ops : j # i => ops'[j] = ops[j]
    BY <1>1
  <2>5. QED
    BY <2>1, <2>3, <2>4
<1>3. \A q : (ByOp(q)' <=> ByOp(q))
  BY <1>2 DEF ByOp
<1>4. \A p : (Missing(p)' <=> Missing(p)) /\ Told(p)' = Told(p)
  BY <1>1, <1>3 DEF Missing, Told
<1>5. \A j : Waits(j) => Waits(j)'
  BY <1>1, <1>2 DEF Waits, Pending
<1>6. QED
  BY <1>2, <1>4, <1>5 DEF Steady

\* What a policy that may be left behind comes with: the newest create, its own.
Grown(m) ==
  /\ \A p : Missing(p)' /\ Told(p)'.content \in Contents => p = m \/ (Missing(p) /\ Told(p)' = Told(p))
  /\ ~Missing(m)
  /\ \A i \in DOMAIN ops :
       /\ i \in DOMAIN ops' /\ ops'[i].key = ops[i].key /\ ops'[i].content = ops[i].content
       /\ ops'[i].flying = ops[i].flying /\ ops'[i].old = ops[i].old
       /\ Waits(i) => Waits(i)'
  /\ DOMAIN ops' = DOMAIN ops
  /\ Newest \in DOMAIN ops /\ ~Waits(Newest) /\ Waits(Newest)'
  /\ Missing(m)' /\ Told(m)'.content \in Contents =>
       Told(m)'.key = ops[Newest].key /\ Told(m)'.content = ops[Newest].content

LEMMA OrderGrows ==
  ASSUME IInv, InOrder, NEW m \in Nat, Grown(m), \A p \in DOMAIN gateway : Missing(p) => p < m
  PROVE  InOrder'
<1>1. PICK f \in [Unheld -> Nat] : MadeBy(f)
  BY DEF InOrder
<1>2. ASSUME NEW p \in Unheld', p # m PROVE p \in Unheld /\ Told(p)' = Told(p) /\ p < m
  BY <1>2 DEF Unheld, Grown, Missing
<1>3. PICK n : n = Newest
  OBVIOUS
<1>4. n \in DOMAIN ops /\ n \in Nat /\ Waits(n)' /\ \A i \in DOMAIN ops : Waits(i) => i < n
  BY <1>3, OpTypes DEF Grown, Newest
<1> PICK g : g = [p \in Unheld' |-> IF p = m THEN n ELSE f[p]]
  OBVIOUS
<1>5. g \in [Unheld' -> Nat] /\ \A p \in Unheld' : g[p] = IF p = m THEN n ELSE f[p]
  BY <1>1, <1>2, <1>4
<1>6. MadeBy(g)'
  <2>1. ASSUME NEW p \in Unheld'
        PROVE  /\ g[p] \in DOMAIN ops' /\ Waits(g[p])'
               /\ ops'[g[p]].key = (Told(p)').key /\ ops'[g[p]].content = (Told(p)').content
    <3>1. CASE p = m
      <4>1. g[p] = n /\ n \in DOMAIN ops'
        BY <1>4, <1>5, <2>1, <3>1 DEF Grown
      <4>2. Missing(p)' /\ Told(p)'.content \in Contents
        BY <2>1 DEF Unheld
      <4>3. (Told(p)').key = ops[n].key /\ (Told(p)').content = ops[n].content
        BY <1>3, <3>1, <4>2 DEF Grown
      <4>4. ops'[n].key = ops[n].key /\ ops'[n].content = ops[n].content
        BY <1>4 DEF Grown
      <4>5. QED
        BY <1>4, <4>1, <4>3, <4>4
    <3>2. CASE p # m
      <4>1. PICK i : i = f[p]
        OBVIOUS
      <4>2. /\ i \in DOMAIN ops /\ Waits(i)
            /\ ops[i].key = Told(p).key /\ ops[i].content = Told(p).content
        BY <1>1, <1>2, <2>1, <3>2, <4>1 DEF MadeBy
      <4>3. /\ i \in DOMAIN ops' /\ Waits(i)'
            /\ ops'[i].key = ops[i].key /\ ops'[i].content = ops[i].content
        BY <4>2 DEF Grown
      <4>4. g[p] = i
        BY <1>5, <2>1, <3>2, <4>1
      <4>5. QED
        BY <1>2, <2>1, <3>2, <4>2, <4>3, <4>4
    <3>3. QED
      BY <3>1, <3>2
  <2>2. ASSUME NEW p \in Unheld', NEW q \in Unheld', p < q PROVE g[p] < g[q]
    <3>1. p # m
      <4>1. CASE p = m
        <5>1. q # m
          BY <2>2, <4>1
        <5>2. q < m /\ q \in Nat
          BY <1>2, <2>2, <5>1, Types DEF Unheld
        <5>3. QED
          BY <2>2, <4>1, <5>2
      <4>2. QED
        BY <4>1
    <3>2. p \in Unheld /\ g[p] = f[p] /\ f[p] < n
      BY <1>1, <1>2, <1>4, <1>5, <2>2, <3>1 DEF MadeBy
    <3>3. CASE q = m
      BY <1>5, <2>2, <3>2, <3>3
    <3>4. CASE q # m
      BY <1>1, <1>2, <1>5, <2>2, <3>2, <3>4 DEF MadeBy
    <3>5. QED
      BY <3>3, <3>4
  <2>3. QED
    BY <2>1, <2>2 DEF MadeBy
<1>7. QED
  BY <1>5, <1>6 DEF InOrder

LEMMA AppendMissing ==
  ASSUME IInv, RecordInv, stage = "post", stage' \notin {"listed", "post", "applied"},
         UNCHANGED ops, gateway' = Append(gateway, [key |-> key, content |-> plan[key]])
  PROVE  \E m \in Nat : Grown(m) /\ \A p \in DOMAIN gateway : p < m
<1> PICK m : m = Len(gateway')
  OBVIOUS
<1>1. Newest \in DOMAIN ops /\ Newest \in Pending /\ ops[Newest].key = key /\ ops[Newest].content = plan[key]
  BY OpTypes DEF RecordInv, Sending, Newest, Pending
<1>2. /\ \A q \in DOMAIN gateway : q \in DOMAIN gateway' /\ gateway'[q] = gateway[q] /\ q < m
      /\ \A q \in DOMAIN gateway' : q \in DOMAIN gateway \/ q = m
      /\ gateway'[m].key = key /\ gateway'[m].content = plan[key] /\ m \notin DOMAIN gateway
  <2>1. gateway \in Seq(Copies \cup {Admin}) /\ Len(gateway) \in Nat /\ DOMAIN gateway = 1..Len(gateway)
    BY Types DEF GoodGateway
  <2>2. DOMAIN gateway' = 1..(Len(gateway) + 1) /\ Len(gateway') = Len(gateway) + 1
    BY <2>1
  <2>3. gateway'[m] = [key |-> key, content |-> plan[key]]
    BY AppendFacts
  <2>4. QED
    BY <2>1, <2>2, <2>3, AppendFacts
<1>3. \A q : (ByOp(q)' <=> ByOp(q))
  BY DEF ByOp
<1>4. \A p : Missing(p)' => p = m \/ (Missing(p) /\ Told(p)' = Told(p))
  BY <1>2, <1>3 DEF Missing, Told
<1>5. \A i : (Waits(i) => Waits(i)') /\ (i \in Pending => Waits(i)') /\ ~Waits(Newest)
  BY DEF Waits, Pending, Newest
<1>6. Told(m)' = gateway'[m] /\ ~Missing(m)
  BY <1>2 DEF Told, Missing
<1>7. Grown(m)
  <2>1. Waits(Newest)'
    <3>1. Waits(Len(ops))'
      BY <1>1, <1>5 DEF Newest
    <3>2. QED
      BY <3>1 DEF Newest
  <2>2. QED
    BY <1>1, <1>2, <1>4, <1>5, <1>6, <2>1 DEF Grown
<1>8. m \in Nat
  BY AppendFacts DEF OnlyTaken
<1>9. QED
  BY <1>2, <1>7, <1>8

LEMMA CrashMissing ==
  ASSUME IInv, RecordInv, stage = "applied", Crash
  PROVE  \E m : m = made /\ Grown(m)
<1>1. UNCHANGED <<gateway, ops>> /\ stage' = "off" /\ made' = 0
  BY DEF Crash, Stop
<1>2. Newest \in DOMAIN ops /\ Newest \in Pending /\ ops[Newest].key = key /\ ops[Newest].content = plan[key]
  BY OpTypes DEF RecordInv, Sending, Newest, Pending
<1>3. \A q : (ByOp(q)' <=> ByOp(q))
  BY <1>1 DEF ByOp
<1> PICK m : m = made
  OBVIOUS
<1>4. \A p : Missing(p)' => p = m \/ (Missing(p) /\ Told(p)' = Told(p))
  BY <1>1, <1>3 DEF Missing, Told
<1>5. \A i : (Waits(i) => Waits(i)') /\ (i \in Pending => Waits(i)')
  BY <1>1 DEF Waits, Pending, Newest
<1>6. ~Missing(m) /\ ~Waits(Newest)
  BY DEF Missing, Waits
<1>7. Waits(Newest)'
  <2>1. Waits(Len(ops))'
    BY <1>1, <1>2, <1>5 DEF Newest
  <2>2. QED
    BY <1>1, <2>1 DEF Newest
<1>8. Told(m)' = gateway[m] /\ gateway[m].key = key /\ gateway[m].content \in {plan[key], "edited", "gone"}
  BY <1>1 DEF Told, RecordInv, Sending
<1>9. Grown(m)
  BY <1>1, <1>2, <1>4, <1>5, <1>6, <1>7, <1>8, PolicySyncAssumption DEF Grown
<1>10. QED
  BY <1>9

LEMMA PostFailsSteady ==
  ASSUME IInv, RecordInv, PostFails,
         UNCHANGED <<gateway, ops>> \/ ops' = [ops EXCEPT ![Newest].status = "failed"]
  PROVE  Steady /\ Aged
<1>1. stage = "post" /\ stage' = "error"
  BY DEF PostFails
<1>2. Newest \in DOMAIN ops /\ ops[Newest].status = "pending" /\ ops[Newest] \in Ops /\ ~ops[Newest].flying
  BY <1>1, OpTypes DEF RecordInv, Sending, Newest
<1>3. CASE UNCHANGED <<gateway, ops>>
  BY <1>1, <1>3, SteadyStep DEF ToldSo
<1>4. CASE ops' = [ops EXCEPT ![Newest].status = "failed"] /\ ~UNCHANGED <<gateway, ops>>
  <2>1. UNCHANGED gateway
    BY <1>2, <1>4 DEF PostFails, Ops
  <2>2. /\ DOMAIN ops' = DOMAIN ops /\ \A j \in DOMAIN ops : j # Newest => ops'[j] = ops[j]
        /\ ops'[Newest].key = ops[Newest].key /\ ops'[Newest].content = ops[Newest].content
        /\ ops'[Newest].status = "failed" /\ ops'[Newest].flying = ops[Newest].flying
        /\ ops'[Newest].old = ops[Newest].old
    <3>1. PICK o \in Ops : o = ops[Newest]
      BY <1>2
    <3>2. ops'[Newest] = [o EXCEPT !.status = "failed"]
      BY <1>2, <1>4, <3>1
    <3>3. /\ ops'[Newest].key = o.key /\ ops'[Newest].content = o.content
          /\ ops'[Newest].status = "failed" /\ ops'[Newest].flying = o.flying /\ ops'[Newest].old = o.old
      BY <3>2 DEF Ops
    <3>4. DOMAIN ops' = DOMAIN ops /\ \A j \in DOMAIN ops : j # Newest => ops'[j] = ops[j]
      BY <1>4
    <3>5. QED
      BY <3>1, <3>3, <3>4
  <2>3. \A q : (ByOp(q)' <=> ByOp(q))
    BY <1>2, <2>2 DEF ByOp
  <2>4. \A p : (Missing(p)' <=> Missing(p)) /\ Told(p)' = Told(p)
    BY <1>1, <2>1, <2>3 DEF Missing, Told
  <2>5. \A j : Waits(j) => Waits(j)'
    BY <1>1, <2>2 DEF Waits, Pending
  <2>6. Steady
    BY <2>2, <2>4, <2>5 DEF Steady
  <2>7. Aged
    BY <2>2 DEF Aged
  <2>8. QED
    BY <2>6, <2>7
<1>5. QED
  BY <1>3, <1>4

LEMMA CrashSteady == ASSUME IInv, ToldSo, Crash, stage # "applied" PROVE Steady /\ Aged
  BY SteadyStep DEF Crash, Stop

\* Only a create that lands late adds a policy beside a pass.
LEMMA MeanwhileSplit ==
  ASSUME IInv, Meanwhile \/ UNCHANGED vars
  PROVE  \/ \E i \in DOMAIN ops : LandLate(i) \/ Age(i)
         \/ UNCHANGED <<ops, passVars, DOMAIN gateway, Len(gateway)>>
<1>1. CASE RemovePolicies
  <2>1. PICK D \in SUBSET {k \in RuleKeys : rows[k] # NoRow} :
          gateway' = [p \in DOMAIN gateway |->
            IF \E k \in D : rows[k].policy = p THEN [gateway[p] EXCEPT !.content = "gone"]
                                              ELSE gateway[p]]
    BY <1>1 DEF RemovePolicies
  <2>2. DOMAIN gateway' = 1..Len(gateway)
    BY <2>1, Types
  <2>3. Len(gateway') = Len(gateway)
    <3>1. gateway' = [p \in 1..Len(gateway) |-> gateway'[p]]
      BY <2>1, Types
    <3>2. QED
      BY <3>1, Types
  <2>4. QED
    BY <1>1, <2>2, <2>3, Types DEF RemovePolicies
<1>2. CASE \E p \in DOMAIN gateway : ConsoleChange(p)
  <2>1. PICK p \in DOMAIN gateway : ConsoleChange(p)
    BY <1>2
  <2>2. PICK c \in {"edited", "gone"} : gateway' = [gateway EXCEPT ![p] = [gateway[p] EXCEPT !.content = c]]
    BY <2>1 DEF ConsoleChange, PutBack
  <2>3. DOMAIN gateway' = DOMAIN gateway
    BY <2>2
  <2>4. Len(gateway') = Len(gateway)
    <3>1. gateway' = [q \in 1..Len(gateway) |-> gateway'[q]]
      BY <2>2, Types
    <3>2. QED
      BY <3>1, Types
  <2>5. QED
    BY <2>1, <2>3, <2>4 DEF ConsoleChange
<1>3. CASE RemoveRule \/ UNCHANGED vars \/ \E k \in Keys : Wish(k)
  BY <1>3 DEF RemoveRule, Wish, vars
<1>4. QED
  BY <1>1, <1>2, <1>3 DEF Meanwhile

LEMMA OrderMeanwhile ==
  ASSUME IInv, OrderInv, Meanwhile \/ UNCHANGED vars
  PROVE  OrderInv'
<1>1. \A i \in DOMAIN ops : ~LandLate(i)
  BY DEF LandLate, OrderInv, NoneFlying
<1>2. CASE \E i \in DOMAIN ops : Age(i)
  <2>1. PICK i \in DOMAIN ops : Age(i)
    BY <1>2
  <2>2. Steady /\ UNCHANGED <<gateway, passVars>> /\ stage = "off"
    BY <2>1, AgeSteady DEF Age
  <2>3. InOrder' /\ NoneFlying'
    BY <2>2, OrderSteady DEF OrderInv, NoneFlying, Steady
  <2>4. QED
    BY <2>2, <2>3 DEF OrderInv, AllListed, LastMade, passVars
<1>3. CASE UNCHANGED <<ops, passVars, DOMAIN gateway, Len(gateway)>>
  <2>1. InOrder' /\ NoneFlying'
    BY <1>3, MeanwhileSteady, OrderSteady DEF OrderInv, NoneFlying
  <2>2. AllListed'
    BY <1>3, MeanwhileSays, PolicySyncAssumption DEF OrderInv, AllListed, passVars
  <2>3. LastMade'
    BY <1>3 DEF OrderInv, LastMade, passVars
  <2>4. QED
    BY <2>1, <2>2, <2>3 DEF OrderInv
<1>4. QED
  BY <1>1, <1>2, <1>3, MeanwhileSplit

LEMMA CarriesOwn ==
  ASSUME NEW copy, NEW op
  PROVE  /\ copy.key = op.key /\ copy.content = op.content => Carries(copy, op)
         /\ Carries(copy, op) => copy.content = op.content
BY DEF Carries

\* Every listed policy that no record holds is matched: the create it came from
\* would else have taken an older one, whose create is older still.
LEMMA AllMatched ==
  ASSUME IInv, RecordInv, OrderInv, stage = "listed",
         NEW match \in [Pending -> on \cup {0}], Matches(match, Carries), NEW p \in Unheld
  PROVE  \E i \in Pending : match[i] = p
<1>1. PICK f \in [Unheld -> Nat] : MadeBy(f)
  BY DEF OrderInv, InOrder
<1>2. ASSUME NEW q \in Unheld
      PROVE  /\ q \in on /\ ~Claimed(q) /\ q \in Nat /\ f[q] \in Pending /\ Carries(copies[q], ops[f[q]])
  <2>1. Missing(q) /\ Told(q).content \in Contents /\ q \in DOMAIN gateway
    BY DEF Unheld
  <2>2. q \in on
    BY <2>1 DEF OrderInv, AllListed, Told
  <2>3. q # 0 /\ q \in Nat
    BY <2>1, Types
  <2>4. ~Claimed(q)
    BY <2>1, <2>3, ClaimedOnRecord DEF Missing
  <2>5. Told(q) = copies[q]
    BY <2>2 DEF Told
  <2>6. f[q] \in Pending /\ Carries(copies[q], ops[f[q]])
    BY <1>1, <2>5, CarriesOwn DEF MadeBy, Waits
  <2>7. QED
    BY <2>2, <2>3, <2>4, <2>6
<1> DEFINE passed == {q \in Unheld : /\ match[f[q]] # 0 /\ match[f[q]] < q
                                     /\ ~\E j \in Pending : j < f[q] /\ match[j] = q}
<1>3. passed = {}
  <2> SUFFICES ASSUME passed # {} PROVE FALSE
    OBVIOUS
  <2>1. passed \subseteq Nat
    BY <1>2
  <2>2. PICK q \in passed : \A s \in passed : q <= s
    <3> HIDE DEF passed
    <3>1. QED
      BY <2>1, Least
  <2>3. /\ q \in Unheld /\ match[f[q]] # 0 /\ match[f[q]] < q /\ q \in Nat /\ f[q] \in Pending
    BY <1>2
  <2>4. PICK r : r = match[f[q]]
    OBVIOUS
  <2>5. /\ r \in on /\ ~Claimed(r) /\ Carries(copies[r], ops[f[q]]) /\ r # 0
        /\ \A j \in Pending : j # f[q] => match[j] # r
    BY <2>3, <2>4, MatchFacts
  <2>6. r \in Unheld /\ r < q
    <3>1. r \in DOMAIN gateway /\ ~ByOp(r)
      BY <2>5, Types DEF Claimed
    <3>2. ops[f[q]].content \in Contents
      BY <2>3, OpTypes DEF Pending
    <3>3. Told(r).content \in Contents
      BY <2>5, <3>2, CarriesOwn DEF Told
    <3>4. QED
      BY <2>3, <2>4, <3>1, <3>3 DEF Unheld, Missing
  <2>7. f[r] < f[q] /\ f[r] \in Pending /\ r \in Nat
    BY <1>1, <1>2, <2>3, <2>6 DEF MadeBy
  <2>8. \A j \in Pending : j < f[r] => match[j] # r
    <3> SUFFICES ASSUME NEW j \in Pending, j < f[r] PROVE match[j] # r
      OBVIOUS
    <3>1. j # f[q] /\ j \in Nat
      BY <2>7, <2>3, OpTypes DEF Pending
    <3>2. QED
      BY <2>5, <3>1
  <2>9. match[f[r]] # 0 /\ match[f[r]] <= r
    <3>1. PICK n : n = f[r]
      OBVIOUS
    <3>2. n \in Pending /\ r \in on /\ ~Claimed(r) /\ Carries(copies[r], ops[n])
      BY <1>2, <2>6, <3>1
    <3>3. (match[n] # 0 /\ match[n] <= r) \/ \E j \in Pending : j < n /\ match[j] = r
      BY <3>2, MatchFacts
    <3>4. QED
      BY <2>8, <3>1, <3>3
  <2>10. match[f[r]] # r
    <3>1. f[r] # f[q]
      BY <2>3, <2>7, OpTypes DEF Pending
    <3>2. QED
      BY <2>5, <2>7, <3>1
  <2>11. match[f[r]] < r
    <3>1. match[f[r]] \in Nat
      BY <2>7, <2>9, Types
    <3>2. QED
      BY <2>7, <2>9, <2>10, <3>1
  <2>12. r \in passed
    BY <2>6, <2>8, <2>9, <2>11
  <2>13. QED
    BY <2>2, <2>3, <2>6, <2>7, <2>12
<1>4. f[p] \in Pending /\ p \in Nat
  BY <1>2
<1>5. (match[f[p]] # 0 /\ match[f[p]] <= p) \/ \E j \in Pending : j < f[p] /\ match[j] = p
  BY <1>2, MatchFacts
<1>6. CASE \E j \in Pending : j < f[p] /\ match[j] = p
  BY <1>6
<1>7. CASE match[f[p]] # 0 /\ match[f[p]] <= p /\ ~\E j \in Pending : j < f[p] /\ match[j] = p
  <2>1. ~(match[f[p]] < p)
    BY <1>3, <1>7
  <2>2. match[f[p]] \in Nat
    BY <1>4, <1>7, Types
  <2>3. match[f[p]] = p
    BY <1>4, <1>7, <2>1, <2>2
  <2>4. QED
    BY <1>4, <2>3
<1>8. QED
  BY <1>5, <1>6, <1>7

\* What the matching leaves is held.
LEMMA SettledLeaves ==
  ASSUME IInv, RecordInv, ToldSo, SettleLostCreates,
         NEW match \in [Pending -> on \cup {0}], Settled(match)
  PROVE  \A p : Missing(p)' /\ Told(p)'.content \in Contents =>
           /\ Missing(p) /\ Told(p)' = Told(p)
           /\ \A i \in Pending : match[i] # p
<1>1. stage = "listed" /\ stage' = "plan" /\ UNCHANGED <<gateway, on, copies>>
  BY DEF SettleLostCreates, SettleLostCreatesBy
<1> SUFFICES ASSUME NEW p, Missing(p)', Told(p)'.content \in Contents
             PROVE  /\ Missing(p) /\ Told(p)' = Told(p)
                    /\ \A i \in Pending : match[i] # p
  OBVIOUS
<1>2. Told(p)' = gateway[p] /\ p \in DOMAIN gateway /\ ~ByOp(p)'
  BY <1>1 DEF Told, Missing
<1>3. Told(p)' = Told(p)
  BY <1>1, <1>2 DEF Told, ToldSo
<1>4. ~ByOp(p)
  BY <1>2 DEF ByOp, Settled, Pending
<1>5. \A i \in Pending : match[i] # p
  <2> SUFFICES ASSUME NEW i \in Pending, match[i] = p PROVE FALSE
    OBVIOUS
  <2>1. match[i] # 0
    BY <1>2, Types
  <2>2. ops'[i].status = "applied" /\ ops'[i].policy = p /\ i \in DOMAIN ops'
    BY <2>1 DEF Settled, Pending
  <2>3. QED
    BY <1>2, <2>2 DEF ByOp
<1>6. QED
  BY <1>1, <1>2, <1>3, <1>4, <1>5 DEF Missing

LEMMA OrderSettle ==
  ASSUME IInv, RecordInv, ToldSo, OrderInv, SettleLostCreates
  PROVE  OrderInv' /\ Unheld' = {}
<1>1. PICK match \in [Pending -> on \cup {0}] : Matches(match, Carries) /\ Settled(match)
  BY SettleFacts
<1>2. stage = "listed" /\ stage' = "plan"
  BY DEF SettleLostCreates, SettleLostCreatesBy
<1>3. Unheld' = {}
  <2> SUFFICES ASSUME NEW p \in Unheld' PROVE FALSE
    OBVIOUS
  <2>1. Missing(p)' /\ Told(p)'.content \in Contents
    BY DEF Unheld
  <2>2. p \in Unheld /\ \A i \in Pending : match[i] # p
    BY <1>1, <2>1, SettledLeaves DEF Unheld, Missing
  <2>3. QED
    BY <1>1, <1>2, <2>2, AllMatched
<1>4. InOrder'
  <2> PICK g : g = [p \in {} |-> 0]
    OBVIOUS
  <2>1. g \in [Unheld' -> Nat]
    BY <1>3
  <2>2. MadeBy(g)'
    BY <1>3 DEF MadeBy
  <2>3. QED
    BY <2>1, <2>2 DEF InOrder
<1>5. NoneFlying'
  BY <1>1 DEF OrderInv, NoneFlying, Settled
<1>6. QED
  BY <1>2, <1>3, <1>4, <1>5 DEF OrderInv, AllListed, LastMade

\* The steps of a pass that may leave a policy behind, or take one up.
Leaves ==
  \/ SettleLostCreates
  \/ Crash /\ stage = "applied"
  \/ PostFails /\ ops' # [ops EXCEPT ![Newest].status = "failed"] /\ ~UNCHANGED <<gateway, ops>>

LEMMA PassSteady ==
  ASSUME IInv, RecordInv, ToldSo, SweepsApplied, PassStep \/ PassFault, ~Leaves
  PROVE  Steady /\ Aged
<1>1. CASE PassStep
  BY <1>1, ListSteady, ReadingSteady, PutSteady, OpenSteady, PostSteady, ApplySteady, DeleteSteady, SweepSteady
  DEF PassStep, Leaves
<1>2. CASE PassFault
  BY <1>2, PutSteady, DeleteSteady, PostFailsSteady, CrashSteady DEF PassFault, Leaves
<1>3. QED
  BY <1>1, <1>2

LEMMA StageTurns ==
  ASSUME PassStep \/ PassFault
  PROVE  /\ stage' = "listed" => ListPolicies
         /\ stage' = "applied" => Post
<1>1. ASSUME stage' = "listed" PROVE ListPolicies
  BY <1>1 DEF PassStep, PassFault, SettleLostCreates, SettleLostCreatesBy, Plan, Unchanged,
        StartUpdate, StartCreate, StartRemove,
        Put, Reclaim, OpenCreate, OpenCreateAs, Post, ApplyOperation, RecordPolicy, WriteError, EndApply, Delete,
        DropRow, EndHalf, Sweep, EndSweep, EndPass, WriteRow, Proceed, Stop, PutFails, PostFails, DeleteFails,
        Crash, SweepFails
<1>2. ASSUME stage' = "applied" PROVE Post
  BY <1>2 DEF PassStep, PassFault, ListPolicies, SettleLostCreates, SettleLostCreatesBy, Plan, Unchanged,
        StartUpdate, StartCreate, StartRemove,
        Put, Reclaim, OpenCreate, OpenCreateAs, ApplyOperation, RecordPolicy, WriteError, EndApply, Delete,
        DropRow, EndHalf, Sweep, EndSweep, EndPass, WriteRow, Proceed, Stop, PutFails, PostFails, DeleteFails,
        Crash, SweepFails
<1>3. QED
  BY <1>1, <1>2

LEMMA OrderPass ==
  ASSUME IInv, RecordInv, ToldSo, SweepsApplied, OrderInv, ~LateLanding, PassStep \/ PassFault
  PROVE  OrderInv'
<1>1. AllListed'
  BY StageTurns, PolicySyncAssumption DEF AllListed, ListPolicies, LiveIds
<1>2. LastMade'
  BY StageTurns DEF LastMade, Post
<1>3. CASE ~Leaves
  BY <1>1, <1>2, <1>3, PassSteady, OrderSteady DEF OrderInv, NoneFlying, Steady
<1>4. CASE SettleLostCreates
  BY <1>4, OrderSettle
<1>5. CASE Crash /\ stage = "applied"
  <2>1. PICK m : m = made /\ Grown(m)
    BY <1>5, CrashMissing
  <2>2. \A p \in DOMAIN gateway : Missing(p) => p < m
    BY <1>5, <2>1, Types DEF OrderInv, LastMade, Missing
  <2>3. m \in Nat
    BY <2>1, Types
  <2>4. InOrder'
    BY <2>1, <2>2, <2>3, OrderGrows DEF OrderInv
  <2>5. NoneFlying'
    BY <2>1 DEF Grown, OrderInv, NoneFlying
  <2>6. QED
    BY <1>1, <1>2, <2>4, <2>5 DEF OrderInv
<1>6. CASE PostFails /\ ops' # [ops EXCEPT ![Newest].status = "failed"] /\ ~UNCHANGED <<gateway, ops>>
  <2>1. UNCHANGED ops /\ gateway' = Append(gateway, [key |-> key, content |-> plan[key]])
        /\ stage = "post" /\ stage' = "error"
    BY <1>6 DEF PostFails
  <2>3. PICK m \in Nat : Grown(m) /\ \A p \in DOMAIN gateway : p < m
    BY <2>1, AppendMissing
  <2>4. InOrder'
    BY <2>3, OrderGrows DEF OrderInv
  <2>5. NoneFlying'
    BY <2>1 DEF OrderInv, NoneFlying
  <2>6. QED
    BY <1>1, <1>2, <2>4, <2>5 DEF OrderInv
<1>7. QED
  BY <1>3, <1>4, <1>5, <1>6 DEF Leaves

\* What the record of creates keeps, whatever happens.
FindInv == RecordInv /\ ToldSo /\ SweepsApplied

LEMMA AlwaysFind == Spec => []FindInv
<1>1. Init => FindInv
  BY DEF Init, FindInv, RecordInv, RowsOnRecord, MadeOnRecord, OnKnown, Sending, SweepsUnheld, ByOp,
         ToldSo, SweepsApplied
<1>2. (IInv /\ Apart) /\ FindInv /\ [Next]_vars => FindInv'
  BY StepsRecord, ToldSoKept DEF FindInv
<1>3. QED
  BY <1>1, <1>2, AlwaysApart, PTL DEF Spec

LEMMA AlwaysOrder ==
  ASSUME ~LateLanding
  PROVE  Spec => []OrderInv
<1>1. Init => OrderInv
  <2> SUFFICES ASSUME Init PROVE OrderInv
    OBVIOUS
  <2>1. Unheld = {}
    <3> SUFFICES ASSUME NEW p \in Unheld PROVE FALSE
      OBVIOUS
    <3>1. stage = "off" /\ gateway = <<Admin>> /\ p \in DOMAIN gateway
      BY DEF Init, Unheld
    <3>2. gateway[p] = Admin
      BY <3>1
    <3>3. Told(p).content = "admin"
      BY <3>1, <3>2 DEF Told, Admin
    <3>4. QED
      BY <3>3, PolicySyncAssumption DEF Unheld
  <2> PICK g : g = [p \in {} |-> 0]
    OBVIOUS
  <2>2. g \in [Unheld -> Nat]
    BY <2>1
  <2>3. MadeBy(g)
    BY <2>1 DEF MadeBy
  <2>4. InOrder
    BY <2>2, <2>3 DEF InOrder
  <2>5. QED
    BY <2>4 DEF Init, OrderInv, AllListed, LastMade, NoneFlying
<1>2. (IInv /\ Apart) /\ FindInv /\ OrderInv /\ [Next]_vars => OrderInv'
  BY OrderPass, OrderMeanwhile DEF FindInv, Next
<1>3. QED
  BY <1>1, <1>2, AlwaysApart, AlwaysFind, PTL DEF Spec

\* A policy with a create that may be matched with it is findable.
LEMMA FindsWaiting ==
  ASSUME IInv, FindInv,
         \A p : Missing(p) /\ Told(p).content \in Contents =>
           \E i \in Pending : ops[i].key = Told(p).key /\ ops[i].content = Told(p).content
  PROVE  Findable
<1> SUFFICES ASSUME NEW p \in Ours, gateway[p].content # "edited", ~Claimed(p)
             PROVE  \E i \in Pending : Carries(gateway[p], ops[i])
  BY DEF Findable
<1>1. p \in DOMAIN gateway /\ gateway[p].content \in Contents
  <2>1. p \in DOMAIN gateway /\ gateway[p] # Admin /\ gateway[p].content # "gone"
    BY DEF Ours, LiveIds
  <2>2. gateway[p] \in Copies
    BY <2>1, Types DEF GoodGateway
  <2>3. QED
    BY <2>1, <2>2 DEF Copies
<1>2. ~ByOp(p)
  BY DEF Claimed
<1>3. CASE stage = "applied" /\ p = made
  <2>1. Len(ops) \in Pending
    BY <1>3, OpTypes DEF FindInv, RecordInv, Sending, Newest, Pending
  <2>2. ops[Len(ops)].key = gateway[p].key /\ ops[Len(ops)].content = gateway[p].content
    BY <1>1, <1>3, PolicySyncAssumption DEF FindInv, RecordInv, Sending, Newest
  <2>3. QED
    BY <2>1, <2>2, CarriesOwn
<1>4. CASE ~(stage = "applied" /\ p = made)
  <2>1. Missing(p)
    BY <1>1, <1>2, <1>4 DEF Missing
  <2>2. Told(p) = gateway[p]
    BY <1>1 DEF Told, FindInv, ToldSo
  <2>3. PICK i \in Pending : ops[i].key = gateway[p].key /\ ops[i].content = gateway[p].content
    BY <1>1, <2>1, <2>2
  <2>4. QED
    BY <2>3, CarriesOwn
<1>5. QED
  BY <1>3, <1>4

LEMMA FindsInOrder == ASSUME IInv, FindInv, OrderInv PROVE Findable
<1>1. PICK f \in [Unheld -> Nat] : MadeBy(f)
  BY DEF OrderInv, InOrder
<1>2. ASSUME NEW p, Missing(p), Told(p).content \in Contents
      PROVE  \E i \in Pending : ops[i].key = Told(p).key /\ ops[i].content = Told(p).content
  <2>1. p \in Unheld
    BY <1>2 DEF Unheld, Missing
  <2>2. f[p] \in Pending /\ ops[f[p]].key = Told(p).key /\ ops[f[p]].content = Told(p).content
    BY <1>1, <2>1 DEF MadeBy, Waits
  <2>3. QED
    BY <2>2
<1>3. QED
  BY <1>2, FindsWaiting

----------------------------------------------------------------------------
(* Creates that land late: there are creates to match for all of them      *)

\* The policies that say c for k and that no operation holds, the creates of
\* such a one that may still land, and the operations that may be matched with
\* one, from the n-th on.
Lost(k, c) == {p \in DOMAIN gateway : Missing(p) /\ Told(p) = [key |-> k, content |-> c]}
Of(k, c, n) == {i \in DOMAIN ops : n <= i /\ ops[i].key = k /\ ops[i].content = c}
Late(k, c, n) == {i \in Of(k, c, n) : ops[i].flying}
Open(k, c, n) == {i \in Of(k, c, n) : Waits(i)}

\* A create that may still land is newer than whatever is taken to have landed.
LandedBefore == \A i \in DOMAIN ops : ops[i].old => \A j \in 1..i : ~ops[j].flying

\* There is an operation to match for each, for those still to land counted
\* from any one on, and, once the list is read, for those it cannot match.
Enough == \A k \in Keys, c \in Contents :
  Cardinality(Lost(k, c)) + Cardinality(Late(k, c, 1)) <= Cardinality(Open(k, c, 1))
EnoughFrom == \A k \in Keys, c \in Contents, n \in Nat :
  Cardinality(Late(k, c, n)) <= Cardinality(Open(k, c, n))
EnoughAfter == \A k \in Keys, c \in Contents, i \in DOMAIN ops : stage = "listed" /\ ops[i].old =>
  Cardinality(Lost(k, c) \ on) + Cardinality(Late(k, c, 1)) <= Cardinality(Open(k, c, i + 1))

CountInv == LandedBefore /\ Enough /\ EnoughFrom /\ EnoughAfter

LEMMA Countable ==
  ASSUME IInv, NEW k, NEW c, NEW n
  PROVE  /\ IsFiniteSet(Lost(k, c)) /\ Cardinality(Lost(k, c)) \in Nat
         /\ IsFiniteSet(Lost(k, c) \ on) /\ Cardinality(Lost(k, c) \ on) \in Nat
         /\ IsFiniteSet(Late(k, c, n)) /\ Cardinality(Late(k, c, n)) \in Nat
         /\ IsFiniteSet(Open(k, c, n)) /\ Cardinality(Open(k, c, n)) \in Nat
<1>1. IsFiniteSet(1..Len(gateway)) /\ IsFiniteSet(1..Len(ops))
  BY FS_Interval, Types, OpTypes
<1>2. Lost(k, c) \subseteq 1..Len(gateway) /\ Late(k, c, n) \subseteq 1..Len(ops) /\ Open(k, c, n) \subseteq 1..Len(ops)
  BY Types, OpTypes DEF Lost, Late, Open, Of
<1>3. IsFiniteSet(Lost(k, c)) /\ IsFiniteSet(Late(k, c, n)) /\ IsFiniteSet(Open(k, c, n))
  BY <1>1, <1>2, FS_Subset
<1>4. IsFiniteSet(Lost(k, c) \ on)
  BY <1>3, FS_Difference
<1>5. QED
  BY <1>3, <1>4, FS_CardinalityType

\* The sums a step leaves.
LEMMA FewerLeft ==
  ASSUME NEW A, NEW B, NEW C, NEW A2, NEW B2, NEW C2,
         IsFiniteSet(A), IsFiniteSet(B), IsFiniteSet(C2),
         A2 \subseteq A, B2 \subseteq B, C \subseteq C2
  PROVE  /\ Cardinality(A) + Cardinality(B) <= Cardinality(C) => Cardinality(A2) + Cardinality(B2) <= Cardinality(C2)
         /\ Cardinality(B) <= Cardinality(C) => Cardinality(B2) <= Cardinality(C2)
<1>1. IsFiniteSet(A2) /\ Cardinality(A2) <= Cardinality(A)
  BY FS_Subset
<1>2. IsFiniteSet(B2) /\ Cardinality(B2) <= Cardinality(B)
  BY FS_Subset
<1>3. IsFiniteSet(C) /\ Cardinality(C) <= Cardinality(C2)
  BY FS_Subset
<1>4. /\ Cardinality(A) \in Nat /\ Cardinality(B) \in Nat /\ Cardinality(C) \in Nat
      /\ Cardinality(A2) \in Nat /\ Cardinality(B2) \in Nat /\ Cardinality(C2) \in Nat
  BY <1>1, <1>2, <1>3, FS_CardinalityType
<1>5. QED
  BY <1>1, <1>2, <1>3, <1>4

LEMMA OneMore ==
  ASSUME NEW A, IsFiniteSet(A), NEW x, x \notin A
  PROVE  IsFiniteSet(A \cup {x}) /\ Cardinality(A \cup {x}) = Cardinality(A) + 1 /\ Cardinality(A) \in Nat
BY FS_AddElement, FS_CardinalityType

\* One more policy, or create that may land, comes with one more to match.
LEMMA MoreBoth ==
  ASSUME NEW A, NEW B, NEW C, NEW A2, NEW B2, NEW C2, NEW x, NEW y,
         IsFiniteSet(A), IsFiniteSet(B), IsFiniteSet(C2),
         \/ A2 \subseteq A \cup {x} /\ B2 \subseteq B
         \/ A2 \subseteq A /\ B2 \subseteq B \cup {x},
         y \notin C, C \cup {y} \subseteq C2
  PROVE  /\ Cardinality(A) + Cardinality(B) <= Cardinality(C) => Cardinality(A2) + Cardinality(B2) <= Cardinality(C2)
         /\ Cardinality(B) <= Cardinality(C) => Cardinality(B2) <= Cardinality(C2)
<1>1. IsFiniteSet(C) /\ IsFiniteSet(C \cup {y}) /\ Cardinality(C \cup {y}) <= Cardinality(C2)
  BY FS_Subset
<1>2. Cardinality(C \cup {y}) = Cardinality(C) + 1
  BY <1>1, OneMore
<1>3. ASSUME NEW S, NEW S2, IsFiniteSet(S), S2 \subseteq S \cup {x}
      PROVE  Cardinality(S2) <= Cardinality(S) + 1 /\ Cardinality(S2) \in Nat
  <2>1. IsFiniteSet(S \cup {x}) /\ Cardinality(S \cup {x}) <= Cardinality(S) + 1
    <3>1. CASE x \in S
      <4>1. S \cup {x} = S /\ Cardinality(S) \in Nat
        BY <1>3, <3>1, FS_CardinalityType
      <4>2. QED
        BY <1>3, <4>1
    <3>2. CASE x \notin S
      <4>1. /\ IsFiniteSet(S \cup {x}) /\ Cardinality(S \cup {x}) = Cardinality(S) + 1
            /\ Cardinality(S) \in Nat
        BY <1>3, <3>2, OneMore
      <4>2. QED
        BY <4>1
    <3>3. QED
      BY <3>1, <3>2
  <2>2. IsFiniteSet(S2) /\ Cardinality(S2) <= Cardinality(S \cup {x})
    BY <1>3, <2>1, FS_Subset
  <2>3. Cardinality(S2) \in Nat /\ Cardinality(S) \in Nat /\ Cardinality(S \cup {x}) \in Nat
    BY <1>3, <2>1, <2>2, FS_CardinalityType
  <2>4. QED
    BY <2>1, <2>2, <2>3
<1>4. /\ Cardinality(A) \in Nat /\ Cardinality(B) \in Nat /\ Cardinality(C) \in Nat
      /\ Cardinality(C2) \in Nat
  BY <1>1, FS_CardinalityType
<1>5. CASE A2 \subseteq A \cup {x} /\ B2 \subseteq B
  <2>1. Cardinality(A2) <= Cardinality(A) + 1 /\ Cardinality(A2) \in Nat
    BY <1>3, <1>5
  <2>2. Cardinality(B2) <= Cardinality(B) /\ Cardinality(B2) \in Nat
    BY <1>5, FS_Subset, FS_CardinalityType
  <2>3. QED
    BY <1>1, <1>2, <1>4, <2>1, <2>2
<1>6. CASE A2 \subseteq A /\ B2 \subseteq B \cup {x}
  <2>1. Cardinality(B2) <= Cardinality(B) + 1 /\ Cardinality(B2) \in Nat
    BY <1>3, <1>6
  <2>2. Cardinality(A2) <= Cardinality(A) /\ Cardinality(A2) \in Nat
    BY <1>6, FS_Subset, FS_CardinalityType
  <2>3. QED
    BY <1>1, <1>2, <1>4, <2>1, <2>2
<1>7. QED
  BY <1>5, <1>6

LEMMA NewestAfter ==
  ASSUME IInv
  PROVE  /\ Len(ops) = Newest /\ \A i \in DOMAIN ops : i \in Nat /\ 1 <= i /\ i <= Newest
         /\ \A k, c, n : Late(k, c, n) \subseteq DOMAIN ops /\ Open(k, c, n) \subseteq DOMAIN ops
BY OpTypes DEF Newest, Late, Open, Of

\* A step takes its sums over when it leaves no more policies and creates that
\* may land, and no fewer to match.
LEMMA SumsKept ==
  ASSUME IInv, IInv', Enough, EnoughFrom, EnoughAfter,
         stage' # "listed" \/ UNCHANGED <<stage, on>>,
         \A i \in DOMAIN ops' : ops'[i].old => stage' # "listed" \/ (i \in DOMAIN ops /\ ops[i].old),
         \A k \in Keys, c \in Contents : Lost(k, c)' \subseteq Lost(k, c),
         \A k \in Keys, c \in Contents, n \in Nat : Late(k, c, n)' \subseteq Late(k, c, n) /\ Open(k, c, n) \subseteq Open(k, c, n)'
  PROVE  Enough' /\ EnoughFrom' /\ EnoughAfter'
<1>1. ASSUME NEW k \in Keys, NEW c \in Contents, NEW n \in Nat
      PROVE  /\ Cardinality(Lost(k, c)') + Cardinality(Late(k, c, 1)') <= Cardinality(Open(k, c, 1)')
             /\ Cardinality(Late(k, c, n)') <= Cardinality(Open(k, c, n)')
             /\ \A i \in DOMAIN ops : n = i + 1 /\ stage' = "listed" /\ ops[i].old =>
                  Cardinality((Lost(k, c) \ on)') + Cardinality(Late(k, c, 1)') <= Cardinality(Open(k, c, n)')
  <2>1. /\ IsFiniteSet(Lost(k, c)) /\ IsFiniteSet(Lost(k, c) \ on)
        /\ IsFiniteSet(Late(k, c, 1)) /\ IsFiniteSet(Late(k, c, n))
    BY Countable
  <2>2. IsFiniteSet(Open(k, c, 1)') /\ IsFiniteSet(Open(k, c, n)')
    <3>1. DOMAIN ops' = 1..Len(ops') /\ Len(ops') \in Nat
      <4>1. ops' \in Seq(Ops)
        BY DEF IInv, World, GoodOps
      <4>2. QED
        BY <4>1
    <3>2. IsFiniteSet(DOMAIN ops')
      BY <3>1, FS_Interval
    <3>3. Open(k, c, 1)' \subseteq DOMAIN ops' /\ Open(k, c, n)' \subseteq DOMAIN ops'
      BY DEF Open, Of
    <3>4. QED
      BY <3>2, <3>3, FS_Subset
  <2>3. /\ Lost(k, c)' \subseteq Lost(k, c)
        /\ Late(k, c, 1)' \subseteq Late(k, c, 1) /\ Open(k, c, 1) \subseteq Open(k, c, 1)'
        /\ Late(k, c, n)' \subseteq Late(k, c, n) /\ Open(k, c, n) \subseteq Open(k, c, n)'
    OBVIOUS
  <2>4. Cardinality(Lost(k, c)) + Cardinality(Late(k, c, 1)) <= Cardinality(Open(k, c, 1))
    BY DEF Enough
  <2>5. Cardinality(Lost(k, c)') + Cardinality(Late(k, c, 1)') <= Cardinality(Open(k, c, 1)')
    BY <2>1, <2>2, <2>3, <2>4, FewerLeft
  <2>6. Cardinality(Late(k, c, n)) <= Cardinality(Open(k, c, n))
    BY DEF EnoughFrom
  <2>7. Cardinality(Late(k, c, n)') <= Cardinality(Open(k, c, n)')
    BY <2>1, <2>2, <2>3, <2>6, FewerLeft
  <2>8. ASSUME NEW i \in DOMAIN ops, n = i + 1, stage' = "listed", ops[i].old
        PROVE  Cardinality((Lost(k, c) \ on)') + Cardinality(Late(k, c, 1)') <= Cardinality(Open(k, c, n)')
    <3>1. Cardinality(Lost(k, c) \ on) + Cardinality(Late(k, c, 1)) <= Cardinality(Open(k, c, n))
      BY <2>8 DEF EnoughAfter
    <3>2. (Lost(k, c) \ on)' \subseteq Lost(k, c) \ on
      BY <2>3, <2>8
    <3>3. QED
      BY <2>1, <2>2, <2>3, <3>1, <3>2, FewerLeft
  <2>9. QED
    BY <2>5, <2>7, <2>8
<1>2. Enough'
  BY <1>1 DEF Enough
<1>3. EnoughFrom'
  BY <1>1 DEF EnoughFrom
<1>4. EnoughAfter'
  <2> SUFFICES ASSUME NEW k \in Keys, NEW c \in Contents, NEW i \in DOMAIN ops', stage' = "listed", ops'[i].old
               PROVE  Cardinality((Lost(k, c) \ on)') + Cardinality(Late(k, c, 1)') <= Cardinality(Open(k, c, i + 1)')
    BY DEF EnoughAfter
  <2>1. i \in DOMAIN ops /\ ops[i].old /\ i + 1 \in Nat
    BY OpTypes
  <2>2. QED
    BY <1>1, <2>1
<1>5. QED
  BY <1>2, <1>3, <1>4

LEMMA SteadySets ==
  ASSUME IInv, Steady, NEW k \in Keys, NEW c \in Contents, NEW n \in Nat
  PROVE  Lost(k, c)' \subseteq Lost(k, c) /\ Late(k, c, n)' \subseteq Late(k, c, n) /\ Open(k, c, n) \subseteq Open(k, c, n)'
<1>1. Lost(k, c)' \subseteq Lost(k, c)
  <2> SUFFICES ASSUME NEW p \in Lost(k, c)' PROVE p \in Lost(k, c)
    OBVIOUS
  <2>1. Missing(p)' /\ Told(p)' = [key |-> k, content |-> c]
    BY DEF Lost
  <2>2. Told(p)'.content \in Contents
    BY <2>1
  <2>3. Missing(p) /\ Told(p)' = Told(p)
    BY <2>1, <2>2 DEF Steady
  <2>4. QED
    BY <2>1, <2>3 DEF Lost, Missing
<1>2. Late(k, c, n)' \subseteq Late(k, c, n)
  BY DEF Late, Of, Steady
<1>3. Open(k, c, n) \subseteq Open(k, c, n)'
  BY DEF Open, Of, Steady
<1>4. QED
  BY <1>1, <1>2, <1>3

LEMMA CountSteady ==
  ASSUME IInv, IInv', CountInv, Steady, Aged, stage' # "listed" \/ UNCHANGED <<stage, on>>
  PROVE  CountInv'
<1>1. LandedBefore'
  <2> SUFFICES ASSUME NEW i \in DOMAIN ops', ops'[i].old, NEW j \in 1..i, ops'[j].flying PROVE FALSE
    BY DEF LandedBefore
  <2>1. i \in DOMAIN ops /\ ops[i].old
    BY DEF Aged
  <2>2. j \in DOMAIN ops
    BY <2>1, OpTypes
  <2>3. ops[j].flying
    BY <2>2 DEF Steady
  <2>4. QED
    BY <2>1, <2>3 DEF CountInv, LandedBefore
<1>2. Enough' /\ EnoughFrom' /\ EnoughAfter'
  BY SteadySets, SumsKept DEF CountInv, Aged
<1>3. QED
  BY <1>1, <1>2 DEF CountInv

LEMMA CountAges ==
  ASSUME IInv, IInv', CountInv, NEW i \in DOMAIN ops, Age(i)
  PROVE  CountInv'
<1>1. Steady /\ stage' # "listed"
  BY AgeSteady DEF Age, passVars
<1>2. Enough' /\ EnoughFrom' /\ EnoughAfter'
  BY <1>1, SteadySets, SumsKept DEF CountInv
<1>3. LandedBefore'
  <2>1. ops' = [ops EXCEPT ![i] = [ops[i] EXCEPT !.old = TRUE]] /\ \A j \in 1..i : ~ops[j].flying
    BY DEF Age
  <2>2. DOMAIN ops' = DOMAIN ops /\ \A n \in DOMAIN ops : n # i => ops'[n] = ops[n]
    BY <2>1
  <2> SUFFICES ASSUME NEW n \in DOMAIN ops, ops'[n].old, NEW j \in 1..n, ops'[j].flying PROVE FALSE
    BY <2>2 DEF LandedBefore
  <2>3. j \in DOMAIN ops /\ ops[j].flying
    BY <1>1, OpTypes DEF Steady
  <2>4. QED
    BY <2>1, <2>2, <2>3 DEF CountInv, LandedBefore
<1>4. QED
  BY <1>2, <1>3 DEF CountInv

\* When the list is read it shows all policies there are, so those it cannot
\* match are still to land, and whatever is old has landed.
LEMMA CountLists == ASSUME IInv, IInv', CountInv, ListPolicies PROVE CountInv'
<1>1. /\ stage = "off" /\ stage' = "listed" /\ on' = LiveIds /\ copies' = gateway /\ UNCHANGED <<gateway, ops>>
  BY DEF ListPolicies
<1>2. Steady /\ Aged
  BY ListSteady
<1>3. \A k, c, n : Late(k, c, n)' = Late(k, c, n)
  BY <1>1 DEF Late, Of
<1>4. LandedBefore'
  BY <1>1 DEF CountInv, LandedBefore
<1>5. ASSUME NEW k \in Keys, NEW c \in Contents, NEW n \in Nat
      PROVE  /\ Cardinality(Lost(k, c)') + Cardinality(Late(k, c, 1)') <= Cardinality(Open(k, c, 1)')
             /\ Cardinality(Late(k, c, n)') <= Cardinality(Open(k, c, n)')
  <2>1. Lost(k, c)' \subseteq Lost(k, c) /\ Open(k, c, 1) \subseteq Open(k, c, 1)' /\ Open(k, c, n) \subseteq Open(k, c, n)'
    BY <1>2, SteadySets
  <2>2. /\ IsFiniteSet(Lost(k, c)) /\ IsFiniteSet(Late(k, c, 1)) /\ IsFiniteSet(Late(k, c, n))
    BY Countable
  <2>3. IsFiniteSet(Open(k, c, 1)') /\ IsFiniteSet(Open(k, c, n)')
    <3>1. IsFiniteSet(DOMAIN ops)
      BY OpTypes, FS_Interval
    <3>2. Open(k, c, 1)' \subseteq DOMAIN ops /\ Open(k, c, n)' \subseteq DOMAIN ops
      BY <1>1 DEF Open, Of
    <3>3. QED
      BY <3>1, <3>2, FS_Subset
  <2>4. /\ Cardinality(Lost(k, c)) + Cardinality(Late(k, c, 1)) <= Cardinality(Open(k, c, 1))
        /\ Cardinality(Late(k, c, n)) <= Cardinality(Open(k, c, n))
    BY DEF CountInv, Enough, EnoughFrom
  <2>5. Late(k, c, 1)' = Late(k, c, 1) /\ Late(k, c, n)' = Late(k, c, n)
    BY <1>3
  <2>6. QED
    BY <2>1, <2>2, <2>3, <2>4, <2>5, FewerLeft
<1>6. EnoughAfter'
  <2> SUFFICES ASSUME NEW k \in Keys, NEW c \in Contents, NEW i \in DOMAIN ops, ops[i].old
               PROVE  Cardinality((Lost(k, c) \ on)') + Cardinality(Late(k, c, 1)') <= Cardinality(Open(k, c, i + 1)')
    BY <1>1 DEF EnoughAfter
  <2>1. (Lost(k, c) \ on)' = {}
    <3> SUFFICES ASSUME NEW p \in Lost(k, c)', p \notin on' PROVE FALSE
      OBVIOUS
    <3>1. p \in DOMAIN gateway /\ Told(p)' = [key |-> k, content |-> c]
      BY <1>1 DEF Lost
    <3>2. gateway[p].content = c
      BY <1>1, <3>1 DEF Told
    <3>3. QED
      BY <1>1, <3>1, <3>2, PolicySyncAssumption DEF LiveIds
  <2>2. i + 1 \in Nat /\ i \in Nat
    BY OpTypes
  <2>3. Late(k, c, 1)' = Late(k, c, i + 1)'
    <3>1. \A j \in DOMAIN ops : ops[j].flying => i + 1 <= j /\ 1 <= j
      BY OpTypes, <2>2 DEF CountInv, LandedBefore
    <3>2. Late(k, c, 1) = Late(k, c, i + 1)
      BY <3>1 DEF Late, Of
    <3>3. QED
      BY <1>3, <3>2
  <2>4. Cardinality(Late(k, c, i + 1)') <= Cardinality(Open(k, c, i + 1)')
    BY <1>5, <2>2
  <2>5. Cardinality(Late(k, c, i + 1)) \in Nat /\ Cardinality({}) = 0
    BY Countable, FS_EmptySet
  <2>6. QED
    BY <1>3, <2>1, <2>3, <2>4, <2>5
<1>7. Enough' /\ EnoughFrom'
  BY <1>5 DEF Enough, EnoughFrom
<1>8. QED
  BY <1>4, <1>6, <1>7 DEF CountInv

\* A step adds a policy, or a create that may land, with the operation that may
\* be matched with it.
LEMMA SumsGrown ==
  ASSUME IInv, IInv', Enough, EnoughFrom, stage' # "listed", NEW x, NEW y,
         \A k \in Keys, c \in Contents, n \in Nat :
           /\ Open(k, c, n) \subseteq Open(k, c, n)'
           /\ \/ Lost(k, c)' \subseteq Lost(k, c) /\ Late(k, c, n)' \subseteq Late(k, c, n)
              \/ n # 1 /\ Late(k, c, n)' \subseteq Late(k, c, n)
              \/ /\ y \notin Open(k, c, n) /\ y \in Open(k, c, n)'
                 /\ \/ Lost(k, c)' \subseteq Lost(k, c) \cup {x} /\ Late(k, c, n)' \subseteq Late(k, c, n)
                    \/ Lost(k, c)' \subseteq Lost(k, c) /\ Late(k, c, n)' \subseteq Late(k, c, n) \cup {x}
  PROVE  Enough' /\ EnoughFrom' /\ EnoughAfter'
<1>1. ASSUME NEW k \in Keys, NEW c \in Contents, NEW n \in Nat
      PROVE  /\ n = 1 => Cardinality(Lost(k, c)') + Cardinality(Late(k, c, n)') <= Cardinality(Open(k, c, n)')
             /\ Cardinality(Late(k, c, n)') <= Cardinality(Open(k, c, n)')
  <2>1. IsFiniteSet(Lost(k, c)) /\ IsFiniteSet(Late(k, c, n)) /\ IsFiniteSet(Open(k, c, n))
    BY Countable
  <2>2. IsFiniteSet(Open(k, c, n)')
    <3>1. DOMAIN ops' = 1..Len(ops') /\ Len(ops') \in Nat
      <4>1. ops' \in Seq(Ops)
        BY DEF IInv, World, GoodOps
      <4>2. QED
        BY <4>1
    <3>2. IsFiniteSet(DOMAIN ops')
      BY <3>1, FS_Interval
    <3>3. Open(k, c, n)' \subseteq DOMAIN ops'
      BY DEF Open, Of
    <3>4. QED
      BY <3>2, <3>3, FS_Subset
  <2>3. /\ n = 1 => Cardinality(Lost(k, c)) + Cardinality(Late(k, c, n)) <= Cardinality(Open(k, c, n))
        /\ Cardinality(Late(k, c, n)) <= Cardinality(Open(k, c, n))
    BY DEF Enough, EnoughFrom
  <2>4. Open(k, c, n) \subseteq Open(k, c, n)'
    OBVIOUS
  <2>5. CASE Lost(k, c)' \subseteq Lost(k, c) /\ Late(k, c, n)' \subseteq Late(k, c, n)
    BY <2>1, <2>2, <2>3, <2>4, <2>5, FewerLeft
  <2>6. CASE n # 1 /\ Late(k, c, n)' \subseteq Late(k, c, n)
    BY <2>1, <2>2, <2>3, <2>4, <2>6, FewerLeft
  <2>7. CASE /\ y \notin Open(k, c, n) /\ y \in Open(k, c, n)'
             /\ \/ Lost(k, c)' \subseteq Lost(k, c) \cup {x} /\ Late(k, c, n)' \subseteq Late(k, c, n)
                \/ Lost(k, c)' \subseteq Lost(k, c) /\ Late(k, c, n)' \subseteq Late(k, c, n) \cup {x}
    <3>1. Open(k, c, n) \cup {y} \subseteq Open(k, c, n)' /\ y \notin Open(k, c, n)
      BY <2>4, <2>7
    <3>2. /\ Cardinality(Lost(k, c)) + Cardinality(Late(k, c, n)) <= Cardinality(Open(k, c, n))
             => Cardinality(Lost(k, c)') + Cardinality(Late(k, c, n)') <= Cardinality(Open(k, c, n)')
          /\ Cardinality(Late(k, c, n)) <= Cardinality(Open(k, c, n))
             => Cardinality(Late(k, c, n)') <= Cardinality(Open(k, c, n)')
      <4>1. \/ Lost(k, c)' \subseteq Lost(k, c) \cup {x} /\ Late(k, c, n)' \subseteq Late(k, c, n)
            \/ Lost(k, c)' \subseteq Lost(k, c) /\ Late(k, c, n)' \subseteq Late(k, c, n) \cup {x}
        BY <2>7
      <4>2. QED
        BY ONLY <2>1, <2>2, <3>1, <4>1, MoreBoth
    <3>3. QED
      BY <2>3, <3>2
  <2>8. QED
    BY <2>5, <2>6, <2>7
<1>2. Enough'
  BY <1>1 DEF Enough
<1>3. EnoughFrom'
  BY <1>1 DEF EnoughFrom
<1>4. QED
  BY <1>2, <1>3 DEF EnoughAfter

LEMMA CountGrows ==
  ASSUME IInv, IInv', CountInv, NEW m, Grown(m), stage' # "listed"
  PROVE  CountInv'
<1>1. PICK y : y = Newest
  OBVIOUS
<1>2. /\ y \in DOMAIN ops /\ ~Waits(y) /\ Waits(y)' /\ DOMAIN ops' = DOMAIN ops
      /\ \A i \in DOMAIN ops : ops'[i].old = ops[i].old /\ ops'[i].flying = ops[i].flying
                               /\ ops'[i].key = ops[i].key /\ ops'[i].content = ops[i].content
  <2>1. Waits(Newest)' /\ ~Waits(Newest) /\ Newest \in DOMAIN ops
    BY DEF Grown
  <2>2. Len(ops') = Len(ops)
    <3>1. DOMAIN ops' = 1..Len(ops') /\ Len(ops') \in Nat
      <4>1. ops' \in Seq(Ops)
        BY DEF IInv, World, GoodOps
      <4>2. QED
        BY <4>1
    <3>2. 1..Len(ops') = 1..Len(ops) /\ Len(ops) \in Nat
      BY <3>1, OpTypes DEF Grown
    <3>3. Len(ops) \in 1..Len(ops') /\ Len(ops') \in 1..Len(ops)
      BY <2>1, <3>1, <3>2 DEF Newest
    <3>4. QED
      BY <3>1, <3>2, <3>3
  <2>3. Waits(y)'
    <3>1. Waits(Len(ops))'
      BY <2>1, <2>2 DEF Newest
    <3>2. QED
      BY <1>1, <2>2, <3>1 DEF Newest
  <2>4. QED
    BY <1>1, <2>1, <2>3 DEF Grown
<1>3. ASSUME NEW k \in Keys, NEW c \in Contents, NEW n \in Nat
      PROVE  /\ Open(k, c, n) \subseteq Open(k, c, n)'
             /\ Late(k, c, n)' \subseteq Late(k, c, n)
             /\ \/ Lost(k, c)' \subseteq Lost(k, c)
                \/ n # 1
                \/ y \notin Open(k, c, n) /\ y \in Open(k, c, n)' /\ Lost(k, c)' \subseteq Lost(k, c) \cup {m}
  <2>1. Open(k, c, n) \subseteq Open(k, c, n)' /\ Late(k, c, n)' \subseteq Late(k, c, n)
    BY <1>2 DEF Open, Late, Of, Grown
  <2>2. Lost(k, c)' \subseteq Lost(k, c) \cup {m}
    <3> SUFFICES ASSUME NEW p \in Lost(k, c)', p # m PROVE p \in Lost(k, c)
      OBVIOUS
    <3>1. Missing(p)' /\ Told(p)' = [key |-> k, content |-> c]
      BY DEF Lost
    <3>2. Told(p)'.content \in Contents
      BY <3>1
    <3>3. Missing(p) /\ Told(p)' = Told(p)
      BY <3>1, <3>2 DEF Grown
    <3>4. QED
      BY <3>1, <3>3 DEF Lost, Missing
  <2>3. ASSUME m \in Lost(k, c)', n = 1 PROVE y \notin Open(k, c, n) /\ y \in Open(k, c, n)'
    <3>1. Missing(m)' /\ Told(m)' = [key |-> k, content |-> c]
      BY <2>3 DEF Lost
    <3>2. Told(m)'.key = k /\ Told(m)'.content = c
      BY <3>1
    <3>3. ops[y].key = k /\ ops[y].content = c
      BY <1>1, <3>1, <3>2 DEF Grown
    <3>4. n <= y
      BY <1>2, <2>3, NewestAfter
    <3>5. QED
      BY <1>2, <3>3, <3>4 DEF Open, Of
  <2>4. QED
    BY <2>1, <2>2, <2>3
<1>4. Enough' /\ EnoughFrom' /\ EnoughAfter'
  <2>1. \A k \in Keys, c \in Contents, n \in Nat :
          /\ Open(k, c, n) \subseteq Open(k, c, n)'
          /\ \/ Lost(k, c)' \subseteq Lost(k, c) /\ Late(k, c, n)' \subseteq Late(k, c, n)
             \/ n # 1 /\ Late(k, c, n)' \subseteq Late(k, c, n)
             \/ /\ y \notin Open(k, c, n) /\ y \in Open(k, c, n)'
                /\ \/ Lost(k, c)' \subseteq Lost(k, c) \cup {m} /\ Late(k, c, n)' \subseteq Late(k, c, n)
                   \/ Lost(k, c)' \subseteq Lost(k, c) /\ Late(k, c, n)' \subseteq Late(k, c, n) \cup {m}
    BY <1>3
  <2>2. Enough /\ EnoughFrom
    BY DEF CountInv
  <2>3. QED
    BY <2>1, <2>2, SumsGrown
<1>5. LandedBefore'
  <2> SUFFICES ASSUME NEW i \in DOMAIN ops, ops[i].old, NEW j \in 1..i, ops'[j].flying PROVE FALSE
    BY <1>2 DEF LandedBefore
  <2>1. j \in DOMAIN ops
    BY OpTypes
  <2>2. QED
    BY <1>2, <2>1 DEF CountInv, LandedBefore
<1>6. QED
  BY <1>4, <1>5 DEF CountInv

LEMMA CountFlies ==
  ASSUME IInv, IInv', RecordInv, CountInv, PostFails,
         UNCHANGED gateway, ops' = [ops EXCEPT ![Newest].flying = TRUE]
  PROVE  CountInv'
<1>1. stage = "post" /\ stage' = "error"
  BY DEF PostFails
<1>2. PICK y : y = Newest
  OBVIOUS
<1>3. /\ y \in DOMAIN ops /\ y \in Pending /\ ops[y].status = "pending" /\ ops[y] \in Ops /\ ~ops[y].flying /\ ~ops[y].old
      /\ y \in Nat /\ \A i \in DOMAIN ops : i <= y
  BY <1>1, <1>2, OpTypes DEF RecordInv, Sending, Newest, Pending
<1>4. /\ DOMAIN ops' = DOMAIN ops /\ \A j \in DOMAIN ops : j # y => ops'[j] = ops[j]
      /\ ops'[y].key = ops[y].key /\ ops'[y].content = ops[y].content
      /\ ops'[y].status = "pending" /\ ~ops'[y].old
  <2>1. PICK o \in Ops : o = ops[y]
    BY <1>3
  <2>2. ops'[y] = [o EXCEPT !.flying = TRUE]
    BY <1>2, <1>3, <2>1
  <2>3. /\ ops'[y].key = o.key /\ ops'[y].content = o.content
        /\ ops'[y].status = o.status /\ ops'[y].old = o.old
    BY <2>2 DEF Ops
  <2>4. DOMAIN ops' = DOMAIN ops /\ \A j \in DOMAIN ops : j # y => ops'[j] = ops[j]
    BY <1>2
  <2>5. QED
    BY <1>3, <2>1, <2>3, <2>4
<1>5. \A q : (ByOp(q)' <=> ByOp(q))
  BY <1>3, <1>4 DEF ByOp
<1>6. \A i \in DOMAIN ops : i \in Pending <=> i \in Pending'
  BY <1>3, <1>4 DEF Pending
<1>7. ~Waits(y) /\ Waits(y)' /\ \A i \in DOMAIN ops : Waits(i) => Waits(i)'
  BY <1>1, <1>2, <1>3, <1>6 DEF Waits
<1>8. ASSUME NEW k \in Keys, NEW c \in Contents, NEW n \in Nat
      PROVE  /\ Open(k, c, n) \subseteq Open(k, c, n)'
             /\ Lost(k, c)' \subseteq Lost(k, c)
             /\ \/ Late(k, c, n)' \subseteq Late(k, c, n)
                \/ /\ y \notin Open(k, c, n) /\ y \in Open(k, c, n)'
                   /\ Late(k, c, n)' \subseteq Late(k, c, n) \cup {y}
  <2>1. Lost(k, c)' \subseteq Lost(k, c)
    BY <1>1, <1>5 DEF Lost, Missing, Told
  <2>2. \A i : i \in Of(k, c, n)' <=> i \in Of(k, c, n)
    BY <1>4 DEF Of
  <2>3. Late(k, c, n)' \subseteq Late(k, c, n) \cup {y}
    BY <1>4, <2>2 DEF Late, Of
  <2>4. Open(k, c, n) \subseteq Open(k, c, n)'
    BY <1>7, <2>2 DEF Open, Of
  <2>5. y \in Late(k, c, n)' => y \notin Open(k, c, n) /\ y \in Open(k, c, n)'
    BY <1>7 DEF Late, Open
  <2>6. QED
    BY <2>1, <2>3, <2>4, <2>5
<1>9. Enough' /\ EnoughFrom' /\ EnoughAfter'
  BY <1>1, <1>8, SumsGrown DEF CountInv
<1>10. LandedBefore'
  <2> SUFFICES ASSUME NEW i \in DOMAIN ops, ops'[i].old, NEW j \in 1..i, ops'[j].flying PROVE FALSE
    BY <1>4 DEF LandedBefore
  <2>1. i # y /\ ops[i].old /\ j \in DOMAIN ops
    BY <1>4, OpTypes
  <2>2. j # y
    <3>1. i <= y /\ i \in Nat /\ j <= i /\ j \in Nat
      BY <1>3, OpTypes
    <3>2. QED
      BY <1>3, <2>1, <3>1
  <2>3. ops[j].flying
    BY <1>4, <2>1, <2>2
  <2>4. QED
    BY <2>1, <2>3 DEF CountInv, LandedBefore
<1>11. QED
  BY <1>9, <1>10 DEF CountInv

\* A create that may land becomes a policy: one more of the one, one less of the other.
LEMMA OneForOne ==
  ASSUME NEW A, NEW B, NEW C, NEW A2, NEW B2, NEW x, NEW y,
         IsFiniteSet(A), IsFiniteSet(B), IsFiniteSet(C),
         \/ A2 \subseteq A /\ B2 \subseteq B
         \/ A2 \subseteq A \cup {x} /\ y \in B /\ B2 \subseteq B \ {y},
         Cardinality(A) + Cardinality(B) <= Cardinality(C)
  PROVE  Cardinality(A2) + Cardinality(B2) <= Cardinality(C)
<1>1. CASE A2 \subseteq A /\ B2 \subseteq B
  BY <1>1, FewerLeft
<1>2. CASE A2 \subseteq A \cup {x} /\ y \in B /\ B2 \subseteq B \ {y}
  <2>1. IsFiniteSet(B \ {y}) /\ B = (B \ {y}) \cup {y} /\ y \notin B \ {y}
    BY <1>2, FS_RemoveElement
  <2>2. Cardinality(B) = Cardinality(B \ {y}) + 1 /\ Cardinality(B \ {y}) \in Nat
    <3>1. Cardinality((B \ {y}) \cup {y}) = Cardinality(B \ {y}) + 1 /\ Cardinality(B \ {y}) \in Nat
      BY <2>1, OneMore
    <3>2. QED
      BY <2>1, <3>1
  <2>3. IsFiniteSet(A \cup {x}) /\ Cardinality(A \cup {x}) <= Cardinality(A) + 1 /\ Cardinality(A \cup {x}) \in Nat
        /\ Cardinality(A) \in Nat
    <3>1. CASE x \in A
      <4>1. A \cup {x} = A /\ Cardinality(A) \in Nat
        BY <3>1, FS_CardinalityType
      <4>2. QED
        BY <4>1
    <3>2. CASE x \notin A
      <4>1. /\ IsFiniteSet(A \cup {x}) /\ Cardinality(A \cup {x}) = Cardinality(A) + 1
            /\ Cardinality(A) \in Nat
        BY <3>2, OneMore
      <4>2. QED
        BY <4>1
    <3>3. QED
      BY <3>1, <3>2
  <2>4. /\ Cardinality(A2) <= Cardinality(A \cup {x}) /\ Cardinality(A2) \in Nat
        /\ Cardinality(B2) <= Cardinality(B \ {y}) /\ Cardinality(B2) \in Nat
    BY <1>2, <2>1, <2>3, FS_Subset, FS_CardinalityType
  <2>5. Cardinality(C) \in Nat
    BY FS_CardinalityType
  <2>6. QED
    BY <2>2, <2>3, <2>4, <2>5
<1>3. QED
  BY <1>1, <1>2

LEMMA LandFacts ==
  ASSUME IInv, NEW i \in DOMAIN ops, LandLate(i)
  PROVE  /\ DOMAIN ops' = DOMAIN ops /\ \A j \in DOMAIN ops : j # i => ops'[j] = ops[j]
         /\ ops'[i].key = ops[i].key /\ ops'[i].content = ops[i].content /\ ops'[i].old = ops[i].old
         /\ ops'[i].status = ops[i].status /\ ops'[i].policy = ops[i].policy
         /\ ops[i].flying /\ ~ops'[i].flying
         /\ UNCHANGED <<stage, on, made, copies>>
         /\ \E m : /\ m \notin DOMAIN gateway /\ gateway'[m] = [key |-> ops[i].key, content |-> ops[i].content]
                   /\ \A p \in DOMAIN gateway : p \in DOMAIN gateway' /\ gateway'[p] = gateway[p]
                   /\ \A p \in DOMAIN gateway' : p \in DOMAIN gateway \/ p = m
<1>1. /\ ops[i].flying /\ ops' = [ops EXCEPT ![i] = [ops[i] EXCEPT !.flying = FALSE]]
      /\ gateway' = Append(gateway, [key |-> ops[i].key, content |-> ops[i].content])
      /\ UNCHANGED <<stage, on, made, copies>>
  BY DEF LandLate, passVars
<1>2. /\ DOMAIN ops' = DOMAIN ops /\ \A j \in DOMAIN ops : j # i => ops'[j] = ops[j]
      /\ ops'[i].key = ops[i].key /\ ops'[i].content = ops[i].content /\ ops'[i].old = ops[i].old
      /\ ops'[i].status = ops[i].status /\ ops'[i].policy = ops[i].policy /\ ~ops'[i].flying
  <2>1. PICK o \in Ops : o = ops[i]
    BY OpTypes
  <2>2. ops'[i] = [o EXCEPT !.flying = FALSE]
    BY <1>1, <2>1
  <2>3. /\ ops'[i].key = o.key /\ ops'[i].content = o.content /\ ops'[i].old = o.old
        /\ ops'[i].status = o.status /\ ops'[i].policy = o.policy /\ ~ops'[i].flying
    BY <2>2 DEF Ops
  <2>4. DOMAIN ops' = DOMAIN ops /\ \A j \in DOMAIN ops : j # i => ops'[j] = ops[j]
    BY <1>1
  <2>5. QED
    BY <2>1, <2>3, <2>4
<1>3. /\ Len(gateway') \notin DOMAIN gateway
      /\ gateway'[Len(gateway')] = [key |-> ops[i].key, content |-> ops[i].content]
      /\ \A p \in DOMAIN gateway : p \in DOMAIN gateway' /\ gateway'[p] = gateway[p]
      /\ \A p \in DOMAIN gateway' : p \in DOMAIN gateway \/ p = Len(gateway')
  <2>1. gateway \in Seq(Copies \cup {Admin}) /\ Len(gateway) \in Nat /\ DOMAIN gateway = 1..Len(gateway)
    BY Types DEF GoodGateway
  <2>2. DOMAIN gateway' = 1..(Len(gateway) + 1) /\ Len(gateway') = Len(gateway) + 1
    BY <1>1, <2>1
  <2>3. QED
    BY <1>1, <2>1, <2>2, AppendFacts
<1>4. QED
  BY <1>1, <1>2, <1>3

LEMMA CountLands ==
  ASSUME IInv, IInv', CountInv, NEW i \in DOMAIN ops, LandLate(i)
  PROVE  CountInv'
<1>1. PICK m : /\ m \notin DOMAIN gateway /\ gateway'[m] = [key |-> ops[i].key, content |-> ops[i].content]
               /\ \A p \in DOMAIN gateway : p \in DOMAIN gateway' /\ gateway'[p] = gateway[p]
               /\ \A p \in DOMAIN gateway' : p \in DOMAIN gateway \/ p = m
  BY LandFacts
<1>2. UNCHANGED <<stage, on, made, copies>> /\ on \subseteq DOMAIN gateway
  BY LandFacts, Types
<1>0. /\ DOMAIN ops' = DOMAIN ops /\ ops[i].flying /\ ~ops'[i].flying
      /\ \A j \in DOMAIN ops : /\ ops'[j].key = ops[j].key /\ ops'[j].content = ops[j].content
                               /\ ops'[j].old = ops[j].old /\ ops'[j].status = ops[j].status
                               /\ ops'[j].policy = ops[j].policy
                               /\ j # i => ops'[j].flying = ops[j].flying
  BY LandFacts
<1>3. \A q : (ByOp(q)' <=> ByOp(q))
  BY <1>0 DEF ByOp
<1>4. ASSUME NEW k \in Keys, NEW c \in Contents, NEW n \in Nat
      PROVE  /\ Open(k, c, n)' = Open(k, c, n) /\ Late(k, c, n)' = Late(k, c, n) \ {i}
             /\ Lost(k, c)' \subseteq Lost(k, c) \cup {m}
             /\ m \in Lost(k, c)' /\ n = 1 => i \in Late(k, c, n)
  <2>1. \A j : j \in Of(k, c, n)' <=> j \in Of(k, c, n)
    BY <1>0 DEF Of
  <2>2. \A j \in DOMAIN ops : Waits(j)' <=> Waits(j)
    <3>1. Newest' = Newest
      <4>1. DOMAIN ops' = 1..Len(ops') /\ Len(ops') \in Nat
        <5>1. ops' \in Seq(Ops)
          BY DEF IInv, World, GoodOps
        <5>2. QED
          BY <5>1
      <4>2. 1..Len(ops') = 1..Len(ops) /\ Len(ops) \in Nat /\ Len(ops) >= 1
        BY <1>0, <4>1, OpTypes
      <4>3. Len(ops) \in 1..Len(ops') /\ Len(ops') \in 1..Len(ops)
        BY <4>1, <4>2
      <4>4. QED
        BY <4>1, <4>2, <4>3 DEF Newest
    <3>2. \A j \in DOMAIN ops : j \in Pending' <=> j \in Pending
      BY <1>0 DEF Pending
    <3>3. QED
      BY <1>2, <3>1, <3>2 DEF Waits
  <2>3. Open(k, c, n)' = Open(k, c, n)
    BY <2>1, <2>2 DEF Open, Of
  <2>4. Late(k, c, n)' = Late(k, c, n) \ {i}
    BY <1>0, <2>1 DEF Late, Of
  <2>5. Lost(k, c)' \subseteq Lost(k, c) \cup {m}
    BY <1>1, <1>2, <1>3 DEF Lost, Missing, Told
  <2>6. ASSUME m \in Lost(k, c)', n = 1 PROVE i \in Late(k, c, n)
    <3>1. Told(m)' = [key |-> k, content |-> c]
      BY <2>6 DEF Lost
    <3>2. Told(m)' = [key |-> ops[i].key, content |-> ops[i].content]
      BY <1>1, <1>2 DEF Told
    <3>3. PICK a, b : a = ops[i].key /\ b = ops[i].content
      OBVIOUS
    <3>4. [key |-> k, content |-> c] = [key |-> a, content |-> b]
      BY <3>1, <3>2, <3>3
    <3>5. k = a /\ c = b
      BY <3>4
    <3>6. QED
      BY <2>6, <3>3, <3>5, <1>0, OpTypes DEF Late, Of
  <2>7. QED
    BY <2>3, <2>4, <2>5, <2>6
<1>5. ASSUME NEW k \in Keys, NEW c \in Contents, NEW n \in Nat
      PROVE  Cardinality(Late(k, c, n)') <= Cardinality(Open(k, c, n)')
  <2>1. /\ IsFiniteSet(Late(k, c, n)) /\ IsFiniteSet(Open(k, c, n))
        /\ Cardinality(Late(k, c, n)) <= Cardinality(Open(k, c, n))
    BY Countable DEF CountInv, EnoughFrom
  <2>2. Open(k, c, n)' = Open(k, c, n) /\ Late(k, c, n)' \subseteq Late(k, c, n)
    BY <1>4
  <2>3. QED
    BY <2>1, <2>2, FewerLeft
<1>6. ASSUME NEW k \in Keys, NEW c \in Contents
      PROVE  Cardinality(Lost(k, c)') + Cardinality(Late(k, c, 1)') <= Cardinality(Open(k, c, 1)')
  <2>1. /\ IsFiniteSet(Lost(k, c)) /\ IsFiniteSet(Late(k, c, 1)) /\ IsFiniteSet(Open(k, c, 1))
        /\ Cardinality(Lost(k, c)) + Cardinality(Late(k, c, 1)) <= Cardinality(Open(k, c, 1))
    BY Countable DEF CountInv, Enough
  <2>2. /\ Open(k, c, 1)' = Open(k, c, 1) /\ Late(k, c, 1)' = Late(k, c, 1) \ {i}
        /\ Lost(k, c)' \subseteq Lost(k, c) \cup {m}
        /\ m \in Lost(k, c)' => i \in Late(k, c, 1)
    BY <1>4
  <2>3. \/ Lost(k, c)' \subseteq Lost(k, c) /\ Late(k, c, 1)' \subseteq Late(k, c, 1)
        \/ Lost(k, c)' \subseteq Lost(k, c) \cup {m} /\ i \in Late(k, c, 1) /\ Late(k, c, 1)' \subseteq Late(k, c, 1) \ {i}
    BY <2>2
  <2>4. Cardinality(Lost(k, c)') + Cardinality(Late(k, c, 1)') <= Cardinality(Open(k, c, 1))
    BY ONLY <2>1, <2>3, OneForOne
  <2>5. QED
    BY <2>2, <2>4
<1>7. ASSUME NEW k \in Keys, NEW c \in Contents, NEW n \in DOMAIN ops', stage' = "listed", ops'[n].old
      PROVE  Cardinality((Lost(k, c) \ on)') + Cardinality(Late(k, c, 1)') <= Cardinality(Open(k, c, n + 1)')
  <2>1. n \in DOMAIN ops /\ ops[n].old /\ n + 1 \in Nat /\ stage = "listed"
    BY <1>0, <1>2, <1>7, OpTypes
  <2>2. /\ IsFiniteSet(Lost(k, c) \ on) /\ IsFiniteSet(Late(k, c, 1)) /\ IsFiniteSet(Open(k, c, n + 1))
        /\ Cardinality(Lost(k, c) \ on) + Cardinality(Late(k, c, 1)) <= Cardinality(Open(k, c, n + 1))
    BY <2>1, Countable DEF CountInv, EnoughAfter
  <2>3. /\ Open(k, c, n + 1)' = Open(k, c, n + 1) /\ Late(k, c, 1)' = Late(k, c, 1) \ {i}
        /\ Lost(k, c)' \subseteq Lost(k, c) \cup {m}
        /\ m \in Lost(k, c)' => i \in Late(k, c, 1)
    BY <1>4, <2>1
  <2>4. \/ (Lost(k, c) \ on)' \subseteq Lost(k, c) \ on /\ Late(k, c, 1)' \subseteq Late(k, c, 1)
        \/ (Lost(k, c) \ on)' \subseteq (Lost(k, c) \ on) \cup {m} /\ i \in Late(k, c, 1) /\ Late(k, c, 1)' \subseteq Late(k, c, 1) \ {i}
    BY <1>2, <2>3
  <2>5. Cardinality((Lost(k, c) \ on)') + Cardinality(Late(k, c, 1)') <= Cardinality(Open(k, c, n + 1))
    BY ONLY <2>2, <2>4, OneForOne
  <2>6. QED
    BY <2>3, <2>5
<1>8. LandedBefore'
  <2> SUFFICES ASSUME NEW j \in DOMAIN ops', ops'[j].old, NEW n \in 1..j, ops'[n].flying PROVE FALSE
    BY DEF LandedBefore
  <2>1. j \in DOMAIN ops /\ ops[j].old /\ n \in DOMAIN ops
    BY <1>0, OpTypes
  <2>2. ops[n].flying
    BY <1>0, <2>1
  <2>3. QED
    BY <2>1, <2>2 DEF CountInv, LandedBefore
<1>9. QED
  BY <1>5, <1>6, <1>7, <1>8 DEF CountInv, Enough, EnoughFrom, EnoughAfter

\* No rule's write is another's with a schedule: a policy carries its own write only.
LEMMA CarriesOnly ==
  ASSUME Extends = {}, NEW copy, NEW op
  PROVE  Carries(copy, op) <=> copy.key = op.key /\ copy.content = op.content
BY DEF Carries

\* What the matching of the creates for one key and content does.
LEMMA MatchedClass ==
  ASSUME IInv, CopiesRead, RecordInv, Extends = {}, stage = "listed",
         NEW match \in [Pending -> on \cup {0}], Matches(match, Carries), NEW k \in Keys, NEW c \in Contents
  PROVE  /\ \A i \in Open(k, c, 1) : i \in Pending /\ i \in Nat /\ 1 <= i
         /\ \A i \in Open(k, c, 1) : match[i] # 0 =>
              /\ match[i] \in Lost(k, c)
              /\ \A j \in Open(k, c, 1) : j # i => match[j] # match[i]
              /\ \A j \in Open(k, c, 1) : j < i => match[j] # 0
         /\ \A p \in Lost(k, c) : p \in on =>
              \A i \in Open(k, c, 1) : match[i] = 0 => \E j \in Open(k, c, 1) : match[j] = p
<1>1. \A i \in DOMAIN ops : i \in Open(k, c, 1) <=> i \in Pending /\ ops[i].key = k /\ ops[i].content = c
  BY OpTypes DEF Open, Of, Waits
<1>2. Open(k, c, 1) \subseteq DOMAIN ops /\ Pending \subseteq DOMAIN ops
  BY DEF Open, Of, Pending
<1>3. ASSUME NEW i \in Open(k, c, 1) PROVE i \in Pending /\ i \in Nat /\ 1 <= i /\ ops[i].key = k /\ ops[i].content = c
  BY <1>1, <1>2, OpTypes
<1>4. ASSUME NEW p \in on, NEW i \in Pending, Carries(copies[p], ops[i]), ~Claimed(p)
      PROVE  /\ i \in Open(k, c, 1) => p \in Lost(k, c)
             /\ p \in Lost(k, c) => i \in Open(k, c, 1)
  <2>1. copies[p].key = ops[i].key /\ copies[p].content = ops[i].content
    BY <1>4, CarriesOnly
  <2>2. p \in DOMAIN gateway /\ ~ByOp(p) /\ Told(p) = copies[p]
    BY <1>4, Types DEF Claimed, Told
  <2>3. i \in DOMAIN ops /\ ops[i].content \in Contents
    BY <1>2, OpTypes
  <2>4. copies[p] \in Copies
    <3>1. p \in DOMAIN copies /\ copies[p] \in Copies \cup {Admin}
      BY Types DEF CopiesRead
    <3>2. QED
      BY <2>1, <2>3, <3>1, PolicySyncAssumption DEF Admin
  <2>5. PICK copy \in Copies : copy = copies[p]
    BY <2>4
  <2>6. copy = [key |-> copy.key, content |-> copy.content]
    BY DEF Copies
  <2>7. ASSUME i \in Open(k, c, 1) PROVE p \in Lost(k, c)
    <3>1. copy.key = k /\ copy.content = c
      BY <1>3, <2>1, <2>5, <2>7
    <3>2. QED
      BY <2>2, <2>5, <2>6, <3>1 DEF Lost, Missing
  <2>8. ASSUME p \in Lost(k, c) PROVE i \in Open(k, c, 1)
    <3>1. Told(p) = [key |-> k, content |-> c]
      BY <2>8 DEF Lost
    <3>2. copies[p].key = k /\ copies[p].content = c
      BY <2>2, <3>1
    <3>3. QED
      BY <1>1, <2>1, <2>3, <3>2
  <2>9. QED
    BY <2>7, <2>8
<1>5. ASSUME NEW p \in on, p \in Lost(k, c), NEW i \in Open(k, c, 1)
      PROVE  ~Claimed(p) /\ Carries(copies[p], ops[i])
  <2>1. p # 0 /\ ~ByOp(p) /\ Told(p) = [key |-> k, content |-> c] /\ Told(p) = copies[p]
    BY <1>5, Types DEF Lost, Missing, Told
  <2>2. copies[p].key = k /\ copies[p].content = c
    BY <2>1
  <2>3. QED
    BY <1>3, <2>1, <2>2, ClaimedOnRecord, CarriesOwn
<1>6. ASSUME NEW i \in Open(k, c, 1), match[i] # 0
      PROVE  /\ match[i] \in Lost(k, c) /\ match[i] \in on
             /\ \A j \in Pending : j # i => match[j] # match[i]
  <2>1. /\ match[i] \in on /\ ~Claimed(match[i]) /\ Carries(copies[match[i]], ops[i])
        /\ \A j \in Pending : j # i => match[j] # match[i]
    BY <1>3, <1>6, MatchFacts
  <2>2. QED
    BY <1>3, <1>4, <2>1
<1>7. ASSUME NEW i \in Open(k, c, 1), match[i] # 0, NEW j \in Open(k, c, 1), j < i
      PROVE  match[j] # 0
  <2>1. PICK p : p = match[i]
    OBVIOUS
  <2>2. p \in on /\ p \in Lost(k, c) /\ \A n \in Pending : n # i => match[n] # p
    BY <1>6, <1>7, <2>1
  <2>3. ~Claimed(p) /\ Carries(copies[p], ops[j])
    BY <1>5, <2>2
  <2>4. (match[j] # 0 /\ match[j] <= p) \/ \E n \in Pending : n < j /\ match[n] = p
    BY <1>3, <2>2, <2>3, MatchFacts
  <2>5. \A n \in Pending : n < j => n # i
    BY <1>2, <1>3, <1>7, OpTypes
  <2>6. QED
    BY <2>2, <2>4, <2>5
<1>8. ASSUME NEW p \in Lost(k, c), p \in on, NEW i \in Open(k, c, 1), match[i] = 0
      PROVE  \E j \in Open(k, c, 1) : match[j] = p
  <2>1. ~Claimed(p) /\ Carries(copies[p], ops[i])
    BY <1>5, <1>8
  <2>2. (match[i] # 0 /\ match[i] <= p) \/ \E n \in Pending : n < i /\ match[n] = p
    BY <1>3, <1>8, <2>1, MatchFacts
  <2>3. PICK j \in Pending : match[j] = p
    BY <1>8, <2>2
  <2>4. match[j] # 0
    BY <1>8, <2>3, Types
  <2>5. Carries(copies[match[j]], ops[j])
    BY <2>4, MatchFacts
  <2>6. QED
    BY <1>4, <1>8, <2>1, <2>3, <2>5
<1>9. QED
  BY <1>3, <1>6, <1>7, <1>8

LEMMA SettledSets ==
  ASSUME IInv, RecordInv, ToldSo, SettleLostCreates,
         NEW match \in [Pending -> on \cup {0}], Settled(match), NEW k \in Keys, NEW c \in Contents, NEW n \in Nat
  PROVE  /\ Lost(k, c)' \subseteq Lost(k, c)
         /\ \A p \in Lost(k, c)' : \A i \in Pending : match[i] # p
         /\ Late(k, c, n)' = Late(k, c, n)
         /\ Open(k, c, n)' = {i \in Open(k, c, n) : match[i] = 0 /\ ~ops[i].old}
<1>1. stage = "listed" /\ stage' = "plan"
  BY DEF SettleLostCreates, SettleLostCreatesBy
<1>2. ASSUME NEW p \in Lost(k, c)' PROVE p \in Lost(k, c) /\ \A i \in Pending : match[i] # p
  <2>1. Missing(p)' /\ Told(p)' = [key |-> k, content |-> c]
    BY DEF Lost
  <2>2. Told(p)'.content \in Contents
    BY <2>1
  <2>3. Missing(p) /\ Told(p)' = Told(p) /\ \A i \in Pending : match[i] # p
    BY <2>1, <2>2, SettledLeaves
  <2>4. QED
    BY <2>1, <2>3 DEF Lost, Missing
<1>3. \A i : i \in Of(k, c, n)' <=> i \in Of(k, c, n)
  BY DEF Of, Settled
<1>4. Late(k, c, n)' = Late(k, c, n)
  BY <1>3 DEF Late, Of, Settled
<1>5. ASSUME NEW i \in DOMAIN ops PROVE Waits(i)' <=> (Waits(i) /\ match[i] = 0 /\ ~ops[i].old)
  <2>1. Waits(i)' <=> ops'[i].status = "pending"
    BY <1>1 DEF Waits, Pending, Settled
  <2>2. Waits(i) <=> i \in Pending
    BY <1>1 DEF Waits
  <2>3. i \in Pending => (ops'[i].status = "pending" <=> match[i] = 0 /\ ~ops[i].old)
    BY DEF Settled, Pending
  <2>4. i \notin Pending => ops'[i].status # "pending"
    BY DEF Settled, Pending
  <2>5. QED
    BY <2>1, <2>2, <2>3, <2>4
<1>6. Open(k, c, n)' = {i \in Open(k, c, n) : match[i] = 0 /\ ~ops[i].old}
  BY <1>3, <1>5 DEF Open, Of
<1>7. QED
  BY <1>2, <1>4, <1>6

\* As many policies are taken as creates are matched.
LEMMA TakenTogether ==
  ASSUME NEW A, NEW C, NEW A2, NEW match, NEW M, IsFiniteSet(A), IsFiniteSet(C),
         M \subseteq C, \A i \in M : match[i] \in A,
         \A i, j \in M : i # j => match[i] # match[j],
         A2 \subseteq A, \A i \in M : match[i] \notin A2,
         NEW b \in Nat, Cardinality(A) + b <= Cardinality(C)
  PROVE  Cardinality(A2) + b <= Cardinality(C \ M)
<1> PICK P : P = {match[i] : i \in M}
  OBVIOUS
<1>1. P \subseteq A /\ A2 \subseteq A \ P
  OBVIOUS
<1>2. IsFiniteSet(P) /\ IsFiniteSet(M) /\ IsFiniteSet(A \ P) /\ IsFiniteSet(C \ M)
  BY <1>1, FS_Subset, FS_Difference
<1>3. Cardinality(M) = Cardinality(P)
  <2> PICK f : f = [i \in M |-> match[i]]
    OBVIOUS
  <2>1. f \in Bijection(M, P)
    <3>1. f \in [M -> P] /\ \A i \in M : f[i] = match[i]
      OBVIOUS
    <3>2. f \in Injection(M, P)
      BY <3>1 DEF Injection, IsInjective
    <3>3. f \in Surjection(M, P)
      BY <3>1 DEF Surjection
    <3>4. QED
      BY <3>2, <3>3 DEF Bijection
  <2>2. QED
    BY <1>2, <2>1, FS_Bijection DEF ExistsBijection
<1>4. Cardinality(C \ M) = Cardinality(C) - Cardinality(M)
  <2>1. Cardinality(C \ M) = Cardinality(C) - Cardinality(C \cap M) /\ C \cap M = M
    BY FS_Difference
  <2>2. QED
    BY <2>1
<1>5. Cardinality(A \ P) = Cardinality(A) - Cardinality(P)
  <2>1. Cardinality(A \ P) = Cardinality(A) - Cardinality(A \cap P) /\ A \cap P = P
    BY <1>1, FS_Difference
  <2>2. QED
    BY <2>1
<1>6. Cardinality(A2) <= Cardinality(A \ P) /\ IsFiniteSet(A2)
  BY <1>1, <1>2, FS_Subset
<1>7. /\ Cardinality(A2) \in Nat /\ Cardinality(P) \in Nat /\ Cardinality(M) \in Nat
      /\ Cardinality(A) \in Nat /\ Cardinality(C) \in Nat
  BY <1>2, <1>6, FS_CardinalityType
<1>8. QED
  BY <1>3, <1>4, <1>5, <1>6, <1>7

LEMMA NoFewer ==
  ASSUME NEW B, NEW C, NEW B2, NEW C2, IsFiniteSet(B), IsFiniteSet(C2), B2 \subseteq B, C \subseteq C2,
         Cardinality(B) <= Cardinality(C)
  PROVE  Cardinality(B2) <= Cardinality(C2)
<1>1. IsFiniteSet(B2) /\ Cardinality(B2) <= Cardinality(B) /\ IsFiniteSet(C) /\ Cardinality(C) <= Cardinality(C2)
  BY FS_Subset
<1>2. /\ Cardinality(B) \in Nat /\ Cardinality(C) \in Nat /\ Cardinality(B2) \in Nat /\ Cardinality(C2) \in Nat
  BY <1>1, FS_CardinalityType
<1>3. QED
  BY <1>1, <1>2

\* The matching leaves a create to match for every policy it leaves.
LEMMA CountSettles ==
  ASSUME IInv, IInv', CopiesRead, RecordInv, ToldSo, CountInv, Extends = {}, SettleLostCreates
  PROVE  CountInv'
<1>1. PICK match \in [Pending -> on \cup {0}] : Matches(match, Carries) /\ Settled(match)
  BY SettleFacts
<1>2. stage = "listed" /\ stage' = "plan"
  BY DEF SettleLostCreates, SettleLostCreatesBy
<1>3. ASSUME NEW k \in Keys, NEW c \in Contents, NEW n \in Nat
      PROVE  /\ Cardinality(Lost(k, c)') + Cardinality(Late(k, c, 1)') <= Cardinality(Open(k, c, 1)')
             /\ Cardinality(Late(k, c, n)') <= Cardinality(Open(k, c, n)')
  <2> PICK W, M, F : /\ W = Open(k, c, 1) /\ M = {i \in W : match[i] # 0}
                     /\ F = {i \in W : match[i] = 0 /\ ops[i].old}
    OBVIOUS
  <2>1. /\ \A i \in W : i \in Pending /\ i \in Nat /\ 1 <= i /\ i \in DOMAIN ops
        /\ \A i \in M : /\ match[i] \in Lost(k, c)
                        /\ \A j \in M : j # i => match[j] # match[i]
                        /\ \A j \in W : j < i => j \in M
        /\ \A p \in Lost(k, c) : p \in on => \A i \in F : \E j \in W : match[j] = p
    BY <1>1, <1>2, MatchedClass DEF Open, Of
  <2>2. /\ Lost(k, c)' \subseteq Lost(k, c) /\ \A p \in Lost(k, c)' : \A i \in W : match[i] # p
        /\ Late(k, c, n)' = Late(k, c, n) /\ Late(k, c, 1)' = Late(k, c, 1)
        /\ Open(k, c, n)' = {i \in Open(k, c, n) : match[i] = 0 /\ ~ops[i].old}
        /\ Open(k, c, 1)' = {i \in W : match[i] = 0 /\ ~ops[i].old}
    BY <1>1, <2>1, SettledSets
  <2> DEFINE nat == \A i \in W : i \in Nat
  <2>3. nat /\ Open(k, c, n) = {i \in W : n <= i}
    BY <2>1, OpTypes DEF Open, Of
  <2>4. /\ IsFiniteSet(Lost(k, c)) /\ IsFiniteSet(Lost(k, c) \ on)
        /\ IsFiniteSet(Late(k, c, 1)) /\ IsFiniteSet(Late(k, c, n))
        /\ Cardinality(Late(k, c, 1)) \in Nat /\ IsFiniteSet(W)
    BY Countable
  <2>5. IsFiniteSet(Open(k, c, n)') /\ IsFiniteSet(Open(k, c, 1)')
    <3>1. Open(k, c, n)' \subseteq W /\ Open(k, c, 1)' \subseteq W
      BY <2>2, <2>3
    <3>2. QED
      BY <2>4, <3>1, FS_Subset
  <2>6. /\ Cardinality(Lost(k, c)) + Cardinality(Late(k, c, 1)) <= Cardinality(W)
        /\ Cardinality(Late(k, c, n)) <= Cardinality(Open(k, c, n))
        /\ \A i \in F : Cardinality(Lost(k, c) \ on) + Cardinality(Late(k, c, 1)) <= Cardinality(Open(k, c, i + 1))
    BY <1>2, <2>1 DEF CountInv, Enough, EnoughFrom, EnoughAfter
  <2>7. n # 0 => Late(k, c, n) \subseteq Late(k, c, 1)
    BY OpTypes DEF Late, Of
  <2>8. Late(k, c, 0) = Late(k, c, 1)
    BY OpTypes DEF Late, Of
  <2>9. Late(k, c, n) \subseteq Late(k, c, 1)
    BY <2>7, <2>8
  <2>10. CASE F = {}
    <3>1. Open(k, c, 1)' = W \ M
      BY <2>2, <2>10
    <3>2. Cardinality(Lost(k, c)') + Cardinality(Late(k, c, 1)) <= Cardinality(W \ M)
      <4>1. \A i, j \in M : i # j => match[i] # match[j]
        BY <2>1
      <4>2. \A i \in M : match[i] \in Lost(k, c) /\ match[i] \notin Lost(k, c)'
        BY <2>1, <2>2
      <4>3. M \subseteq W
        OBVIOUS
      <4>4. QED
        BY <2>2, <2>4, <2>6, <4>1, <4>2, <4>3, TakenTogether
    <3>3. Cardinality(Late(k, c, n)') <= Cardinality(Open(k, c, n)')
      <4>1. CASE \E i \in M : n <= i
        <5>1. Open(k, c, 1)' \subseteq Open(k, c, n)'
          <6> SUFFICES ASSUME NEW j \in W, match[j] = 0, ~(n <= j) PROVE FALSE
            BY <2>2, <2>3
          <6>1. PICK i \in M : n <= i
            BY <4>1
          <6>2. j < i
            BY <2>1, <6>1
          <6>3. QED
            BY <2>1, <6>1, <6>2
        <5>2. Cardinality(Late(k, c, 1)) <= Cardinality(W \ M)
          <6>1. Cardinality(Lost(k, c)') \in Nat /\ Cardinality(W \ M) \in Nat
            BY <2>2, <2>4, FS_Subset, FS_Difference, FS_CardinalityType
          <6>2. QED
            BY <2>4, <3>2, <6>1
        <5>3. W \ M \subseteq Open(k, c, n)' /\ Late(k, c, n)' \subseteq Late(k, c, 1)
          BY <2>2, <2>9, <3>1, <5>1
        <5>4. QED
          BY ONLY <2>4, <2>5, <5>2, <5>3, NoFewer
      <4>2. CASE ~\E i \in M : n <= i
        <5>1. Open(k, c, n) \subseteq Open(k, c, n)' /\ Late(k, c, n)' \subseteq Late(k, c, n)
          BY <2>2, <2>3, <2>10, <4>2
        <5>2. QED
          BY ONLY <2>4, <2>5, <2>6, <5>1, NoFewer
      <4>3. QED
        BY <4>1, <4>2
    <3>4. QED
      BY <2>2, <3>1, <3>2, <3>3
  <2>11. CASE F # {}
    <3>1. PICK f \in F : \A i \in F : i <= f
      <4>1. F \subseteq 1..Len(ops) /\ Len(ops) \in Nat
        BY <2>1, OpTypes
      <4>2. QED
        BY <2>11, <4>1, Greatest
    <3>2. f \in W /\ f \in Nat /\ match[f] = 0 /\ f \notin M
      BY <2>1, <3>1
    <3>3. Lost(k, c)' \subseteq Lost(k, c) \ on
      BY <2>1, <2>2, <3>1
    <3>4. \A i \in W : f < i => match[i] = 0 /\ ~ops[i].old
      <4> SUFFICES ASSUME NEW i \in W, f < i PROVE match[i] = 0 /\ ~ops[i].old
        OBVIOUS
      <4>1. match[i] = 0
        BY <2>1, <3>2
      <4>2. i \notin F
        BY <2>1, <3>1, <3>2
      <4>3. QED
        BY <4>1, <4>2
    <3>5. Open(k, c, f + 1) = {i \in W : f < i}
      BY <2>3, <3>2, OpTypes DEF Open, Of
    <3>6. Open(k, c, f + 1) \subseteq Open(k, c, 1)' /\ {i \in Open(k, c, n) : f < i} \subseteq Open(k, c, n)'
      BY <2>2, <2>3, <3>4, <3>5
    <3>7. Cardinality(Lost(k, c) \ on) + Cardinality(Late(k, c, 1)) <= Cardinality(Open(k, c, f + 1))
      BY <2>6, <3>1
    <3>8. Cardinality(Lost(k, c)') + Cardinality(Late(k, c, 1)') <= Cardinality(Open(k, c, 1)')
      BY <2>2, <2>4, <2>5, <3>3, <3>6, <3>7, FewerLeft
    <3>9. Cardinality(Late(k, c, n)') <= Cardinality(Open(k, c, n)')
      <4>1. CASE f < n
        <5>1. Open(k, c, n) \subseteq Open(k, c, n)'
          <6>1. \A i \in Open(k, c, n) : i \in Nat /\ n <= i /\ f < i
            BY <2>3, <3>2, <4>1
          <6>2. QED
            BY <3>6, <6>1
        <5>2. Late(k, c, n)' \subseteq Late(k, c, n)
          BY <2>2
        <5>3. QED
          BY ONLY <2>4, <2>5, <2>6, <5>1, <5>2, NoFewer
      <4>2. CASE ~(f < n)
        <5>1. Open(k, c, f + 1) \subseteq Open(k, c, n)'
          <6> SUFFICES ASSUME NEW i \in W, f < i PROVE i \in Open(k, c, n)'
            BY <3>5
          <6>1. n <= i
            BY <2>3, <3>2, <4>2
          <6>2. QED
            BY <2>3, <3>6, <6>1
        <5>2. Cardinality(Late(k, c, 1)) <= Cardinality(Open(k, c, f + 1))
          <6>1. Cardinality(Lost(k, c) \ on) \in Nat /\ Cardinality(Open(k, c, f + 1)) \in Nat
            BY Countable
          <6>2. QED
            BY <2>4, <3>7, <6>1
        <5>3. Late(k, c, n)' \subseteq Late(k, c, 1)
          BY <2>2, <2>9
        <5>4. QED
          BY ONLY <2>4, <2>5, <5>1, <5>2, <5>3, NoFewer
      <4>3. QED
        BY <4>1, <4>2
    <3>10. QED
      BY <3>8, <3>9
  <2>12. QED
    BY <2>10, <2>11
<1>4. LandedBefore'
  <2> SUFFICES ASSUME NEW i \in DOMAIN ops, ops[i].old, NEW j \in 1..i, ops'[j].flying PROVE FALSE
    BY <1>1 DEF LandedBefore, Settled
  <2>1. j \in DOMAIN ops
    BY OpTypes
  <2>2. QED
    BY <1>1, <2>1 DEF CountInv, LandedBefore, Settled
<1>5. Enough' /\ EnoughFrom'
  BY <1>3 DEF Enough, EnoughFrom
<1>6. QED
  BY <1>2, <1>4, <1>5 DEF CountInv, EnoughAfter

LEMMA CountSteps ==
  ASSUME IInv, IInv', Apart, FindInv, CountInv, Extends = {}, [Next]_vars
  PROVE  CountInv'
<1>1. CASE Meanwhile \/ UNCHANGED vars
  <2>1. CASE \E i \in DOMAIN ops : LandLate(i) \/ Age(i)
    BY <2>1, CountLands, CountAges
  <2>2. CASE UNCHANGED <<ops, passVars, DOMAIN gateway, Len(gateway)>>
    <3>1. Steady /\ Aged /\ UNCHANGED <<stage, on>>
      BY <1>1, <2>2, MeanwhileSteady DEF passVars
    <3>2. QED
      BY <3>1, CountSteady
  <2>3. QED
    BY <1>1, <2>1, <2>2, MeanwhileSplit
<1>2. CASE (PassStep \/ PassFault) /\ ~Leaves
  <2>1. Steady /\ Aged
    BY <1>2, PassSteady DEF FindInv
  <2>2. QED
    BY <1>2, <2>1, StageTurns, CountLists, CountSteady
<1>3. CASE SettleLostCreates
  BY <1>3, CountSettles DEF FindInv, Apart
<1>4. CASE Crash /\ stage = "applied"
  BY <1>4, CrashMissing, CountGrows DEF FindInv, Crash, Stop
<1>5. CASE PostFails /\ ops' # [ops EXCEPT ![Newest].status = "failed"] /\ ~UNCHANGED <<gateway, ops>>
  <2>1. stage = "post" /\ stage' = "error"
    BY <1>5 DEF PostFails
  <2>2. CASE UNCHANGED ops /\ gateway' = Append(gateway, [key |-> key, content |-> plan[key]])
    BY <2>1, <2>2, AppendMissing, CountGrows DEF FindInv
  <2>3. CASE UNCHANGED gateway /\ ops' = [ops EXCEPT ![Newest].flying = TRUE]
    BY <1>5, <2>3, CountFlies DEF FindInv
  <2>4. QED
    BY <1>5, <2>2, <2>3 DEF PostFails
<1>6. QED
  BY <1>1, <1>2, <1>3, <1>4, <1>5 DEF Next, Leaves

LEMMA AlwaysCount ==
  ASSUME Extends = {}
  PROVE  Spec => []CountInv
<1>1. Init => CountInv
  <2> SUFFICES ASSUME Init PROVE CountInv
    OBVIOUS
  <2>1. DOMAIN ops = {} /\ stage = "off" /\ gateway = <<Admin>>
    BY DEF Init
  <2>2. ASSUME NEW k \in Keys, NEW c \in Contents, NEW n \in Nat
        PROVE  Lost(k, c) = {} /\ Late(k, c, n) = {} /\ Open(k, c, n) = {}
    <3>1. Late(k, c, n) = {} /\ Open(k, c, n) = {}
      BY <2>1 DEF Late, Open, Of
    <3>2. Lost(k, c) = {}
      <4> SUFFICES ASSUME NEW p \in Lost(k, c) PROVE FALSE
        OBVIOUS
      <4>1. p \in DOMAIN gateway /\ Told(p) = [key |-> k, content |-> c]
        BY DEF Lost
      <4>2. Told(p) = Admin
        BY <2>1, <4>1 DEF Told
      <4>3. c = "admin"
        BY <4>1, <4>2 DEF Admin
      <4>4. QED
        BY <4>3, PolicySyncAssumption
    <3>3. QED
      BY <3>1, <3>2
  <2>3. Cardinality({}) = 0 /\ 0 + 0 <= 0
    BY FS_EmptySet
  <2>4. Enough /\ EnoughFrom
    <3>1. Enough
      BY <2>2, <2>3 DEF Enough
    <3>2. EnoughFrom
      BY <2>2, <2>3 DEF EnoughFrom
    <3>3. QED
      BY <3>1, <3>2
  <2>5. QED
    BY <2>1, <2>4 DEF CountInv, LandedBefore, EnoughAfter
<1>2. (IInv /\ Apart) /\ (IInv /\ Apart)' /\ FindInv /\ CountInv /\ [Next]_vars => CountInv'
  BY CountSteps
<1>3. QED
  BY <1>1, <1>2, AlwaysApart, AlwaysFind, PTL DEF Spec

LEMMA FindsCounted == ASSUME IInv, Apart, FindInv, CountInv PROVE Findable
<1>1. ASSUME NEW p, Missing(p), Told(p).content \in Contents
      PROVE  \E i \in Pending : ops[i].key = Told(p).key /\ ops[i].content = Told(p).content
  <2>1. Told(p) \in Copies
    <3>1. Told(p) \in Copies \cup {Admin}
      <4>1. p \in DOMAIN gateway
        BY <1>1 DEF Missing
      <4>2. QED
        BY <4>1, Types DEF Told, GoodGateway, Apart, CopiesRead
    <3>2. Told(p) # Admin
      BY <1>1, PolicySyncAssumption DEF Admin
    <3>3. QED
      BY <3>1, <3>2
  <2>2. PICK k \in Keys, c \in Contents : Told(p) = [key |-> k, content |-> c]
    BY <1>1, <2>1 DEF Copies
  <2>3. p \in Lost(k, c)
    BY <1>1, <2>2 DEF Lost, Missing
  <2>4. Open(k, c, 1) # {}
    <3> SUFFICES ASSUME Open(k, c, 1) = {} PROVE FALSE
      OBVIOUS
    <3>1. Cardinality(Lost(k, c)) + Cardinality(Late(k, c, 1)) <= Cardinality(Open(k, c, 1))
      BY DEF CountInv, Enough
    <3>2. Cardinality(Open(k, c, 1)) = 0
      BY FS_EmptySet
    <3>3. IsFiniteSet(Lost(k, c)) /\ Cardinality(Lost(k, c)) \in Nat /\ Cardinality(Late(k, c, 1)) \in Nat
      BY Countable
    <3>4. Cardinality(Lost(k, c)) = 0
      BY <3>1, <3>2, <3>3
    <3>5. Lost(k, c) = {}
      BY <3>3, <3>4, FS_EmptySet
    <3>6. QED
      BY <2>3, <3>5
  <2>5. QED
    BY <2>2, <2>4 DEF Open, Of, Waits
<1>2. QED
  BY <1>1, FindsWaiting

\* A policy FamilyFi made and nobody changed is never lost sight of, however its
\* create ended and however many did: a record holds it or a pending create still
\* carries its write (createOwnedPolicy, settleLostCreates).  That needs one of
\* two: that no rule's write is another's with a schedule, or that no create
\* reaches the gateway after its answer is lost.  With both, a create that lands
\* late can find the operation it needs matched with another's policy.
THEOREM CreatesFindable ==
  ASSUME Extends = {} \/ ~LateLanding
  PROVE  Spec => []Findable
<1>1. CASE Extends = {}
  <2>1. IInv /\ Apart /\ FindInv /\ CountInv => Findable
    BY FindsCounted
  <2>2. QED
    BY <1>1, <2>1, AlwaysApart, AlwaysFind, AlwaysCount, PTL
<1>2. CASE ~LateLanding
  <2>1. IInv /\ FindInv /\ OrderInv => Findable
    BY FindsInOrder
  <2>2. QED
    BY <1>2, <2>1, AlwaysApart, AlwaysFind, AlwaysOrder, PTL
<1>3. QED
  BY <1>1, <1>2

----------------------------------------------------------------------------
(* What an applied pass leaves                                             *)

\* A policy is of the key whose record names it, and stays what it was made for.
RowsOwn ==
  /\ \A k \in Keys, p \in DOMAIN gateway : Names(k, p) => gateway[p].key = k
  /\ \A k \in Keys : rows[k] # NoRow /\ ~rows[k].failed => rows[k].policy # 0 /\ rows[k].observed = rows[k].desired
  /\ stage \in {"putrow", "applied", "record"} => gateway[made].key = key
  /\ \A p \in DOMAIN copies : copies[p].key = gateway[p].key

\* The pass listed every policy there was.
ListedAll == stage = "listed" => LiveIds \subseteq on

\* A key whose write has not begun.
Still(k) == Unwritten(k) /\ ~(stage \in Writing /\ k = key)

\* Its policy says what the pass listed of it.
Untouched ==
  \A k \in Keys : Still(k) /\ rows[k] # NoRow /\ rows[k].policy # 0 =>
    rows[k].policy \in DOMAIN copies /\ gateway[rows[k].policy] = copies[rows[k].policy]

MadeSays == stage \in {"putrow", "applied", "record"} => gateway[made].content = plan[key]

NothingLost == stage \notin {"off", "listed", "error"} => Unheld = {}

\* The key's row holds a policy that says what is planned.
Right(k) ==
  rows[k] # NoRow /\ rows[k].policy \in DOMAIN gateway /\ gateway[rows[k].policy].content = plan[k]

Enforced == \A k \in Keys : Written(k) /\ plan[k] \in Contents => Right(k)

Removed(k) ==
  \/ kind = "rules" /\ k \notin RuleKeys
  \/ k \in Half /\ stage \in Deleting \cup {"remove"} /\ k \notin todo
  \/ stage \in {"sweep", "end"}

Dropped == \A k \in Keys : Removed(k) /\ plan[k] \in {"off", "deleted"} => rows[k] = NoRow

Swept ==
  /\ stage \in {"sweep", "end"} =>
       \A i \in DOMAIN ops : ops[i].status = "applied" /\ ops[i].policy \in LiveIds =>
         ByRow(ops[i].policy) \/ i \in sweeping
  /\ stage = "end" => sweeping = {}

\* No policy becomes another key's.
LEMMA KeysStay ==
  ASSUME IInv, [Next]_vars
  PROVE  \A p \in DOMAIN gateway : p \in DOMAIN gateway' /\ gateway'[p].key = gateway[p].key
<1>1. CASE Meanwhile \/ UNCHANGED vars
  BY <1>1, MeanwhileSays
<1>2. CASE UNCHANGED gateway
  BY <1>2
<1>3. CASE \E copy : gateway' = Append(gateway, copy)
  BY <1>3, AppendFacts
<1>4. ASSUME NEW p, p # 1, NEW c \in Contents \cup {"edited", "gone"},
             p \in LiveIds, gateway' = [gateway EXCEPT ![p] = [gateway[p] EXCEPT !.content = c]]
      PROVE  \A q \in DOMAIN gateway : q \in DOMAIN gateway' /\ gateway'[q].key = gateway[q].key
  <2>1. p \in 2..Len(gateway)
    BY <1>4, LiveFacts, Types
  <2>2. gateway[p] \in Copies
    BY <2>1, Types DEF GoodGateway
  <2>3. [gateway[p] EXCEPT !.content = c].key = gateway[p].key
    BY <2>2 DEF Copies
  <2>4. QED
    BY <1>4, <2>3
<1>5. CASE Put \/ PutFails
  <2>1. PICK p : p = seen[key].policy
    OBVIOUS
  <2>2. stage = "put" /\ (UNCHANGED gateway \/ (p \in LiveIds /\ gateway' = PutBack(gateway, p, plan[key])))
    BY <1>5, <2>1 DEF Put, PutFails
  <2>3. p # 1 /\ plan[key] \in Contents
    BY <2>1, <2>2 DEF IInv, PassStages, PassTypes, GoodRows, Writing
  <2>4. QED
    BY <1>2, <1>4, <2>2, <2>3 DEF PutBack
<1>6. ASSUME NEW p, p # 1, gateway' \in {gateway, DeleteFrom(gateway, p)}
      PROVE  \A q \in DOMAIN gateway : q \in DOMAIN gateway' /\ gateway'[q].key = gateway[q].key
  BY <1>2, <1>4, <1>6 DEF DeleteFrom
<1>7. CASE Delete \/ DeleteFails
  <2>1. PICK p : p = seen[key].policy
    OBVIOUS
  <2>2. stage = "delete" /\ gateway' \in {gateway, DeleteFrom(gateway, p)}
    BY <1>7, <2>1 DEF Delete, DeleteFails
  <2>3. p # 1
    BY <2>1, <2>2 DEF IInv, PassTypes, PassStages, GoodRows, Deleting
  <2>4. QED
    BY <1>6, <2>2, <2>3
<1>8. CASE \E i \in DOMAIN ops : Sweep(i) \/ SweepFails(i)
  <2>1. PICK i \in DOMAIN ops : Sweep(i) \/ SweepFails(i)
    BY <1>8
  <2>2. PICK p : p = ops[i].policy
    OBVIOUS
  <2>3. p # 1 /\ gateway' \in {gateway, DeleteFrom(gateway, p)}
    BY <2>1, <2>2, OpOfSeq DEF IInv, World, Sweep, SweepFails
  <2>4. QED
    BY <1>6, <2>3
<1>9. CASE Post \/ PostFails
  BY <1>2, <1>3, <1>9 DEF Post, PostFails
<1>10. CASE Crash \/ ListPolicies \/ SettleLostCreates \/ Plan
  BY <1>2, <1>10 DEF Crash, ListPolicies, SettleLostCreates, SettleLostCreatesBy, Plan
<1>11. QED
  BY <1>1, <1>2, <1>5, <1>7, <1>8, <1>9, <1>10
  DEF Next, PassStep, PassFault, Unchanged, StartUpdate, StartCreate, StartRemove, Reclaim, OpenCreate,
      OpenCreateAs, ApplyOperation, RecordPolicy, WriteError, EndApply, DropRow, EndHalf, EndSweep, EndPass

\* What a step makes of a row: it stays as it was, goes, notes an observation or
\* a failure, or takes what the pass wrote or made.
Kept(k)   == rows'[k] = rows[k] \/ rows'[k] = NoRow
Noted(k)  == /\ rows[k] # NoRow /\ rows'[k].policy = rows[k].policy
             /\ \/ rows'[k].failed
                \/ /\ rows'[k].failed = rows[k].failed /\ rows'[k].desired = rows[k].desired
                   /\ rows'[k].observed \in {rows[k].observed, rows[k].desired}
Barred(k) == rows'[k].policy = 0 /\ rows'[k].failed
Turned(k) == /\ stage \in {"putrow", "record"} /\ k = key
             /\ rows'[k].policy = made /\ rows'[k].desired = plan[k] /\ rows'[k].observed = plan[k]

LEMMA RowWritten ==
  ASSUME NEW row \in Rows, NEW c, NEW b, NEW d
  PROVE  /\ LET r == [row EXCEPT !.observed = c] IN
              r.policy = row.policy /\ r.failed = row.failed /\ r.desired = row.desired /\ r.observed = c
         /\ LET r == [row EXCEPT !.drift = b] IN
              r.policy = row.policy /\ r.failed = row.failed /\ r.desired = row.desired /\ r.observed = row.observed
         /\ LET r == [row EXCEPT !.failed = b, !.desired = c, !.drift = d] IN r.policy = row.policy /\ r.failed = b
         /\ LET r == [row EXCEPT !.failed = b] IN r.policy = row.policy /\ r.failed = b
BY DEF Rows

LEMMA RowsTurn ==
  ASSUME IInv, Apart, [Next]_vars, NEW k \in Keys
  PROVE  Kept(k) \/ Noted(k) \/ Barred(k) \/ Turned(k)
<1> USE DEF Kept
<1>1. CASE Meanwhile \/ UNCHANGED vars
  BY <1>1, MeanwhileTaken
<1>2. CASE UNCHANGED rows
  BY <1>2
<1>3. ASSUME NEW j \in Keys, Unchanged(j) PROVE Kept(k) \/ Noted(k)
  <2>1. /\ stage = "apply" /\ j \in todo /\ seen[j] # NoRow /\ seen[j].desired = plan[j]
        /\ UNCHANGED rows \/ (rows[j] # NoRow /\ rows' = [rows EXCEPT ![j] = [rows[j] EXCEPT !.observed = plan[j]]])
    BY <1>3 DEF Unchanged, WriteRow, AsWanted, OnGateway
  <2>2. rows[j] # NoRow => rows[j].desired = plan[j]
    BY <2>1 DEF Apart, PassReads, Fresh, SameRow, Writing
  <2>3. CASE j = k /\ rows[j] # NoRow /\ rows' = [rows EXCEPT ![j] = [rows[j] EXCEPT !.observed = plan[j]]]
    <3>1. PICK row \in Rows : row = rows[k]
      BY <2>3, Types
    <3>2. rows'[k] = [row EXCEPT !.observed = plan[k]]
      BY <2>3, <3>1, Types
    <3>3. QED
      BY <2>2, <2>3, <3>1, <3>2, RowWritten DEF Noted
  <2>4. CASE j # k \/ UNCHANGED rows
    BY <2>1, <2>4, Types
  <2>5. QED
    BY <2>1, <2>3, <2>4
<1>4. ASSUME NEW j \in Keys, StartUpdate(j) PROVE Kept(k) \/ Noted(k)
  <2>1. UNCHANGED rows \/ (rows[j] # NoRow /\ rows' = [rows EXCEPT ![j] = [rows[j] EXCEPT !.drift = TRUE]])
    BY <1>4 DEF StartUpdate, WriteRow, OnGateway
  <2>2. CASE j = k /\ rows[j] # NoRow /\ rows' = [rows EXCEPT ![j] = [rows[j] EXCEPT !.drift = TRUE]]
    <3>1. PICK row \in Rows : row = rows[k]
      BY <2>2, Types
    <3>2. rows'[k] = [row EXCEPT !.drift = TRUE]
      BY <2>2, <3>1, Types
    <3>3. QED
      BY <2>2, <3>1, <3>2, RowWritten DEF Noted
  <2>3. CASE j # k \/ UNCHANGED rows
    BY <2>1, <2>3, Types
  <2>4. QED
    BY <2>1, <2>2, <2>3
<1>5. CASE RecordPolicy
  <2>1. stage \in {"putrow", "record"} /\ (UNCHANGED rows \/ rows' = [rows EXCEPT ![key] = Clean(key)])
    BY <1>5 DEF RecordPolicy, WriteRow
  <2>2. CASE k = key /\ rows'[k] = Clean(k)
    BY <2>1, <2>2 DEF Turned, Clean
  <2>3. QED
    BY <2>1, <2>2, Types
<1>6. CASE WriteError
  <2>1. CASE k # key
    BY <1>6, <2>1, Types DEF WriteError, WriteRow
  <2>2. CASE k = key
    <3>1. rows'[k] = rows[k] \/ (rows'[k] = ErrorRow(k, TRUE) /\ (seen[k] # NoRow => rows[k] # NoRow))
      BY <1>6, <2>2, Types DEF WriteError, WriteRow
    <3>2. CASE seen[k] = NoRow /\ rows'[k] = ErrorRow(k, TRUE)
      BY <3>2 DEF Barred, ErrorRow
    <3>3. CASE seen[k] # NoRow /\ rows'[k] = ErrorRow(k, TRUE) /\ rows[k] # NoRow
      <4>1. PICK row \in Rows : row = rows[k]
        BY <3>3, Types
      <4>2. PICK drift : rows'[k] = [row EXCEPT !.failed = TRUE, !.desired = plan[k], !.drift = drift]
        BY <3>3, <4>1 DEF ErrorRow
      <4>3. rows'[k].policy = row.policy /\ rows'[k].failed
        BY <4>2 DEF Rows
      <4>4. QED
        BY <3>3, <4>1, <4>3 DEF Noted
    <3>4. QED
      BY <3>1, <3>2, <3>3
  <2>3. QED
    BY <2>1, <2>2
<1>7. CASE DropRow
  <2>1. UNCHANGED rows \/ (rows[key] # NoRow /\ rows' = [rows EXCEPT ![key] = IF stage = "deleterow" THEN NoRow
                                                                          ELSE [rows[key] EXCEPT !.failed = TRUE]])
    BY <1>7 DEF DropRow
  <2>2. CASE k = key /\ rows[k] # NoRow /\ rows'[k] = [rows[k] EXCEPT !.failed = TRUE]
    <3>1. PICK row \in Rows : row = rows[k]
      BY <2>2, Types
    <3>2. rows'[k] = [row EXCEPT !.failed = TRUE]
      BY <2>2, <3>1
    <3>3. QED
      BY <2>2, <3>1, <3>2, RowWritten DEF Noted
  <2>3. QED
    BY <2>1, <2>2, Types
<1>8. CASE PassStep
  <2>1. CASE \E j \in Keys : Unchanged(j) \/ StartUpdate(j)
    BY <1>3, <1>4, <2>1
  <2>2. CASE ~\E j \in Keys : Unchanged(j) \/ StartUpdate(j)
    <3>1. RecordPolicy \/ WriteError \/ DropRow \/ UNCHANGED rows
      BY <1>8, <2>2 DEF PassStep, ListPolicies, SettleLostCreates, SettleLostCreatesBy, Plan, StartCreate, StartRemove,
         Put, Reclaim, OpenCreate, OpenCreateAs, Post, ApplyOperation, EndApply, Delete, EndHalf, Sweep, EndSweep, EndPass
    <3>2. QED
      BY <1>2, <1>5, <1>6, <1>7, <3>1
  <2>3. QED
    BY <2>1, <2>2
<1>9. CASE PassFault
  BY <1>2, <1>9 DEF PassFault, PutFails, PostFails, DeleteFails, Crash, SweepFails
<1>10. QED
  BY <1>1, <1>8, <1>9 DEF Next

\* Where a step leaves a policy for a key, and what it makes of the pass's reads.
LEMMA ReadsTurn ==
  ASSUME IInv, [Next]_vars
  PROVE  /\ copies' = copies \/ copies' = <<>> \/ (copies' = gateway /\ UNCHANGED gateway)
         /\ \A k \in Keys : seen'[k] \in {seen[k], rows[k], NoRow}
         /\ stage' \in {"putrow", "applied", "record"} =>
              Put \/ Reclaim \/ Post \/ ApplyOperation \/ UNCHANGED <<stage, made, key, plan>>
<1>1. CASE Meanwhile \/ UNCHANGED vars
  BY <1>1, MeanwhileTaken DEF passVars
<1>2. CASE ListPolicies
  BY <1>2 DEF ListPolicies
<1>3. CASE Plan
  BY <1>3 DEF Plan
<1>4. CASE Put \/ Reclaim \/ Post \/ ApplyOperation
  BY <1>4 DEF Put, Reclaim, Post, ApplyOperation
<1>5. CASE RecordPolicy \/ WriteError \/ DropRow \/ EndPass \/ Crash \/ \E k \in Keys : Unchanged(k) \/ StartUpdate(k)
  BY <1>5 DEF RecordPolicy, WriteError, DropRow, EndPass, Crash, Unchanged, StartUpdate, WriteRow, Proceed, Stop
<1>6. CASE PassFault /\ ~Crash
  BY <1>6 DEF PassFault, PutFails, PostFails, DeleteFails, SweepFails
<1>7. CASE SettleLostCreates \/ OpenCreate \/ EndApply \/ Delete \/ EndHalf \/ EndSweep
           \/ (\E k \in Keys : StartCreate(k) \/ StartRemove(k)) \/ \E i \in DOMAIN ops : Sweep(i)
  BY <1>7 DEF SettleLostCreates, SettleLostCreatesBy, OpenCreate, OpenCreateAs, EndApply, Delete, EndHalf, EndSweep,
              StartCreate, StartRemove, Sweep
<1>8. QED
  BY <1>1, <1>2, <1>3, <1>4, <1>5, <1>6, <1>7 DEF Next, PassStep, PassFault

LEMMA MadeThere ==
  ASSUME IInv, Apart, stage \in {"putrow", "applied", "record"}
  PROVE  made # 0 /\ made \in DOMAIN gateway /\ key \in Keys
<1>1. key \in Keys
  BY DEF IInv, PassStages, Writing
<1>2. made # 0
  BY <1>1 DEF Apart, HoldersApart
<1>3. QED
  BY <1>1, <1>2, Types DEF IInv, PassTypes

\* What a step leaves of the policies that records name.
LEMMA NamesTurn ==
  ASSUME IInv, Apart, RowsOwn, [Next]_vars, NEW k \in Keys, NEW p \in Nat, Names(k, p)'
  PROVE  p \in DOMAIN gateway /\ gateway[p].key = k
<1>1. Kept(k) \/ Noted(k) \/ Barred(k) \/ Turned(k)
  BY RowsTurn
<1>2. CASE Names(k, p)
  BY <1>2 DEF Apart, HoldersApart, RowsOwn
<1>3. CASE Turned(k) /\ p = made
  BY <1>3, MadeThere DEF Turned, RowsOwn
<1>4. QED
  BY <1>1, <1>2, <1>3, ReadsTurn DEF Names, Kept, Noted, Barred, Turned

LEMMA StepsOwn ==
  ASSUME IInv, Apart, RowsOwn, [Next]_vars
  PROVE  RowsOwn'
<1>1. \A k \in Keys, p \in DOMAIN gateway' : Names(k, p)' => gateway'[p].key = k
  <2> SUFFICES ASSUME NEW k \in Keys, NEW p \in DOMAIN gateway', Names(k, p)'
               PROVE  gateway'[p].key = k
    OBVIOUS
  <2>1. p \in Nat
    <3>1. gateway' \in Seq(Copies \cup {Admin})
      BY StepGood DEF IInv, World, GoodGateway
    <3>2. QED
      BY <3>1
  <2>2. QED
    BY <2>1, NamesTurn, KeysStay
<1>2. \A k \in Keys : rows'[k] # NoRow /\ ~rows'[k].failed => rows'[k].policy # 0 /\ rows'[k].observed = rows'[k].desired
  <2> SUFFICES ASSUME NEW k \in Keys, rows'[k] # NoRow, ~rows'[k].failed
               PROVE  rows'[k].policy # 0 /\ rows'[k].observed = rows'[k].desired
    OBVIOUS
  <2>1. CASE Kept(k)
    BY <2>1 DEF Kept, RowsOwn
  <2>2. CASE Noted(k)
    <3>1. ~rows[k].failed
      BY <2>2 DEF Noted
    <3>2. QED
      BY <2>2, <3>1 DEF Noted, RowsOwn
  <2>3. CASE Turned(k)
    BY <2>3, MadeThere DEF Turned
  <2>4. QED
    BY <2>1, <2>2, <2>3, RowsTurn DEF Barred
<1>3. stage' \in {"putrow", "applied", "record"} => gateway'[made'].key = key'
  <2> SUFFICES ASSUME stage' \in {"putrow", "applied", "record"} PROVE gateway'[made'].key = key'
    OBVIOUS
  <2>1. CASE UNCHANGED <<stage, made, key, plan>>
    BY <2>1, MadeThere, KeysStay DEF RowsOwn
  <2>2. CASE Put
    <3>1. /\ stage = "put" /\ key \in Keys /\ seen[key] # NoRow /\ made' = seen[key].policy /\ key' = key
          /\ made' \in LiveIds
      BY <2>2 DEF Put, IInv, PassStages, Writing
    <3>2. made' \in DOMAIN gateway /\ made' # 0
      BY <3>1, LiveFacts
    <3>3. Names(key, made')
      BY <3>1, <3>2 DEF Names
    <3>4. QED
      BY <3>1, <3>2, <3>3, KeysStay DEF RowsOwn
  <2>3. CASE Reclaim
    <3>1. PICK p \in adopted : Reclaims(copies[p], key, plan[key]) /\ made' = p
      BY <2>3 DEF Reclaim
    <3>2. p \in DOMAIN copies /\ copies[p].key = key
      BY <3>1 DEF Reclaims, Apart, CopiesRead
    <3>3. key' = key /\ UNCHANGED gateway
      BY <2>3 DEF Reclaim
    <3>4. QED
      BY <3>1, <3>2, <3>3 DEF RowsOwn
  <2>4. CASE Post
    BY <2>4, AppendFacts DEF Post
  <2>5. CASE ApplyOperation
    BY <2>5 DEF ApplyOperation, RowsOwn
  <2>6. QED
    BY <2>1, <2>2, <2>3, <2>4, <2>5, ReadsTurn
<1>4. \A p \in DOMAIN copies' : copies'[p].key = gateway'[p].key
  <2>1. CASE copies' = copies
    <3>1. DOMAIN copies \subseteq DOMAIN gateway
      BY Types DEF Apart, CopiesRead
    <3>2. QED
      BY <2>1, <3>1, KeysStay DEF RowsOwn
  <2>2. QED
    BY <2>1, ReadsTurn
<1>5. QED
  BY <1>1, <1>2, <1>3, <1>4 DEF RowsOwn

LEMMA AlwaysOwn == Spec => []RowsOwn
<1>1. Init => RowsOwn
  BY DEF Init, RowsOwn, Names
<1>2. (IInv /\ Apart) /\ RowsOwn /\ [Next]_vars => RowsOwn'
  BY StepsOwn
<1>3. QED
  BY <1>1, <1>2, AlwaysApart, PTL DEF Spec

\* The steps that leave a pass undisturbed are its own.
Undisturbed == (PassStep \/ PassFault) /\ ~ListPolicies /\ quiet /\ quiet'

LEMMA QuietTurn ==
  ASSUME IInv, QuietInv, [Next]_vars, quiet'
  PROVE  UNCHANGED vars \/ ListPolicies \/ Undisturbed
<1>1. CASE Meanwhile
  <2>1. PICK i \in DOMAIN ops : Age(i)
    BY <1>1 DEF Meanwhile, LandLate, Wish, RemovePolicies, RemoveRule, ConsoleChange
  <2>2. stage = "off" /\ quiet
    BY <2>1 DEF Age
  <2>3. QED
    BY <2>2 DEF QuietInv, QuietReads
<1>2. CASE (PassStep \/ PassFault) /\ ~ListPolicies
  <2>1. quiet
    BY <1>2
    DEF PassStep, PassFault, SettleLostCreates, SettleLostCreatesBy, Plan, Unchanged, StartUpdate, StartCreate, StartRemove,
        Put, Reclaim, OpenCreate, OpenCreateAs, Post, ApplyOperation, RecordPolicy, WriteError, EndApply, Delete,
        DropRow, EndHalf, Sweep, EndSweep, EndPass, WriteRow, Proceed, Stop,
        PutFails, PostFails, DeleteFails, Crash, SweepFails
  <2>2. QED
    BY <1>2, <2>1 DEF Undisturbed
<1>3. QED
  BY <1>1, <1>2 DEF Next

\* A pass's step writes the row of the key it is at.
LEMMA RowTouched ==
  ASSUME IInv, PassStep \/ PassFault, NEW k \in Keys
  PROVE  \/ rows'[k] = rows[k]
         \/ Unchanged(k) \/ StartUpdate(k)
         \/ (RecordPolicy \/ WriteError \/ DropRow) /\ k = key
<1>1. CASE UNCHANGED rows
  BY <1>1
<1>2. CASE \E j \in Keys : Unchanged(j) \/ StartUpdate(j)
  <2>1. PICK j \in Keys : Unchanged(j) \/ StartUpdate(j)
    BY <1>2
  <2>2. CASE j # k
    BY <2>1, <2>2, Types DEF Unchanged, StartUpdate, WriteRow
  <2>3. QED
    BY <2>1, <2>2
<1>3. CASE RecordPolicy \/ WriteError \/ DropRow
  BY <1>3, Types DEF RecordPolicy, WriteError, DropRow, WriteRow
<1>4. CASE PassStep /\ ~\E j \in Keys : Unchanged(j) \/ StartUpdate(j)
  <2>1. RecordPolicy \/ WriteError \/ DropRow \/ UNCHANGED rows
    BY <1>4 DEF PassStep, ListPolicies, SettleLostCreates, SettleLostCreatesBy, Plan, StartCreate, StartRemove,
       Put, Reclaim, OpenCreate, OpenCreateAs, Post, ApplyOperation, EndApply, Delete, EndHalf, Sweep, EndSweep, EndPass
  <2>2. QED
    BY <1>1, <1>3, <2>1
<1>5. CASE PassFault
  BY <1>1, <1>5 DEF PassFault, PutFails, PostFails, DeleteFails, Crash, SweepFails
<1>6. QED
  BY <1>2, <1>4, <1>5

\* A pass's step changes the policy of the key it is at, or one it sweeps.
LEMMA CopyTouched ==
  ASSUME IInv, PassStep \/ PassFault, NEW p \in DOMAIN gateway
  PROVE  /\ p \in DOMAIN gateway'
         /\ \/ gateway'[p] = gateway[p]
            \/ stage = "put" /\ p = seen[key].policy
            \/ stage = "delete" /\ p = seen[key].policy
            \/ stage = "sweep" /\ \E i \in sweeping : p = ops[i].policy
<1>1. CASE UNCHANGED gateway
  BY <1>1
<1>2. CASE Put \/ PutFails
  <2>1. PICK q : q = seen[key].policy
    OBVIOUS
  <2>2. stage = "put" /\ (UNCHANGED gateway \/ (q \in LiveIds /\ gateway' = PutBack(gateway, q, plan[key])))
    BY <1>2, <2>1 DEF Put, PutFails
  <2>3. CASE q \in LiveIds /\ gateway' = PutBack(gateway, q, plan[key])
    BY <2>1, <2>2, <2>3, PutFacts
  <2>4. QED
    BY <2>2, <2>3
<1>3. CASE Post \/ PostFails
  <2>1. UNCHANGED gateway \/ gateway' = Append(gateway, [key |-> key, content |-> plan[key]])
    BY <1>3 DEF Post, PostFails
  <2>2. QED
    BY <2>1, AppendFacts
<1>4. CASE Delete \/ DeleteFails
  <2>1. PICK q : q = seen[key].policy
    OBVIOUS
  <2>2. stage = "delete" /\ gateway' \in {gateway, DeleteFrom(gateway, q)}
    BY <1>4, <2>1 DEF Delete, DeleteFails
  <2>3. q # 1
    BY <2>1, <2>2 DEF IInv, PassTypes, PassStages, GoodRows, Deleting
  <2>4. QED
    BY <2>1, <2>2, <2>3, DeleteFacts
<1>5. CASE \E i \in DOMAIN ops : Sweep(i) \/ SweepFails(i)
  <2>1. PICK i \in DOMAIN ops : Sweep(i) \/ SweepFails(i)
    BY <1>5
  <2>2. PICK q : q = ops[i].policy
    OBVIOUS
  <2>3. stage = "sweep" /\ i \in sweeping /\ gateway' \in {gateway, DeleteFrom(gateway, q)}
    BY <2>1, <2>2 DEF Sweep, SweepFails
  <2>4. q # 1
    BY <2>2, OpOfSeq DEF IInv, World
  <2>5. QED
    BY <2>2, <2>3, <2>4, DeleteFacts
<1>6. QED
  BY <1>1, <1>2, <1>3, <1>4, <1>5
  DEF PassStep, PassFault, ListPolicies, SettleLostCreates, SettleLostCreatesBy, Plan, Unchanged, StartUpdate,
      StartCreate, StartRemove, Reclaim, OpenCreate, OpenCreateAs, ApplyOperation, RecordPolicy, WriteError,
      EndApply, DropRow, EndHalf, EndSweep, EndPass, Crash

\* The key the pass is at is one of its half, to be written or to be removed.
LEMMA AtKey ==
  ASSUME IInv, Apart
  PROVE  /\ stage \in Writing => key \in Keys /\ key \in todo /\ key \in Half /\ plan[key] \in Contents
         /\ stage \in Deleting => /\ key \in Keys /\ key \in todo /\ key \in Half /\ plan[key] \notin Contents
                                  /\ seen[key] # NoRow
         /\ stage \in Writing \cup {"apply"} => \A k \in todo : k \in Half /\ plan[k] \in Contents
         /\ stage \in Deleting \cup {"remove"} => \A k \in todo : k \in Half /\ plan[k] \notin Contents
<1>1. PassStages /\ PassReads
  BY DEF IInv, Apart
<1>2. stage \in Writing => key \in Keys /\ key \in todo /\ key \in Half /\ plan[key] \in Contents
  BY <1>1 DEF PassStages, PassReads
<1>3. stage \in Writing \cup {"apply"} => \A k \in todo : k \in Half /\ plan[k] \in Contents
  BY <1>1 DEF PassStages, PassReads
<1>4. stage \in Deleting \cup {"remove"} => \A k \in todo : k \in Half /\ plan[k] \notin Contents
  BY <1>1 DEF PassReads
<1>5. stage \in Deleting => key \in Keys /\ key \in todo /\ seen[key] # NoRow
  BY <1>1 DEF PassStages, PassReads
<1>6. ASSUME stage \in Deleting PROVE key \in Half /\ plan[key] \notin Contents
  <2>1. stage \in Deleting \cup {"remove"} /\ key \in todo
    BY <1>5, <1>6
  <2>2. QED
    BY <1>4, <2>1
<1>7. QED
  BY <1>2, <1>3, <1>4, <1>5, <1>6

\* What an undisturbed step makes of what the pass read.
LEMMA PassTurns ==
  ASSUME IInv, Apart, QuietInv, QuietInv', Undisturbed
  PROVE  /\ UNCHANGED copies /\ stage # "off" /\ stage' \notin {"off", "listed"}
         /\ ~bad' => ~bad
         /\ stage # "plan" => UNCHANGED plan
<1>1. QuietReads /\ QuietReads'
  BY DEF QuietInv, Undisturbed
<1>2. UNCHANGED copies
  BY DEF Undisturbed, PassStep, PassFault, SettleLostCreates, SettleLostCreatesBy, Plan, Unchanged, StartUpdate,
        StartCreate, StartRemove,
        Put, Reclaim, OpenCreate, OpenCreateAs, Post, ApplyOperation, RecordPolicy, WriteError, EndApply, Delete,
        DropRow, EndHalf, Sweep, EndSweep, EndPass, WriteRow, Proceed, Stop,
        PutFails, PostFails, DeleteFails, Crash, SweepFails
<1>3. ASSUME bad PROVE bad'
  BY <1>3 DEF Undisturbed, PassStep, PassFault, SettleLostCreates, SettleLostCreatesBy, Plan, Unchanged, StartUpdate,
        StartCreate, StartRemove,
        Put, Reclaim, OpenCreate, OpenCreateAs, Post, ApplyOperation, RecordPolicy, WriteError, EndApply, Delete,
        DropRow, EndHalf, Sweep, EndSweep, EndPass, WriteRow, Proceed, Stop,
        PutFails, PostFails, DeleteFails, Crash, SweepFails
<1>4. ASSUME stage # "plan" PROVE UNCHANGED plan
  BY <1>4 DEF Undisturbed, PassStep, PassFault, SettleLostCreates, SettleLostCreatesBy, Plan, Unchanged, StartUpdate,
        StartCreate, StartRemove,
        Put, Reclaim, OpenCreate, OpenCreateAs, Post, ApplyOperation, RecordPolicy, WriteError, EndApply, Delete,
        DropRow, EndHalf, Sweep, EndSweep, EndPass, WriteRow, Proceed, Stop,
        PutFails, PostFails, DeleteFails, Crash, SweepFails
<1>5. stage' # "listed"
  BY StageTurns DEF Undisturbed
<1>6. QED
  BY <1>1, <1>2, <1>3, <1>4, <1>5 DEF QuietReads

\* Where an undisturbed step takes the pass.
Moves ==
  \/ stage = "listed" /\ stage' = "plan" /\ SettleLostCreates
  \/ stage = "plan" /\ stage' = "apply" /\ Plan
  \/ stage = "apply" /\ stage' = "apply" /\ \E k \in todo : Unchanged(k) /\ todo' = todo \ {k}
  \/ stage = "apply" /\ stage' \in {"put", "create"} /\ key' \in todo /\ UNCHANGED todo
  \/ stage \in Writing /\ stage' \in Writing /\ UNCHANGED <<todo, key>>
  \/ stage \in Writing /\ stage' = "apply" /\ (RecordPolicy \/ WriteError) /\ todo' = todo \ {key}
  \/ stage = "apply" /\ stage' = "remove" /\ EndApply
  \/ stage = "remove" /\ stage' \in Deleting /\ key' \in todo /\ UNCHANGED todo
  \/ stage \in Deleting /\ stage' \in Deleting /\ UNCHANGED <<todo, key>>
  \/ stage \in Deleting /\ stage' = "remove" /\ DropRow /\ todo' = todo \ {key}
  \/ stage = "remove" /\ stage' \in {"plan", "sweep"} /\ EndHalf
  \/ stage = "sweep" /\ stage' \in {"sweep", "end"} /\ (EndSweep \/ \E i \in DOMAIN ops : Sweep(i) \/ SweepFails(i))

LEMMA PassMoves ==
  ASSUME Undisturbed
  PROVE  Moves /\ (EndHalf \/ UNCHANGED kind)
<1>1. quiet /\ quiet'
  BY DEF Undisturbed
<1>2. ASSUME NEW k \in Keys, Unchanged(k) PROVE k \in todo /\ stage = "apply" /\ stage' = "apply" /\ todo' = todo \ {k} /\ UNCHANGED kind
  BY <1>1, <1>2 DEF Unchanged, WriteRow, Stop
<1>3. ASSUME NEW k \in Keys, StartUpdate(k) \/ StartCreate(k)
      PROVE  stage = "apply" /\ stage' \in {"put", "create"} /\ key' \in todo /\ UNCHANGED <<todo, kind>>
  BY <1>1, <1>3 DEF StartUpdate, StartCreate, WriteRow, Stop
<1>4. ASSUME NEW k \in Keys, StartRemove(k)
      PROVE  stage = "remove" /\ stage' \in Deleting /\ key' \in todo /\ UNCHANGED <<todo, kind>>
  BY <1>4 DEF StartRemove, Deleting
<1>5. CASE SettleLostCreates \/ Plan \/ EndApply \/ EndHalf
  BY <1>5 DEF SettleLostCreates, SettleLostCreatesBy, Plan, EndApply, EndHalf, Moves
<1>6. CASE Put \/ Reclaim \/ OpenCreate \/ Post \/ ApplyOperation \/ PutFails \/ PostFails
  BY <1>6 DEF Put, Reclaim, OpenCreate, OpenCreateAs, Post, ApplyOperation, PutFails, PostFails, Moves, Writing
<1>7. CASE RecordPolicy \/ WriteError
  BY <1>1, <1>7 DEF RecordPolicy, WriteError, WriteRow, Stop, Proceed, Moves, Writing
<1>8. CASE Delete \/ DeleteFails
  BY <1>8 DEF Delete, DeleteFails, Moves, Deleting
<1>9. CASE DropRow
  BY <1>1, <1>9 DEF DropRow, Stop, Moves, Deleting
<1>10. CASE EndSweep \/ \E i \in DOMAIN ops : Sweep(i) \/ SweepFails(i)
  BY <1>10 DEF EndSweep, Sweep, SweepFails, Moves
<1>11. CASE EndPass \/ Crash
  BY <1>1, <1>11 DEF EndPass, Crash, Stop
<1>12. CASE \E k \in Keys : Unchanged(k) \/ StartUpdate(k) \/ StartCreate(k) \/ StartRemove(k)
  BY <1>2, <1>3, <1>4, <1>12 DEF Moves
<1>13. QED
  BY <1>5, <1>6, <1>7, <1>8, <1>9, <1>10, <1>11, <1>12 DEF Undisturbed, PassStep, PassFault

LEMMA StillTurn ==
  ASSUME IInv, Apart, QuietInv, QuietInv', Undisturbed, NEW k \in Keys, Still(k)'
  PROVE  Still(k) /\ rows'[k] = rows[k]
<1>1. Moves /\ (EndHalf \/ UNCHANGED kind) /\ kind \in {"owners", "rules"} /\ RuleKeys \subseteq Keys
  BY PassMoves, PolicySyncAssumption DEF IInv, PassTypes
<1> USE DEF Still, Unwritten, Later
<1>2. CASE SettleLostCreates
  <2>1. UNCHANGED rows /\ stage = "listed"
    BY <1>2 DEF SettleLostCreates, SettleLostCreatesBy
  <2>2. QED
    BY <2>1 DEF Writing
<1>3. CASE Plan
  <2>1. UNCHANGED <<rows, kind>> /\ stage = "plan" /\ stage' = "apply" /\ todo' \subseteq Half
    BY <1>3 DEF Plan
  <2>2. QED
    BY <1>1, <2>1 DEF Writing, Half
<1>4. CASE \E j \in todo : Unchanged(j) /\ todo' = todo \ {j}
  <2>1. PICK j \in todo : Unchanged(j) /\ todo' = todo \ {j}
    BY <1>4
  <2>2. stage = "apply" /\ j \in Half /\ stage' = "apply" /\ j \in Keys /\ UNCHANGED kind
    BY <2>1, <1>1, AtKey DEF Unchanged, Undisturbed, WriteRow, Stop, Half
  <2>3. j # k /\ Still(k)
    BY <2>1, <2>2 DEF Half, Writing
  <2>4. rows'[k] = rows[k]
    BY <2>1, <2>3, Types DEF Unchanged, WriteRow
  <2>5. QED
    BY <2>3, <2>4
<1>5. CASE EndHalf
  <2>1. UNCHANGED rows /\ stage = "remove" /\ (kind = "owners" \/ stage' = "sweep")
    BY <1>5 DEF EndHalf
  <2>2. QED
    BY <1>1, <1>5, <2>1 DEF EndHalf, Writing
<1>6. ASSUME stage \notin {"listed", "plan"}, UNCHANGED kind, ~\E j \in todo : Unchanged(j)
      PROVE  Still(k) /\ rows'[k] = rows[k]
  <2>1. Still(k)
    <3>1. CASE stage' \in Writing \cup {"apply"} /\ k \in todo' /\ ~(stage' \in Writing /\ k = key')
      <4>1. stage \in Writing \cup {"apply"} /\ todo' \subseteq todo
        BY <1>1, <1>6, <3>1 DEF Moves, Writing, Deleting, EndHalf
      <4>2. ~(stage \in Writing /\ k = key)
        BY <1>1, <1>6, <3>1 DEF Moves, Writing, Deleting
      <4>3. QED
        BY <3>1, <4>1, <4>2
    <3>2. CASE kind = "owners" /\ k \in RuleKeys
      <4>1. stage # "off"
        BY <1>1 DEF Moves, Writing, Deleting
      <4>2. ~(stage \in Writing /\ k = key)
        BY <3>2, AtKey DEF Half
      <4>3. QED
        BY <3>2, <4>1, <4>2
    <3>3. stage' \notin {"listed", "plan"}
      BY <1>1, <1>6 DEF Moves, Writing, Deleting, EndHalf
    <3>4. QED
      BY <1>1, <1>6, <3>1, <3>2, <3>3
  <2>2. ~Unchanged(k)
    BY <1>6 DEF Unchanged
  <2>3. ~StartUpdate(k)
    <3>1. ASSUME StartUpdate(k) PROVE FALSE
      <4>1. stage' = "put" /\ key' = k
        BY <3>1 DEF StartUpdate, Undisturbed, WriteRow, Stop
      <4>2. QED
        BY <4>1 DEF Writing
    <3>2. QED
      BY <3>1
  <2>4. ~((RecordPolicy \/ WriteError \/ DropRow) /\ k = key)
    <3>1. CASE (RecordPolicy \/ WriteError) /\ k = key
      <4>1. stage \in Writing
        BY <3>1 DEF RecordPolicy, WriteError, Writing
      <4>2. QED
        BY <3>1, <4>1, <2>1
    <3>2. CASE DropRow /\ k = key
      <4>1. stage \in Deleting
        BY <3>2 DEF DropRow, Deleting
      <4>2. QED
        BY <3>2, <4>1, <2>1, AtKey DEF Deleting, Writing, Half
    <3>3. QED
      BY <3>1, <3>2
  <2>5. QED
    BY <2>1, <2>2, <2>3, <2>4, RowTouched DEF Undisturbed
<1>7. QED
  BY <1>1, <1>2, <1>3, <1>4, <1>5, <1>6 DEF Moves, Writing, Deleting, Unchanged

\* Where nobody interferes, the list is of all there were, a row still to be
\* written is of a policy as listed, and what is made says what is planned.
SaysInv == quiet => ListedAll /\ Untouched /\ MadeSays

\* Nothing the pass writes or takes away is of another key that is on record.
LEMMA OthersKept ==
  ASSUME IInv, Apart, QuietInv, Undisturbed, NEW k \in Keys, rows[k] # NoRow, rows[k].policy # 0,
         k # key \/ stage \notin {"put", "delete"}
  PROVE  /\ rows[k].policy \in DOMAIN gateway /\ rows[k].policy \in DOMAIN gateway'
         /\ gateway'[rows[k].policy] = gateway[rows[k].policy]
<1> PICK p \in Nat : p = rows[k].policy
  BY Types
<1>1. Names(k, p)
  BY DEF Names
<1>2. p \in DOMAIN gateway
  BY <1>1 DEF Apart, HoldersApart
<1>3. ASSUME stage \in {"put", "delete"}, p = seen[key].policy PROVE FALSE
  <2>1. key \in Keys /\ seen[key] # NoRow
    BY <1>3 DEF IInv, PassStages, Writing, Deleting
  <2>2. Names(key, p)
    BY <1>3, <2>1 DEF Names
  <2>3. k = key
    BY <1>1, <2>1, <2>2 DEF Apart, HoldersApart
  <2>4. QED
    BY <1>3, <2>3
<1>4. ASSUME stage = "sweep", NEW i \in sweeping, p = ops[i].policy PROVE FALSE
  BY <1>4 DEF QuietInv, SweepsUnheld, Undisturbed, ByRow
<1>5. QED
  BY <1>2, <1>3, <1>4, CopyTouched DEF Undisturbed

LEMMA UntouchedStep ==
  ASSUME IInv, Apart, QuietInv, QuietInv', Untouched, Undisturbed
  PROVE  Untouched'
<1> SUFFICES ASSUME NEW k \in Keys, Still(k)', rows'[k] # NoRow, rows'[k].policy # 0
             PROVE  rows'[k].policy \in DOMAIN copies' /\ gateway'[rows'[k].policy] = copies'[rows'[k].policy]
  BY DEF Untouched
<1>1. Still(k) /\ rows'[k] = rows[k]
  BY StillTurn
<1>2. copies' = copies
  BY PassTurns
<1>3. k # key \/ stage \notin {"put", "delete"}
  <2>1. stage = "put" => k # key
    BY <1>1 DEF Still, Writing
  <2>2. stage = "delete" => k # key
    BY <1>1, AtKey DEF Still, Unwritten, Later, Half, Writing, Deleting
  <2>3. QED
    BY <2>1, <2>2
<1>4. QED
  BY <1>1, <1>2, <1>3, OthersKept DEF Untouched

LEMMA MadeSaysStep ==
  ASSUME IInv, Apart, QuietInv, MadeSays, Undisturbed
  PROVE  MadeSays'
<1> SUFFICES ASSUME stage' \in {"putrow", "applied", "record"} PROVE gateway'[made'].content = plan'[key']
  BY DEF MadeSays
<1>1. CASE UNCHANGED <<stage, made, key, plan>>
  <2>1. made \in DOMAIN gateway
    BY <1>1, MadeThere
  <2>2. gateway'[made] = gateway[made]
    BY <1>1, <2>1, CopyTouched DEF Undisturbed
  <2>3. QED
    BY <1>1, <2>2 DEF MadeSays
<1>2. CASE Put
  <2>1. PICK p : p = seen[key].policy
    OBVIOUS
  <2>2. /\ stage = "put" /\ p \in LiveIds /\ gateway' = PutBack(gateway, p, plan[key]) /\ made' = p
        /\ UNCHANGED <<key, plan>>
    BY <1>2, <2>1 DEF Put
  <2>3. QED
    BY <2>1, <2>2, PutFacts
<1>3. CASE Reclaim
  <2>1. PICK p \in adopted : Reclaims(copies[p], key, plan[key]) /\ made' = p
    BY <1>3 DEF Reclaim
  <2>2. stage = "create" /\ UNCHANGED <<gateway, key, plan>>
    BY <1>3 DEF Reclaim
  <2>3. gateway[p] = copies[p]
    BY <2>1, <2>2 DEF QuietInv, QuietReads, Undisturbed
  <2>4. QED
    BY <2>1, <2>2, <2>3 DEF Reclaims
<1>4. CASE Post
  BY <1>4, AppendFacts DEF Post
<1>5. CASE ApplyOperation
  BY <1>5 DEF ApplyOperation, MadeSays
<1>6. QED
  BY <1>1, <1>2, <1>3, <1>4, <1>5, ReadsTurn DEF Undisturbed, Next

LEMMA StepsSay ==
  ASSUME IInv, Apart, QuietInv, QuietInv', SaysInv, [Next]_vars
  PROVE  SaysInv'
<1> SUFFICES ASSUME quiet' PROVE ListedAll' /\ Untouched' /\ MadeSays'
  BY DEF SaysInv
<1>1. CASE UNCHANGED vars
  BY <1>1 DEF vars, passVars, SaysInv, ListedAll, Untouched, MadeSays, Still, Unwritten, Later, LiveIds
<1>2. CASE ListPolicies
  <2>1. stage' = "listed" /\ copies' = gateway /\ on' = LiveIds /\ UNCHANGED <<gateway, rows, seen>>
    BY <1>2 DEF ListPolicies
  <2>2. LiveIds' = LiveIds
    BY <2>1 DEF LiveIds
  <2>3. ASSUME NEW k \in Keys, rows[k] # NoRow, rows[k].policy # 0 PROVE rows[k].policy \in DOMAIN gateway
    <3>1. rows[k].policy \in Nat
      BY <2>3, Types
    <3>2. QED
      BY <2>3, <3>1 DEF Apart, HoldersApart, Names
  <2>4. Untouched'
    BY <2>1, <2>3 DEF Untouched
  <2>5. QED
    BY <2>1, <2>2, <2>4 DEF ListedAll, MadeSays
<1>3. CASE Undisturbed
  <2>1. SaysInv /\ quiet
    BY <1>3 DEF Undisturbed
  <2>2. ListedAll'
    BY <1>3, PassTurns DEF ListedAll
  <2>3. QED
    BY <1>3, <2>1, <2>2, UntouchedStep, MadeSaysStep DEF SaysInv
<1>4. QED
  BY <1>1, <1>2, <1>3, QuietTurn

LEMMA AlwaysSays == Spec => []SaysInv
<1>1. Init => SaysInv
  BY DEF Init, SaysInv
<1>2. (IInv /\ Apart) /\ QuietInv /\ QuietInv' /\ SaysInv /\ [Next]_vars => SaysInv'
  BY StepsSay
<1>3. QED
  BY <1>1, <1>2, AlwaysApart, AlwaysQuiet, PTL DEF Spec

\* Once an undisturbed pass has settled the lost creates, and as long as no step
\* of it fails, no policy says what FamilyFi writes and is held by no operation.
LostInv == quiet /\ ~bad => NothingLost

\* The list is of all policies, so each is matched while there are creates to
\* match, and there are as many.
LEMMA CountedAll ==
  ASSUME IInv, Apart, FindInv, CountInv, Extends = {}, ListedAll, SettleLostCreates
  PROVE  Unheld' = {}
<1> SUFFICES ASSUME NEW p \in Unheld' PROVE FALSE
  OBVIOUS
<1>1. PICK match \in [Pending -> on \cup {0}] : Matches(match, Carries) /\ Settled(match)
  BY SettleFacts
<1>2. /\ Missing(p) /\ Told(p)' = Told(p) /\ Told(p).content \in Contents
      /\ \A i \in Pending : match[i] # p
  <2>1. Missing(p)' /\ Told(p)'.content \in Contents
    BY DEF Unheld
  <2>2. QED
    BY <1>1, <2>1, SettledLeaves DEF FindInv
<1>3. stage = "listed"
  BY DEF SettleLostCreates, SettleLostCreatesBy
<1>4. Told(p) \in Copies
  <2>1. p \in DOMAIN gateway
    BY <1>2 DEF Missing
  <2>2. Told(p) \in Copies \cup {Admin}
    BY <2>1, Types DEF Told, GoodGateway, Apart, CopiesRead
  <2>3. Told(p) # Admin
    BY <1>2, PolicySyncAssumption DEF Admin
  <2>4. QED
    BY <2>2, <2>3
<1>5. PICK k \in Keys, c \in Contents : Told(p) = [key |-> k, content |-> c]
  BY <1>2, <1>4 DEF Copies
<1>6. p \in Lost(k, c)
  BY <1>2, <1>5 DEF Lost, Missing
<1>7. p \in on
  <2> SUFFICES ASSUME p \notin on PROVE p \in LiveIds
    BY <1>3 DEF ListedAll
  <2>1. Told(p) = gateway[p] /\ p \in DOMAIN gateway
    BY <1>2 DEF Told, Missing
  <2>2. gateway[p].content # "gone"
    BY <1>2, <2>1, PolicySyncAssumption
  <2>3. QED
    BY <2>1, <2>2 DEF LiveIds
<1>8. PICK lost : lost = Lost(k, c)
  OBVIOUS
<1>9. PICK open : open = Open(k, c, 1)
  OBVIOUS
<1>10. /\ \A i \in open : i \in Pending
       /\ \A i \in open : match[i] # 0 => match[i] \in lost /\ \A j \in open : j # i => match[j] # match[i]
       /\ \A i \in open : match[i] = 0 => \E j \in open : match[j] = p
  <2>1. CopiesRead /\ RecordInv
    BY DEF Apart, FindInv
  <2>2. QED
    BY <1>1, <1>3, <1>6, <1>7, <1>8, <1>9, <2>1, MatchedClass
<1>11. /\ \A i \in open : match[i] \in lost /\ match[i] \notin {p}
       /\ \A i, j \in open : i # j => match[i] # match[j]
  BY <1>2, <1>10
<1>12. IsFiniteSet(lost) /\ IsFiniteSet(open) /\ Cardinality(lost) + 0 <= Cardinality(open)
  <2>1. Cardinality(Lost(k, c)) + Cardinality(Late(k, c, 1)) <= Cardinality(Open(k, c, 1))
    BY DEF CountInv, Enough
  <2>2. /\ IsFiniteSet(Lost(k, c)) /\ Cardinality(Lost(k, c)) \in Nat
        /\ Cardinality(Late(k, c, 1)) \in Nat
        /\ IsFiniteSet(Open(k, c, 1)) /\ Cardinality(Open(k, c, 1)) \in Nat
    BY Countable
  <2>3. QED
    BY <1>8, <1>9, <2>1, <2>2
<1>13. {p} \subseteq lost /\ open \subseteq open /\ 0 \in Nat
  BY <1>6, <1>8
<1>14. Cardinality({p}) + 0 <= Cardinality(open \ open)
  BY ONLY <1>11, <1>12, <1>13, TakenTogether
<1>15. Cardinality({p}) = 1 /\ Cardinality({}) = 0
  BY FS_EmptySet, FS_Singleton
<1>16. open \ open = {}
  OBVIOUS
<1>17. QED
  BY <1>14, <1>15, <1>16

LEMMA LostStep ==
  ASSUME IInv, Apart, FindInv, QuietInv, QuietInv', NothingLost, Undisturbed, ~bad',
         SettleLostCreates => Unheld' = {}
  PROVE  NothingLost'
<1> SUFFICES ASSUME stage' \notin {"off", "listed", "error"} PROVE Unheld' = {}
  BY DEF NothingLost
<1>1. CASE SettleLostCreates
  BY <1>1
<1>2. CASE ~SettleLostCreates
  <2>1. stage # "error" /\ stage \notin {"off", "listed"}
    <3>1. Moves /\ stage # "off"
      BY PassMoves, PassTurns
    <3>2. stage # "listed"
      BY <1>2, <3>1 DEF Moves, Writing, Deleting
    <3>3. ASSUME stage = "error" PROVE FALSE
      <4>2. CASE WriteError
        BY <4>2 DEF WriteError, WriteRow, Stop, Undisturbed
      <4>3. WriteError
        BY <3>3 DEF Undisturbed, PassStep, PassFault, ListPolicies, SettleLostCreates, SettleLostCreatesBy, Plan, Unchanged,
           StartUpdate, StartCreate, StartRemove, Put, Reclaim, OpenCreate, OpenCreateAs, Post, ApplyOperation,
           RecordPolicy, EndApply, Delete, DropRow, EndHalf, Sweep, EndSweep, EndPass, Stop,
           PutFails, PostFails, DeleteFails, Crash, SweepFails
      <4>4. QED
        BY <4>2, <4>3
    <3>4. QED
      BY <3>1, <3>2, <3>3
  <2>2. Unheld = {}
    BY <2>1 DEF NothingLost
  <2>3. ~Leaves
    BY <1>2 DEF Leaves, Crash, Stop, PostFails, Undisturbed
  <2>4. Steady
    BY <2>3, PassSteady DEF FindInv, Undisturbed
  <2>5. ASSUME NEW p \in Unheld' PROVE FALSE
    <3>1. Missing(p)' /\ Told(p)'.content \in Contents
      BY <2>5 DEF Unheld
    <3>2. Missing(p) /\ Told(p)' = Told(p)
      BY <2>4, <3>1 DEF Steady
    <3>3. p \in Unheld
      BY <3>1, <3>2 DEF Unheld, Missing
    <3>4. QED
      BY <2>2, <3>3
  <2>6. QED
    BY <2>5
<1>3. QED
  BY <1>1, <1>2

LEMMA StepsLose ==
  ASSUME IInv, Apart, FindInv, QuietInv, QuietInv', LostInv, [Next]_vars,
         SettleLostCreates /\ quiet => Unheld' = {}
  PROVE  LostInv'
<1> SUFFICES ASSUME quiet', ~bad' PROVE NothingLost'
  BY DEF LostInv
<1>1. CASE UNCHANGED vars
  BY <1>1 DEF vars, passVars, LostInv, NothingLost, Unheld, Missing, Told, ByOp
<1>2. CASE ListPolicies
  BY <1>2 DEF ListPolicies, NothingLost
<1>3. CASE Undisturbed
  <2>1. NothingLost
    BY <1>3, PassTurns DEF LostInv, Undisturbed
  <2>2. QED
    BY <1>3, <2>1, LostStep DEF Undisturbed
<1>4. QED
  BY <1>1, <1>2, <1>3, QuietTurn

LEMMA AlwaysLose ==
  ASSUME Extends = {} \/ ~LateLanding
  PROVE  Spec => []LostInv
<1>1. Init => LostInv
  BY DEF Init, LostInv
<1>2. CASE Extends = {}
  <2>1. (IInv /\ Apart) /\ FindInv /\ CountInv /\ SaysInv /\ QuietInv /\ QuietInv' /\ LostInv /\ [Next]_vars => LostInv'
    BY <1>2, StepsLose, CountedAll DEF SaysInv
  <2>2. QED
    BY <1>1, <1>2, <2>1, AlwaysApart, AlwaysFind, AlwaysCount, AlwaysSays, AlwaysQuiet, PTL DEF Spec
<1>3. CASE ~LateLanding
  <2>1. (IInv /\ Apart) /\ FindInv /\ OrderInv /\ QuietInv /\ QuietInv' /\ LostInv /\ [Next]_vars => LostInv'
    BY StepsLose, OrderSettle DEF FindInv
  <2>2. QED
    BY <1>1, <1>3, <2>1, AlwaysApart, AlwaysFind, AlwaysOrder, AlwaysQuiet, PTL DEF Spec
<1>4. QED
  BY <1>2, <1>3

LEMMA WrittenTurn ==
  ASSUME IInv, Apart, QuietInv, QuietInv', Undisturbed, NEW k \in Keys, Written(k)', plan'[k] \in Contents
  PROVE  \/ Written(k) /\ plan'[k] = plan[k]
         \/ Unchanged(k)
         \/ (RecordPolicy \/ WriteError) /\ k = key
<1>1. Moves /\ (EndHalf \/ UNCHANGED kind) /\ kind \in {"owners", "rules"} /\ RuleKeys \subseteq Keys
  BY PassMoves, PolicySyncAssumption DEF IInv, PassTypes
<1>2. CASE SettleLostCreates
  <2>1. stage = "listed" /\ stage' = "plan" /\ kind' = "owners"
    BY <1>2 DEF SettleLostCreates, SettleLostCreatesBy, Apart, PassReads
  <2>2. QED
    BY <2>1 DEF Written
<1>3. CASE Plan
  <2>1. /\ stage = "plan" /\ stage' = "apply" /\ plan' = desired /\ kind' = kind
        /\ todo' = {j \in Half : desired[j] \in Contents}
    BY <1>3 DEF Plan
  <2>2. kind = "rules" /\ k \notin RuleKeys
    BY <2>1 DEF Written, Half
  <2>3. plan = desired
    BY <2>1, <2>2 DEF QuietInv, QuietReads, Undisturbed
  <2>4. QED
    BY <2>1, <2>2, <2>3 DEF Written
<1>4. CASE \E j \in todo : Unchanged(j) /\ todo' = todo \ {j}
  <2>1. PICK j \in todo : Unchanged(j) /\ todo' = todo \ {j}
    BY <1>4
  <2>2. CASE j # k
    <3>1. stage = "apply" /\ stage' = "apply" /\ plan' = plan /\ kind' = kind
      BY <2>1, PassTurns, <1>1 DEF Unchanged, Undisturbed, WriteRow, Stop, EndHalf
    <3>2. QED
      BY <2>1, <2>2, <3>1 DEF Written, Half
  <2>3. QED
    BY <2>1, <2>2
<1>5. CASE EndHalf
  <2>1. stage = "remove" /\ todo = {} /\ UNCHANGED <<plan, todo>>
        /\ IF kind = "owners" THEN stage' = "plan" /\ kind' = "rules" ELSE stage' = "sweep" /\ kind' = kind
    BY <1>5 DEF EndHalf
  <2>2. QED
    BY <1>1, <2>1 DEF Written, Half, Writing
<1>6. ASSUME UNCHANGED kind, ~Plan, ~SettleLostCreates, ~\E j \in todo : Unchanged(j),
             ~((RecordPolicy \/ WriteError) /\ k = key)
      PROVE  Written(k) /\ plan'[k] = plan[k]
  <2>1. stage \notin {"listed", "plan"}
    BY <1>1, <1>6 DEF Moves, Writing, Deleting
  <2>2. plan' = plan
    BY <2>1, PassTurns
  <2>3. CASE kind = "rules" /\ k \notin RuleKeys
    BY <2>2, <2>3 DEF Written
  <2>4. CASE k \in Half
    <3> SUFFICES ASSUME k \in todo, stage \in Writing \cup {"apply"} PROVE FALSE
      BY <2>1, <2>2, <2>4 DEF Written
    <3>1. CASE stage' \in Writing \cup {"apply"}
      <4>1. k \notin todo'
        BY <1>6, <2>4, <3>1 DEF Written, Half
      <4>2. QED
        BY <1>1, <1>6, <3>1, <4>1 DEF Moves, Writing, Deleting, EndHalf
    <3>2. CASE stage' \notin Writing \cup {"apply"}
      <4>1. EndApply
        BY <1>1, <3>2 DEF Moves, Writing, Deleting
      <4>2. QED
        BY <4>1 DEF EndApply
    <3>3. QED
      BY <3>1, <3>2
  <2>5. QED
    BY <1>6, <2>3, <2>4 DEF Written, Half
<1>7. QED
  BY <1>1, <1>2, <1>3, <1>4, <1>5, <1>6 DEF Moves, Unchanged

\* A settled key's row stays, and so does its policy.
LEMMA RightKept ==
  ASSUME IInv, Apart, QuietInv, Undisturbed, NEW k \in Keys, Written(k), Right(k),
         plan[k] \in Contents, plan'[k] = plan[k]
  PROVE  Right(k)'
<1>1. ~(stage \in Writing /\ k = key) /\ ~(stage \in Deleting /\ k = key) /\ ~(stage = "apply" /\ k \in todo)
  BY AtKey DEF Written, Half
<1>2. rows'[k] = rows[k]
  <2>1. ~Unchanged(k) /\ ~StartUpdate(k)
    BY <1>1 DEF Unchanged, StartUpdate
  <2>2. ~((RecordPolicy \/ WriteError \/ DropRow) /\ k = key)
    BY <1>1 DEF RecordPolicy, WriteError, DropRow, Writing, Deleting
  <2>3. QED
    BY <2>1, <2>2, RowTouched DEF Undisturbed
<1>3. rows[k].policy # 0
  BY Types DEF Right
<1>4. k # key \/ stage \notin {"put", "delete"}
  BY <1>1 DEF Writing, Deleting
<1>5. QED
  BY <1>2, <1>3, <1>4, OthersKept DEF Right

\* A row found as wanted is of a policy that says so.
LEMMA UnchangedRight ==
  ASSUME IInv, Apart, RowsOwn, QuietInv, Untouched, Undisturbed, NEW k \in Keys, Unchanged(k)
  PROVE  Right(k)'
<1>1. /\ stage = "apply" /\ k \in todo /\ seen[k] # NoRow /\ seen[k].policy \in on
      /\ seen[k].desired = plan[k] /\ ~seen[k].failed /\ ~Drifted(k)
      /\ UNCHANGED <<gateway, plan>>
  BY DEF Unchanged, AsWanted, OnGateway, Undisturbed, WriteRow, Stop
<1>2. rows[k] # NoRow /\ rows[k].policy = seen[k].policy
  BY <1>1, ReadRowLive DEF Undisturbed, QuietInv, Writing
<1>3. rows[k].failed = seen[k].failed /\ rows[k].observed = seen[k].observed /\ rows[k].desired = seen[k].desired
  <2>1. Fresh(k)
    BY <1>1, AtKey DEF Fresh, Writing
  <2>2. QED
    BY <1>1, <1>2, <2>1 DEF Apart, PassReads, SameRow
<1>4. rows[k].policy # 0 /\ rows[k].observed = rows[k].desired
  BY <1>1, <1>2, <1>3 DEF RowsOwn
<1>5. Still(k)
  BY <1>1, AtKey DEF Still, Unwritten, Writing
<1>6. rows[k].policy \in DOMAIN copies /\ gateway[rows[k].policy] = copies[rows[k].policy]
  BY <1>2, <1>4, <1>5 DEF Untouched
<1>7. gateway[rows[k].policy].content = plan[k]
  BY <1>1, <1>2, <1>3, <1>4, <1>6 DEF Drifted
<1>8. rows[k].policy \in DOMAIN gateway
  BY <1>1, <1>2, Types
<1>9. rows'[k] # NoRow /\ rows'[k].policy = rows[k].policy
  <2>1. rows'[k] = rows[k] \/ rows'[k] = [rows[k] EXCEPT !.observed = plan[k]]
    BY <1>2, Types DEF Unchanged, WriteRow
  <2>2. PICK row \in Rows : row = rows[k]
    BY <1>2, Types
  <2>3. CASE rows'[k] = [row EXCEPT !.observed = plan[k]]
    <3>1. rows'[k].policy = row.policy
      BY <2>3, RowWritten
    <3>2. rows'[k] \in Rows
      BY <1>1, <2>2, <2>3, AtKey DEF Rows, Writing
    <3>3. QED
      BY <2>2, <3>1, <3>2, PolicySyncAssumption
  <2>4. QED
    BY <1>2, <2>1, <2>2, <2>3
<1>10. QED
  BY <1>1, <1>7, <1>8, <1>9 DEF Right

LEMMA RecordRight ==
  ASSUME IInv, Apart, MadeSays, Undisturbed, RecordPolicy, NEW k \in Keys, k = key
  PROVE  Right(k)'
<1>1. /\ stage \in {"putrow", "record"} /\ UNCHANGED <<gateway, plan>>
      /\ rows' = [rows EXCEPT ![key] = Clean(key)]
  BY DEF RecordPolicy, WriteRow, Stop, Proceed, Undisturbed
<1>2. rows'[k] = Clean(k)
  BY <1>1, Types
<1>3. rows'[k].policy = made
  BY <1>2 DEF Clean
<1>4. made \in DOMAIN gateway /\ gateway[made].content = plan[k] /\ made # 0
  BY <1>1, MadeThere DEF MadeSays
<1>5. rows'[k] # NoRow
  <2>1. plan[k] \in Contents /\ made \in Nat
    BY <1>1, AtKey, Types DEF Writing
  <2>2. (seen[k] # NoRow /\ seen[k].desired = plan[k] /\ rows[k] # NoRow /\ rows[k].drift) \in BOOLEAN
    OBVIOUS
  <2>3. Clean(k).drift \in BOOLEAN
    BY <2>2 DEF Clean
  <2>4. Clean(k) \in Rows
    BY <2>1, <2>3 DEF Clean, Rows
  <2>5. QED
    BY <1>2, <2>4, PolicySyncAssumption
<1>6. QED
  BY <1>1, <1>3, <1>4, <1>5 DEF Right

LEMMA EnforcedStep ==
  ASSUME IInv, Apart, RowsOwn, QuietInv, QuietInv', Untouched, MadeSays, Enforced, Undisturbed, ~bad'
  PROVE  Enforced'
<1> SUFFICES ASSUME NEW k \in Keys, Written(k)', plan'[k] \in Contents PROVE Right(k)'
  BY DEF Enforced
<1>1. CASE Written(k) /\ plan'[k] = plan[k]
  BY <1>1, RightKept DEF Enforced
<1>2. CASE Unchanged(k)
  BY <1>2, UnchangedRight
<1>3. CASE RecordPolicy /\ k = key
  BY <1>3, RecordRight
<1>4. CASE WriteError
  BY <1>4 DEF WriteError, WriteRow, Stop, Undisturbed
<1>5. QED
  BY <1>1, <1>2, <1>3, <1>4, WrittenTurn

LEMMA RemovedTurn ==
  ASSUME IInv, Apart, QuietInv, QuietInv', Undisturbed, NEW k \in Keys, Removed(k)'
  PROVE  \/ Removed(k)
         \/ EndApply /\ k \in Half /\ k \notin todo'
         \/ DropRow /\ k = key
<1>1. Moves /\ (EndHalf \/ UNCHANGED kind) /\ kind \in {"owners", "rules"} /\ RuleKeys \subseteq Keys
  BY PassMoves, PolicySyncAssumption DEF IInv, PassTypes
<1>2. CASE EndHalf
  <2>1. /\ stage = "remove" /\ todo = {}
        /\ IF kind = "owners" THEN stage' = "plan" /\ kind' = "rules" ELSE stage' = "sweep" /\ kind' = kind
    BY <1>2 DEF EndHalf
  <2>2. QED
    BY <1>1, <2>1 DEF Removed, Half, Deleting
<1>3. CASE UNCHANGED kind /\ ~EndHalf
  <2>1. CASE kind = "rules" /\ k \notin RuleKeys
    BY <2>1 DEF Removed
  <2>2. CASE stage' \in {"sweep", "end"}
    <3>1. stage = "sweep"
      BY <1>1, <1>3, <2>2 DEF Moves, Writing, Deleting
    <3>2. QED
      BY <3>1 DEF Removed
  <2>3. CASE k \in Half /\ stage' \in Deleting \cup {"remove"} /\ k \notin todo'
    <3>1. CASE EndApply
      BY <2>3, <3>1
    <3>2. stage \in Deleting \cup {"remove"} \/ EndApply
      BY <1>1, <1>3, <2>3 DEF Moves, Writing, Deleting
    <3>3. CASE stage \in Deleting \cup {"remove"} /\ k \in todo
      BY <1>1, <1>3, <2>3, <3>3 DEF Moves, Writing, Deleting
    <3>4. QED
      BY <2>3, <3>1, <3>2, <3>3 DEF Removed
  <2>4. QED
    BY <1>3, <2>1, <2>2, <2>3 DEF Removed, Half
<1>4. QED
  BY <1>1, <1>2, <1>3

LEMMA DroppedStep ==
  ASSUME IInv, Apart, QuietInv, QuietInv', Dropped, Undisturbed, ~bad'
  PROVE  Dropped'
<1> SUFFICES ASSUME NEW k \in Keys, Removed(k)', plan'[k] \in {"off", "deleted"} PROVE rows'[k] = NoRow
  BY DEF Dropped
<1>1. plan'[k] \notin Contents
  BY PolicySyncAssumption
<1>2. CASE Removed(k)
  <2>1. plan'[k] = plan[k]
    <3>1. CASE stage # "plan"
      BY <3>1, PassTurns
    <3>2. CASE stage = "plan"
      <4>1. kind = "rules"
        BY <1>2, <3>2 DEF Removed, Deleting
      <4>2. plan = desired /\ plan' = desired'
        <5>1. stage' = "apply"
          BY <3>2, PassMoves DEF Moves, Writing, Deleting
        <5>2. QED
          BY <3>2, <4>1, <5>1 DEF QuietInv, QuietReads, Undisturbed
      <4>3. Plan
        BY <3>2, PassMoves DEF Moves, Writing, Deleting
      <4>4. QED
        BY <4>2, <4>3 DEF Plan, Others
    <3>3. QED
      BY <3>1, <3>2
  <2>2. rows[k] = NoRow
    BY <1>2, <2>1 DEF Dropped
  <2>3. ~(stage \in Writing \cup {"apply"} /\ k \in todo)
    BY <1>1, <2>1, AtKey
  <2>4. ~(stage \in Writing /\ k = key)
    BY <2>3, AtKey
  <2>5. ~(stage \in Deleting /\ k = key)
    BY <1>2, AtKey DEF Removed, Half, Deleting
  <2>6. ~Unchanged(k) /\ ~StartUpdate(k)
    BY <2>3 DEF Unchanged, StartUpdate
  <2>7. ~((RecordPolicy \/ WriteError \/ DropRow) /\ k = key)
    BY <2>4, <2>5 DEF RecordPolicy, WriteError, DropRow, Writing, Deleting
  <2>8. QED
    BY <2>2, <2>6, <2>7, RowTouched DEF Undisturbed
<1>3. CASE EndApply /\ k \in Half /\ k \notin todo'
  <2>1. stage = "apply" /\ UNCHANGED <<rows, plan>> /\ ~Unwanted(k)
    BY <1>3 DEF EndApply
  <2>2. seen[k] = NoRow
    BY <1>1, <2>1 DEF Unwanted
  <2>3. Fresh(k)
    BY <1>1, <1>3, <2>1 DEF Fresh
  <2>4. QED
    BY <2>1, <2>2, <2>3 DEF Apart, PassReads, SameRow
<1>4. CASE DropRow /\ k = key
  <2>1. rows' = [rows EXCEPT ![key] = IF stage = "deleterow" THEN NoRow ELSE [rows[key] EXCEPT !.failed = TRUE]]
        /\ stage \in {"deleterow", "deleteerror"} /\ bad' = (bad \/ stage = "deleteerror")
    BY <1>4 DEF DropRow, Stop, Undisturbed
  <2>2. QED
    BY <1>4, <2>1, Types
<1>5. QED
  BY <1>2, <1>3, <1>4, RemovedTurn

LEMMA SweptStep ==
  ASSUME IInv, Apart, QuietInv, QuietInv', Swept, Undisturbed, ~bad'
  PROVE  Swept'
<1> SUFFICES ASSUME stage' \in {"sweep", "end"} PROVE Swept'
  BY DEF Swept
<1>1. CASE EndHalf
  <2>1. /\ UNCHANGED <<rows, ops>> /\ stage' = "sweep"
        /\ sweeping' = {i \in DOMAIN ops : ops[i].status = "applied" /\ ~ByRow(ops[i].policy)}
    BY <1>1 DEF EndHalf
  <2>2. \A p : ByRow(p)' <=> ByRow(p)
    BY <2>1 DEF ByRow
  <2>3. QED
    BY <2>1, <2>2 DEF Swept
<1>2. CASE EndSweep
  <2>1. UNCHANGED <<gateway, rows, ops, sweeping>> /\ stage = "sweep" /\ sweeping = {}
    BY <1>2 DEF EndSweep
  <2>2. (\A p : ByRow(p)' <=> ByRow(p)) /\ LiveIds' = LiveIds
    BY <2>1 DEF ByRow, LiveIds
  <2>3. QED
    BY <2>1, <2>2 DEF Swept
<1>3. CASE \E i \in DOMAIN ops : Sweep(i)
  <2>1. PICK i \in DOMAIN ops : Sweep(i)
    BY <1>3
  <2>2. PICK p : p = ops[i].policy
    OBVIOUS
  <2>3. /\ stage = "sweep" /\ stage' = "sweep" /\ UNCHANGED rows /\ sweeping' = sweeping \ {i}
        /\ gateway' \in {gateway, DeleteFrom(gateway, p)}
        /\ ops' = [ops EXCEPT ![i].status = "removed"]
    BY <2>1, <2>2 DEF Sweep
  <2>4. p # 1
    BY <2>2, OpOfSeq DEF IInv, World
  <2>5. LiveIds' \subseteq LiveIds
    BY <2>3, <2>4, DeleteTakes
  <2>6. DOMAIN ops' = DOMAIN ops /\ ops'[i].status # "applied" /\ \A j \in DOMAIN ops : j # i => ops'[j] = ops[j]
    <3>1. PICK op \in Ops : op = ops[i]
      BY OpTypes
    <3>2. ops'[i] = [op EXCEPT !.status = "removed"]
      BY <2>3, <3>1, OpTypes
    <3>3. ops'[i].status = "removed"
      BY <3>2 DEF Ops
    <3>4. QED
      BY <2>3, <3>3, OpTypes
  <2>7. \A q : ByRow(q)' <=> ByRow(q)
    BY <2>3 DEF ByRow
  <2>8. QED
    BY <2>3, <2>5, <2>6, <2>7 DEF Swept
<1>4. CASE \E i \in DOMAIN ops : SweepFails(i)
  BY <1>4 DEF SweepFails
<1>5. QED
  BY <1>1, <1>2, <1>3, <1>4, PassMoves DEF Moves, Writing, Deleting

\* As long as no step failed, what an undisturbed pass is done with is so.
DoneInv == quiet /\ ~bad => Enforced /\ Dropped /\ Swept

LEMMA StepsDone ==
  ASSUME IInv, Apart, RowsOwn, QuietInv, QuietInv', SaysInv, DoneInv, [Next]_vars
  PROVE  DoneInv'
<1> SUFFICES ASSUME quiet', ~bad' PROVE Enforced' /\ Dropped' /\ Swept'
  BY DEF DoneInv
<1>1. CASE UNCHANGED vars
  <2>1. /\ UNCHANGED <<stage, kind, rows, gateway, plan, todo, sweeping, ops, quiet, bad>>
        /\ Enforced /\ Dropped /\ Swept
    BY <1>1 DEF vars, passVars, DoneInv
  <2>2. /\ LiveIds' = LiveIds /\ Half' = Half /\ \A p : ByRow(p)' <=> ByRow(p)
        /\ \A k \in Keys : (Written(k)' <=> Written(k)) /\ (Removed(k)' <=> Removed(k)) /\ (Right(k)' <=> Right(k))
    BY <2>1 DEF LiveIds, Half, ByRow, Written, Removed, Right
  <2>3. QED
    BY <2>1, <2>2 DEF Enforced, Dropped, Swept
<1>2. CASE ListPolicies
  <2>1. stage' = "listed" /\ kind' = "owners"
    BY <1>2 DEF ListPolicies, Apart, PassReads
  <2>2. \A k \in Keys : ~Written(k)' /\ ~Removed(k)'
    BY <2>1 DEF Written, Removed, Deleting
  <2>3. QED
    BY <2>1, <2>2 DEF Enforced, Dropped, Swept
<1>3. CASE Undisturbed
  <2>1. quiet /\ ~bad
    BY <1>3, PassTurns DEF Undisturbed
  <2>2. QED
    BY <1>3, <2>1, EnforcedStep, DroppedStep, SweptStep DEF DoneInv, SaysInv
<1>4. QED
  BY <1>1, <1>2, <1>3, QuietTurn

LEMMA AlwaysDone == Spec => []DoneInv
<1>1. Init => DoneInv
  BY DEF Init, DoneInv
<1>2. (IInv /\ Apart) /\ RowsOwn /\ QuietInv /\ QuietInv' /\ SaysInv /\ DoneInv /\ [Next]_vars => DoneInv'
  BY StepsDone
<1>3. QED
  BY <1>1, <1>2, AlwaysApart, AlwaysOwn, AlwaysQuiet, AlwaysSays, PTL DEF Spec

\* At the end of an applied pass what there is of a key is what its row holds.
LEMMA EndsManaged ==
  ASSUME IInv, RowsOwn, FindInv, NothingLost, Swept, stage = "end", NEW k \in Keys, NEW p \in Managed(k)
  PROVE  rows[k] # NoRow /\ rows[k].policy = p
<1>1. /\ p \in LiveIds /\ gateway[p] # Admin /\ gateway[p].key = k
      /\ gateway[p].content # "edited" \/ Claimed(p)
  BY DEF Managed, Ours
<1>2. p \in DOMAIN gateway /\ p # 0 /\ gateway[p].content # "gone"
  BY <1>1, LiveFacts
<1>3. ByOp(p)
  <2>1. CASE Claimed(p)
    BY <1>2, <2>1, ClaimedOnRecord DEF FindInv
  <2>2. CASE gateway[p].content # "edited"
    <3>1. gateway[p] \in Copies
      BY <1>1, <1>2, Types DEF GoodGateway
    <3>2. gateway[p].content \in Contents
      BY <1>2, <2>2, <3>1 DEF Copies
    <3>3. Told(p) = gateway[p]
      BY DEF Told
    <3>4. p \notin Unheld
      BY DEF NothingLost
    <3>5. QED
      BY <1>2, <3>2, <3>3, <3>4 DEF Unheld, Missing
  <2>3. QED
    BY <1>1, <2>1, <2>2
<1>4. ByRow(p)
  BY <1>1, <1>3 DEF ByOp, Swept
<1>5. PICK j \in Keys : rows[j] # NoRow /\ rows[j].policy = p
  BY <1>4 DEF ByRow
<1>6. j = k
  BY <1>1, <1>2, <1>5 DEF RowsOwn, Names
<1>7. QED
  BY <1>5, <1>6

LEMMA EndsConverged ==
  ASSUME IInv, Apart, RowsOwn, FindInv, QuietInv, LostInv, DoneInv
  PROVE  AppliedMeansEnforced
<1> SUFFICES ASSUME stage = "end", ~bad, quiet PROVE Converged
  BY DEF AppliedMeansEnforced
<1>1. plan = desired /\ kind = "rules"
  BY DEF QuietInv, QuietReads, Apart, PassReads
<1>2. NothingLost /\ Enforced /\ Dropped /\ Swept
  BY DEF LostInv, DoneInv
<1>3. ASSUME NEW k \in Keys, desired[k] \in Contents
      PROVE  \E p \in Managed(k) : gateway[p].content = desired[k] /\ Managed(k) = {p}
  <2>1. Written(k)
    BY <1>1 DEF Written, Half, Writing
  <2>2. Right(k)
    BY <1>1, <1>2, <1>3, <2>1 DEF Enforced
  <2>3. PICK p : p = rows[k].policy
    OBVIOUS
  <2>4. p \in DOMAIN gateway /\ gateway[p].content = desired[k] /\ rows[k] # NoRow
    BY <1>1, <2>2, <2>3 DEF Right
  <2>5. gateway[p].key = k
    <3>1. p # 0
      BY <2>4, Types
    <3>2. QED
      BY <2>3, <2>4, <3>1 DEF RowsOwn, Names
  <2>6. gateway[p].content \notin {"gone", "edited", "admin"}
    BY <1>3, <2>4, PolicySyncAssumption
  <2>7. p \in Managed(k)
    BY <2>4, <2>5, <2>6 DEF Managed, Ours, LiveIds, Admin
  <2>8. \A q \in Managed(k) : q = p
    BY <1>2, <2>3, EndsManaged
  <2>9. QED
    BY <2>4, <2>7, <2>8
<1>4. ASSUME NEW k \in Keys, desired[k] \in {"off", "deleted"} PROVE Managed(k) = {}
  <2>1. Removed(k)
    BY DEF Removed
  <2>2. rows[k] = NoRow
    BY <1>1, <1>2, <1>4, <2>1 DEF Dropped
  <2>3. QED
    BY <1>2, <2>2, EndsManaged
<1>5. QED
  BY <1>3, <1>4 DEF Converged

\* A pass reported "applied" that nobody interfered with leaves the gateway
\* enforcing exactly what the household wants (the whole of tick), by whichever of
\* the two arguments shows that its creates are findable.
THEOREM AppliedEnforces ==
  ASSUME Extends = {} \/ ~LateLanding
  PROVE  Spec => []AppliedMeansEnforced
<1>1. IInv /\ Apart /\ RowsOwn /\ FindInv /\ QuietInv /\ LostInv /\ DoneInv => AppliedMeansEnforced
  BY EndsConverged
<1>2. QED
  BY <1>1, AlwaysApart, AlwaysOwn, AlwaysFind, AlwaysQuiet, AlwaysLose, AlwaysDone, PTL

=============================================================================
