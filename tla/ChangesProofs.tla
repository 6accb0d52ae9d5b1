--------------------------- MODULE ChangesProofs ---------------------------
(***************************************************************************)
(* For every set of processes and of edits: the type invariant of Changes, *)
(* that a change is answered as enforced only by a pass that read its      *)
(* edit, and that each step is one EditPromise allows, or none.            *)
(***************************************************************************)
EXTENDS Changes, TLAPS

LEMMA TypeInductive ==
  ASSUME TypeOK, [Next]_vars
  PROVE  TypeOK'
<1> USE ChangesAssumption DEF TypeOK, InPass, Outcomes
<1>1. CASE UNCHANGED vars
  BY <1>1 DEF vars
<1>2. ASSUME NEW s \in Servers, PassStep(s)
      PROVE  TypeOK'
  <2>0. CASE ReadRevision(s)
    <3>1. plan' \in [Servers -> SUBSET Edits] /\ seen' \in [Servers -> Nat]
      BY <2>0 DEF ReadRevision, Saved
    <3>2. pump' \in [Servers -> InPass \cup {"idle", "starting", "sleeping"}]
      BY <2>0 DEF ReadRevision
    <3>3. QED
      BY <2>0, <3>1, <3>2 DEF ReadRevision, evars, budget
  <2>1. CASE Wake(s) \/ AcquireLock(s) \/ LockRefused(s)
    BY <2>1 DEF Wake, AcquireLock, LockRefused, Again, evars, budget
  <2>2. CASE ReadOwners(s) \/ ReadRules(s) \/ FinishRun(s) \/ FailRun(s)
    BY <2>2 DEF ReadOwners, ReadRules, FinishRun, FailRun, Saved, evars, budget
  <2>3. CASE Settle(s) \/ SettleFailed(s)
    BY <2>3 DEF Settle, SettleFailed, SettleAll, evars, budget
  <2>4. CASE EndPass(s)
    BY <2>4 DEF EndPass, ReleaseLock, Forget, evars, budget
  <2>5. QED
    BY <1>2, <2>0, <2>1, <2>2, <2>3, <2>4 DEF PassStep
<1>3. ASSUME NEW s \in Servers,
             PassThrows(s) \/ Boot(s) \/ Timer(s) \/ NoticeLost(s)
      PROVE  TypeOK'
  <2>1. CASE PassThrows(s)
    <3>1. holder' \in Servers \cup {Nobody, Stale}
      BY <2>1 DEF PassThrows, ReleaseLock
    <3>2. QED
      BY <2>1, <3>1 DEF PassThrows, Again, Forget, evars
  <2>2. CASE Boot(s)
    BY <2>2 DEF Boot, Request, evars, budget
  <2>3. CASE Timer(s)
    BY <2>3 DEF Timer, Request, evars, budget
  <2>4. CASE NoticeLost(s)
    BY <2>4 DEF NoticeLost, evars, budget
  <2>5. QED
    BY <1>3, <2>1, <2>2, <2>3, <2>4
<1>4. ASSUME NEW s \in Servers, Crash(s)
      PROVE  TypeOK'
  BY <1>4 DEF Crash, Forget
<1>5. ASSUME NEW e \in Edits, SaveEdit(e) \/ BumpRevision(e) \/ CreateChange(e)
      PROVE  TypeOK'
  BY <1>5 DEF SaveEdit, BumpRevision, CreateChange, budget
<1>6. ASSUME NEW e \in Edits, AskForPass(e)
      PROVE  TypeOK'
  BY <1>6 DEF AskForPass, Request, budget
<1>7. CASE Lapse
  <2>1. CASE UNCHANGED budget
    BY <1>7, <2>1 DEF Lapse, evars, budget
  <2>2. CASE ~UNCHANGED budget
    <3>1. lapsed' \in BOOLEAN
      BY <1>7, <2>2 DEF Lapse
    <3>2. faults' \in 0..MaxFaults /\ holder' = Nobody
      BY <1>7, <2>2 DEF Lapse
    <3>3. UNCHANGED <<pc, on, rev, status, revision, configured, up, queued, pump,
                      seen, plan, lost>>
      BY <1>7 DEF Lapse, evars
    <3>4. QED
      BY <3>1, <3>2, <3>3
  <2>3. QED
    BY <2>1, <2>2
<1>8. QED
  BY <1>1, <1>2, <1>3, <1>4, <1>5, <1>6, <1>7 DEF Next

LEMMA InitialTypes == Init => TypeOK
<1>1. Init => lapsed \in BOOLEAN /\ configured \in BOOLEAN
  BY DEF Init
<1>2. QED
  BY <1>1, ChangesAssumption DEF Init, TypeOK, Outcomes, InPass

\* Every variable of Changes keeps its type, whatever the processes do.
THEOREM TypeCorrect == Spec => []TypeOK
<1>1. Init => TypeOK
  BY InitialTypes
<1>2. QED
  BY <1>1, TypeInductive, PTL DEF Spec

----------------------------------------------------------------------------
(* What a pass has read by the time it settles                             *)

\* No edit, and no pass, is ahead of the household's revision; and an edit
\* that has a revision has been saved.
Numbered ==
  /\ \A e \in Edits : rev[e] <= revision
  /\ \A s \in Servers : seen[s] <= revision
  /\ \A e \in Edits : rev[e] > 0 => pc[e] # "draft"
  /\ \A e \in Edits : pc[e] \in {"bumped", "created"} => rev[e] > 0
  /\ \A e \in Edits : status[e] # "none" => rev[e] > 0

\* An edit a pass is to settle is one it has read, once it has read that far.
ReadSoFar ==
  \A s \in Servers, e \in Edits :
    rev[e] > 0 /\ rev[e] <= seen[s] =>
      /\ pump[s] = "owners" /\ e \in Connecting => e \in plan[s]
      /\ pump[s] = "rules" /\ e \notin RuleEdits => e \in plan[s]
      /\ pump[s] \in {"applying", "settling"} => e \in plan[s]

ReadInv == TypeOK /\ Numbered /\ ReadSoFar

LEMMA ReadInductive ==
  ASSUME ReadInv, [Next]_vars
  PROVE  ReadInv'
<1> USE ChangesAssumption DEF ReadInv, TypeOK, Numbered, ReadSoFar
<1>0. TypeOK'
  BY TypeInductive
<1>1. CASE UNCHANGED vars
  BY <1>1 DEF vars
<1>2. ASSUME NEW s \in Servers, PassStep(s)
      PROVE  (Numbered /\ ReadSoFar)'
  <2>1. CASE Wake(s) \/ AcquireLock(s) \/ LockRefused(s)
    BY <2>1 DEF Wake, AcquireLock, LockRefused, Again, evars, budget
  <2>2. CASE ReadRevision(s)
    BY <2>2 DEF ReadRevision, Saved, evars, budget
  <2>3. CASE ReadOwners(s)
    BY <2>3 DEF ReadOwners, Saved, evars, budget
  <2>4. CASE ReadRules(s)
    BY <2>4 DEF ReadRules, Saved, evars, budget
  <2>5. CASE FinishRun(s) \/ FailRun(s)
    BY <2>5 DEF FinishRun, FailRun, evars, budget
  <2>6. CASE Settle(s) \/ SettleFailed(s)
    BY <2>6 DEF Settle, SettleFailed, SettleAll, evars, budget
  <2>7. CASE EndPass(s)
    BY <2>7 DEF EndPass, Forget, evars, budget
  <2>8. QED
    BY <1>2, <2>1, <2>2, <2>3, <2>4, <2>5, <2>6, <2>7 DEF PassStep
<1>3. ASSUME NEW s \in Servers,
             PassThrows(s) \/ Boot(s) \/ Timer(s) \/ NoticeLost(s) \/ Crash(s)
      PROVE  (Numbered /\ ReadSoFar)'
  <2>1. CASE PassThrows(s)
    BY <2>1 DEF PassThrows, Again, Forget, evars
  <2>2. CASE Boot(s) \/ Timer(s)
    BY <2>2 DEF Boot, Timer, Request, evars, budget
  <2>3. CASE NoticeLost(s)
    BY <2>3 DEF NoticeLost, evars
  <2>4. CASE Crash(s)
    BY <2>4 DEF Crash, Forget
  <2>5. QED
    BY <1>3, <2>1, <2>2, <2>3, <2>4
<1>4. ASSUME NEW e \in Edits, SaveEdit(e)
      PROVE  (Numbered /\ ReadSoFar)'
  BY <1>4 DEF SaveEdit, budget
<1>5. ASSUME NEW e \in Edits, BumpRevision(e)
      PROVE  (Numbered /\ ReadSoFar)'
  BY <1>5 DEF BumpRevision, budget
<1>6. ASSUME NEW e \in Edits, CreateChange(e) \/ AskForPass(e)
      PROVE  (Numbered /\ ReadSoFar)'
  BY <1>6 DEF CreateChange, AskForPass, Request, budget
<1>7. CASE Lapse
  <2>1. UNCHANGED <<pc, rev, status, revision, pump, seen, plan>>
    BY <1>7 DEF Lapse, evars
  <2>2. QED
    BY <1>0, <2>1
<1>8. QED
  BY <1>0, <1>1, <1>2, <1>3, <1>4, <1>5, <1>6, <1>7 DEF Next

LEMMA ReadStep ==
  ASSUME ReadInv, [Next]_vars
  PROVE  \A e \in Edits : status[e] = "pending" /\ status'[e] \in {"applied", "partial"} =>
           \E s \in Servers : pump[s] = "settling" /\ pump'[s] = "ending" /\ e \in plan[s]
<1> SUFFICES ASSUME NEW e \in Edits, status[e] = "pending",
                    status'[e] \in {"applied", "partial"}
             PROVE  \E s \in Servers :
                      pump[s] = "settling" /\ pump'[s] = "ending" /\ e \in plan[s]
  OBVIOUS
<1> USE DEF ReadInv, TypeOK
<1>1. CASE UNCHANGED vars
  BY <1>1 DEF vars
<1>2. ASSUME NEW s \in Servers, Settle(s)
      PROVE  pump[s] = "settling" /\ pump'[s] = "ending" /\ e \in plan[s]
  BY <1>2 DEF Settle, SettleAll, Numbered, ReadSoFar
<1>3. ASSUME NEW s \in Servers, SettleFailed(s)
      PROVE  FALSE
  BY <1>3 DEF SettleFailed, SettleAll
<1>4. ASSUME NEW s \in Servers, PassStep(s), ~Settle(s), ~SettleFailed(s)
      PROVE  FALSE
  BY <1>4 DEF PassStep, Wake, AcquireLock, LockRefused, ReadRevision, ReadOwners,
              ReadRules, FinishRun, FailRun, EndPass
<1>5. ASSUME NEW s \in Servers,
             PassThrows(s) \/ Boot(s) \/ Timer(s) \/ NoticeLost(s) \/ Crash(s)
      PROVE  FALSE
  BY <1>5 DEF PassThrows, Boot, Timer, NoticeLost, Crash
<1>6. ASSUME NEW f \in Edits,
             SaveEdit(f) \/ BumpRevision(f) \/ CreateChange(f) \/ AskForPass(f)
      PROVE  FALSE
  BY <1>6 DEF SaveEdit, BumpRevision, CreateChange, AskForPass
<1>7. CASE Lapse
  BY <1>7 DEF Lapse
<1>8. QED
  BY <1>1, <1>2, <1>3, <1>4, <1>5, <1>6, <1>7 DEF Next

\* A change is answered "applied" or "partial" only by a pass that read its
\* edit, for any number of processes, edits and faults.
THEOREM AppliedOnlyIfRead == Spec => AppliedWasRead
<1>1. Init => ReadInv
  BY InitialTypes DEF Init, ReadInv, Numbered, ReadSoFar
<1>2. ReadInv /\ [Next]_vars => ReadInv'
  BY ReadInductive
<1>3. ReadInv /\ [Next]_vars =>
        [\A e \in Edits : status[e] = "pending" /\ status'[e] \in {"applied", "partial"} =>
           \E s \in Servers : pump[s] = "settling" /\ pump'[s] = "ending" /\ e \in plan[s]]_vars
  BY ReadStep
<1>4. QED
  BY <1>1, <1>2, <1>3, PTL DEF Spec, AppliedWasRead

----------------------------------------------------------------------------
(* The promise: each step answers edits the way EditPromise allows         *)

Connected == \A s \in Servers :
  pump[s] \in {"owners", "rules", "applying", "settling", "failing"} => configured

Unanswered == \A e \in Edits :
  pc[e] \in {"draft", "saved", "bumped"} => status[e] = "none"

PromiseInv == TypeOK /\ Connected /\ Unanswered

LEMMA PromiseInvInductive ==
  ASSUME PromiseInv, [Next]_vars
  PROVE  PromiseInv'
<1> USE DEF PromiseInv, TypeOK, Connected, Unanswered
<1>0. TypeOK'
  BY TypeInductive
<1>1. CASE UNCHANGED vars
  BY <1>0, <1>1 DEF vars
<1>2. ASSUME NEW s \in Servers, PassStep(s)
      PROVE  (Connected /\ Unanswered)'
  <2>1. CASE Wake(s) \/ AcquireLock(s) \/ LockRefused(s) \/ ReadRevision(s)
    BY <2>1 DEF Wake, AcquireLock, LockRefused, ReadRevision, Again, evars
  <2>2. CASE ReadOwners(s) \/ ReadRules(s) \/ FinishRun(s) \/ FailRun(s) \/ EndPass(s)
    BY <2>2 DEF ReadOwners, ReadRules, FinishRun, FailRun, EndPass, evars
  <2>3. CASE Settle(s) \/ SettleFailed(s)
    BY <2>3 DEF Settle, SettleFailed, SettleAll, evars
  <2>4. QED
    BY <1>2, <2>1, <2>2, <2>3 DEF PassStep
<1>3. ASSUME NEW s \in Servers,
             PassThrows(s) \/ Boot(s) \/ Timer(s) \/ NoticeLost(s) \/ Crash(s)
      PROVE  (Connected /\ Unanswered)'
  BY <1>3 DEF PassThrows, Boot, Timer, NoticeLost, Crash, Request, Again, evars
<1>4. ASSUME NEW e \in Edits,
             SaveEdit(e) \/ BumpRevision(e) \/ CreateChange(e) \/ AskForPass(e)
      PROVE  (Connected /\ Unanswered)'
  BY <1>4 DEF SaveEdit, BumpRevision, CreateChange, AskForPass, Request
<1>5. CASE Lapse
  BY <1>0, <1>5 DEF Lapse, evars
<1>6. QED
  BY <1>0, <1>1, <1>2, <1>3, <1>4, <1>5 DEF Next

LEMMA AnswersUnchanged ==
  ASSUME UNCHANGED <<status, configured>>,
         \A e \in Edits : pc[e] = "draft" <=> pc'[e] = "draft"
  PROVE  UNCHANGED Promise!avars
<1>1. \A e \in Edits : AnswerOf(e)' = AnswerOf(e)
  BY DEF AnswerOf
<1>2. QED
  BY <1>1 DEF Promise!avars

LEMMA PromiseStep ==
  ASSUME PromiseInv, [Next]_vars
  PROVE  [Promise!Next]_(Promise!avars)
<1> USE DEF PromiseInv, TypeOK
<1>1. CASE UNCHANGED vars
  BY <1>1, AnswersUnchanged DEF vars
<1>2. ASSUME NEW s \in Servers, NEW o \in Outcomes, SettleAll(s, o), configured,
             UNCHANGED <<pc, configured>>
      PROVE  Promise!Answer
  <2> DEFINE E == {e \in Edits : status[e] = "pending" /\ rev[e] <= seen[s]}
  <2>1. \A e \in Edits : AnswerOf(e)' = IF e \in E THEN o ELSE AnswerOf(e)
    BY <1>2 DEF SettleAll, AnswerOf, Outcomes
  <2>2. E \in SUBSET {e \in Edits : AnswerOf(e) = "pending"}
    BY DEF AnswerOf
  <2>3. QED
    BY <1>2, <2>1, <2>2 DEF Promise!Answer, Promise!Outcomes, Outcomes
<1>3. ASSUME NEW s \in Servers, PassStep(s)
      PROVE  [Promise!Next]_(Promise!avars)
  <2>1. CASE Settle(s)
    <3>1. configured /\ UNCHANGED <<pc, configured>>
      BY <2>1 DEF Settle, Connected, evars
    <3>2. PICK o \in {"applied", "partial"} : SettleAll(s, o)
      BY <2>1 DEF Settle
    <3>3. QED
      BY <1>2, <3>1, <3>2 DEF Outcomes, Promise!Next
  <2>2. CASE SettleFailed(s) /\ ~lost[s]
    <3>1. configured /\ UNCHANGED <<pc, configured>>
      BY <2>2 DEF SettleFailed, Connected, evars
    <3>2. SettleAll(s, "failed")
      BY <2>2 DEF SettleFailed
    <3>3. QED
      BY <1>2, <3>1, <3>2 DEF Outcomes, Promise!Next
  <2>3. CASE SettleFailed(s) /\ lost[s]
    BY <2>3, AnswersUnchanged DEF SettleFailed, evars
  <2>4. CASE ~Settle(s) /\ ~SettleFailed(s)
    <3>1. UNCHANGED <<pc, status, configured>>
      BY <1>3, <2>4 DEF PassStep, Wake, AcquireLock, LockRefused, ReadRevision,
         ReadOwners, ReadRules, FinishRun, FailRun, EndPass, evars
    <3>2. QED
      BY <3>1, AnswersUnchanged
  <2>5. QED
    BY <2>1, <2>2, <2>3, <2>4
<1>4. ASSUME NEW s \in Servers, PassThrows(s) \/ Boot(s) \/ Timer(s) \/ NoticeLost(s)
      PROVE  UNCHANGED Promise!avars
  <2>1. UNCHANGED <<pc, status, configured>>
    BY <1>4 DEF PassThrows, Boot, Timer, NoticeLost, evars
  <2>2. QED
    BY <2>1, AnswersUnchanged
<1>5. ASSUME NEW s \in Servers, Crash(s)
      PROVE  [Promise!Next]_(Promise!avars)
  <2>1. CASE \A e \in Edits : pc[e] = "draft" <=> pc'[e] = "draft"
    BY <1>5, <2>1, AnswersUnchanged DEF Crash
  <2>2. \A e \in Edits : pc[e] = "draft" <=> pc'[e] = "draft"
    BY <1>5 DEF Crash
  <2>3. QED
    BY <2>1, <2>2
<1>6. ASSUME NEW e \in Edits, SaveEdit(e)
      PROVE  Promise!Save(e)
  <2>1. \A f \in Edits : AnswerOf(f)' = IF f = e THEN "saved" ELSE AnswerOf(f)
    BY <1>6 DEF SaveEdit, AnswerOf, Unanswered
  <2>2. AnswerOf(e) = "draft"
    BY <1>6 DEF SaveEdit, AnswerOf, Unanswered
  <2>3. configured' \in {configured, TRUE}
    BY <1>6 DEF SaveEdit
  <2>4. QED
    BY <2>1, <2>2, <2>3 DEF Promise!Save
<1>7. ASSUME NEW e \in Edits, CreateChange(e)
      PROVE  Promise!Announce(e)
  <2>1. \A f \in Edits : AnswerOf(f)' = IF f = e THEN "pending" ELSE AnswerOf(f)
    BY <1>7 DEF CreateChange, AnswerOf
  <2>2. AnswerOf(e) = "saved"
    BY <1>7 DEF CreateChange, AnswerOf, Unanswered
  <2>3. QED
    BY <1>7, <2>1, <2>2 DEF CreateChange, Promise!Announce
<1>8. ASSUME NEW e \in Edits, BumpRevision(e) \/ AskForPass(e)
      PROVE  UNCHANGED Promise!avars
  BY <1>8, AnswersUnchanged DEF BumpRevision, AskForPass
<1>9. CASE Lapse
  BY <1>9, AnswersUnchanged DEF Lapse, evars
<1>10. QED
  BY <1>1, <1>3, <1>4, <1>5, <1>6, <1>7, <1>8, <1>9 DEF Next, Promise!Next

\* The safety half of PromiseKept, for any processes, edits and faults: an
\* announced edit is answered at most once, by a pass of a household with a
\* gateway, and nothing unannounced is ever answered.
THEOREM PromiseSafe == Spec => Promise!Init /\ [][Promise!Next]_(Promise!avars)
<1>1. Init => PromiseInv
  BY InitialTypes DEF Init, PromiseInv, Connected, Unanswered
<1>2. PromiseInv /\ [Next]_vars => PromiseInv'
  BY PromiseInvInductive
<1>3. Init => Promise!Init
  BY InitialTypes DEF Init, TypeOK, Promise!Init, AnswerOf
<1>4. PromiseInv /\ [Next]_vars => [Promise!Next]_(Promise!avars)
  BY PromiseStep
<1>5. QED
  BY <1>1, <1>2, <1>3, <1>4, PTL DEF Spec

----------------------------------------------------------------------------
(* No announced change is forgotten                                        *)

\* A pass that no lease ran out under holds the lock and knows of no loss, and
\* what a process knows of a loss ends with its pass.
Held ==
  /\ \A s \in Servers : lost[s] => pump[s] \in InPass
  /\ ~lapsed => \A s \in Servers : pump[s] \in InPass => holder = s /\ ~lost[s]

\* A request under way is served by a process that is up.
Served == \A e \in Edits :
  pc[e] \in {"saved", "bumped", "created"} => on[e] \in Servers

ForgottenInv == TypeOK /\ Numbered /\ Held /\ Served /\ NeverForgotten

LEMMA HeldInductive ==
  ASSUME TypeOK, Held, [Next]_vars
  PROVE  Held'
<1> USE ChangesAssumption DEF TypeOK, Held, InPass
<1>1. CASE UNCHANGED vars
  BY <1>1 DEF vars
<1>2. ASSUME NEW s \in Servers, PassStep(s)
      PROVE  Held'
  <2>1. CASE Wake(s) \/ AcquireLock(s) \/ LockRefused(s) \/ ReadRevision(s)
    BY <2>1 DEF Wake, AcquireLock, LockRefused, ReadRevision, Again, evars, budget
  <2>2. CASE ReadOwners(s) \/ ReadRules(s) \/ FinishRun(s) \/ FailRun(s)
    BY <2>2 DEF ReadOwners, ReadRules, FinishRun, FailRun, evars, budget
  <2>3. CASE Settle(s) \/ SettleFailed(s)
    BY <2>3 DEF Settle, SettleFailed, evars, budget
  <2>4. CASE EndPass(s)
    BY <2>4 DEF EndPass, ReleaseLock, Forget, evars, budget
  <2>5. QED
    BY <1>2, <2>1, <2>2, <2>3, <2>4 DEF PassStep
<1>3. ASSUME NEW s \in Servers, PassThrows(s)
      PROVE  Held'
  <2>1. holder' = holder \/ holder = s
    BY <1>3 DEF PassThrows, ReleaseLock
  <2>2. QED
    BY <1>3, <2>1 DEF PassThrows, Again, Forget, evars
<1>4. ASSUME NEW s \in Servers, Boot(s) \/ Timer(s) \/ NoticeLost(s) \/ Crash(s)
      PROVE  Held'
  BY <1>4 DEF Boot, Timer, NoticeLost, Crash, Request, Forget, evars, budget
<1>5. ASSUME NEW e \in Edits,
             SaveEdit(e) \/ BumpRevision(e) \/ CreateChange(e) \/ AskForPass(e)
      PROVE  Held'
  BY <1>5 DEF SaveEdit, BumpRevision, CreateChange, AskForPass, Request, budget
<1>6. CASE Lapse
  BY <1>6 DEF Lapse, evars, budget
<1>7. QED
  BY <1>1, <1>2, <1>3, <1>4, <1>5, <1>6 DEF Next

LEMMA ServedInductive ==
  ASSUME TypeOK, Served, [Next]_vars
  PROVE  Served'
<1> USE DEF TypeOK, Served
<1>1. CASE UNCHANGED <<pc, on>>
  BY <1>1
<1>2. ASSUME NEW s \in Servers, Crash(s)
      PROVE  Served'
  BY <1>2 DEF Crash
<1>3. ASSUME NEW e \in Edits,
             SaveEdit(e) \/ BumpRevision(e) \/ CreateChange(e) \/ AskForPass(e)
      PROVE  Served'
  BY <1>3 DEF SaveEdit, BumpRevision, CreateChange, AskForPass
<1>4. ASSUME NEW s \in Servers,
             PassStep(s) \/ PassThrows(s) \/ Boot(s) \/ Timer(s) \/ NoticeLost(s)
      PROVE  UNCHANGED <<pc, on>>
  BY <1>4 DEF PassStep, Wake, AcquireLock, LockRefused, ReadRevision, ReadOwners, ReadRules,
     FinishRun, FailRun, Settle, SettleFailed, EndPass, PassThrows, Boot, Timer, NoticeLost, evars
<1>5. QED
  BY <1>1, <1>2, <1>3, <1>4 DEF Next, vars, Lapse, evars

LEMMA CoverKept ==
  ASSUME ForgottenInv, [Next]_vars
  PROVE  NeverForgotten'
<1> SUFFICES ASSUME ~lapsed', configured', NEW e \in Edits,
                    status'[e] = "pending", pc'[e] = "done"
             PROVE  Covered(e)'
  BY DEF NeverForgotten
<1> USE ChangesAssumption DEF ForgottenInv, TypeOK, InPass
\* An edit saved before stays covered while no process and no connection moves.
<1>0. ASSUME UNCHANGED <<pc, rev, up, queued, pump, seen>>, Covered(e)
      PROVE  Covered(e)'
  BY <1>0 DEF Covered
<1>1. CASE UNCHANGED vars
  BY <1>0, <1>1 DEF vars, NeverForgotten
<1>2. ASSUME NEW s \in Servers, PassStep(s)
      PROVE  Covered(e)'
  <2>0. ~lapsed /\ configured /\ pc[e] = "done" /\ UNCHANGED <<pc, rev, up>>
    BY <1>2 DEF PassStep, Wake, AcquireLock, LockRefused, ReadRevision, ReadOwners, ReadRules,
       FinishRun, FailRun, Settle, SettleFailed, EndPass, evars, budget
  <2>1. CASE Wake(s) \/ AcquireLock(s) \/ LockRefused(s)
    BY <2>0, <2>1 DEF Wake, AcquireLock, LockRefused, Again, NeverForgotten, Covered
  <2>2. CASE ReadRevision(s)
    BY <2>0, <2>2 DEF ReadRevision, Covered, Numbered
  <2>3. CASE ReadOwners(s) \/ ReadRules(s) \/ FinishRun(s) \/ FailRun(s)
    BY <2>0, <2>3 DEF ReadOwners, ReadRules, FinishRun, FailRun, NeverForgotten, Covered
  <2>4. CASE Settle(s) \/ SettleFailed(s)
    <3>1. PICK o \in Outcomes : SettleAll(s, o)
      BY <2>0, <2>4 DEF Settle, SettleFailed, Held, Outcomes
    <3>2. status[e] = "pending" /\ ~(rev[e] <= seen[s])
      BY <3>1 DEF SettleAll, Outcomes
    <3>3. QED
      BY <2>0, <2>4, <3>2 DEF Settle, SettleFailed, NeverForgotten, Covered
  <2>5. CASE EndPass(s)
    BY <2>0, <2>5 DEF EndPass, Forget, NeverForgotten, Covered
  <2>6. QED
    BY <1>2, <2>1, <2>2, <2>3, <2>4, <2>5 DEF PassStep
<1>3. ASSUME NEW s \in Servers, PassThrows(s) \/ Crash(s)
      PROVE  Covered(e)'
  BY <1>3 DEF PassThrows, Crash, Again, Covered
<1>4. ASSUME NEW s \in Servers, Boot(s) \/ Timer(s)
      PROVE  Covered(e)'
  BY <1>4 DEF Boot, Timer, Request, Covered
<1>5. ASSUME NEW s \in Servers, NoticeLost(s)
      PROVE  Covered(e)'
  BY <1>0, <1>5 DEF NoticeLost, NeverForgotten, evars, budget
<1>6. ASSUME NEW f \in Edits, SaveEdit(f)
      PROVE  Covered(e)'
  <2>1. CASE f \in Connecting
    BY <1>6, <2>1 DEF SaveEdit, Covered
  <2>2. CASE f \notin Connecting
    BY <1>6, <2>2 DEF SaveEdit, NeverForgotten, Covered, budget
  <2>3. QED
    BY <2>1, <2>2
<1>7. ASSUME NEW f \in Edits, BumpRevision(f) \/ CreateChange(f)
      PROVE  Covered(e)'
  <2>1. e # f /\ status[e] = "pending" /\ pc[e] = "done" /\ rev'[e] = rev[e]
    BY <1>7 DEF BumpRevision, CreateChange
  <2>2. Covered(e) /\ UNCHANGED <<up, queued, pump, seen>>
    BY <1>7, <2>1 DEF BumpRevision, CreateChange, NeverForgotten, budget
  <2>3. \A c \in Connecting : pc[c] \in {"saved", "bumped", "created"} =>
                               pc'[c] \in {"saved", "bumped", "created"}
    BY <1>7 DEF BumpRevision, CreateChange
  <2>4. QED
    BY <2>1, <2>2, <2>3 DEF Covered
<1>8. ASSUME NEW f \in Edits, AskForPass(f)
      PROVE  Covered(e)'
  <2>1. on[f] \in Servers
    BY <1>8 DEF AskForPass, Served
  <2>2. queued'[on[f]] \/ pump'[on[f]] = "starting"
    BY <1>8, <2>1 DEF AskForPass, Request
  <2>3. QED
    BY <2>1, <2>2 DEF Covered
<1>9. CASE Lapse
  BY <1>0, <1>9 DEF Lapse, NeverForgotten, evars, budget
<1>10. QED
  BY <1>1, <1>2, <1>3, <1>4, <1>5, <1>6, <1>7, <1>8, <1>9 DEF Next

\* As long as no lease ran out under a living pass, every announced change is
\* covered by a pass that runs or is asked for, for any processes and edits.
THEOREM NoneForgotten == Spec => []NeverForgotten
<1>1. Init => ReadInv /\ ForgottenInv
  BY InitialTypes DEF Init, ReadInv, Numbered, ReadSoFar, ForgottenInv, Held, Served,
     NeverForgotten, InPass
<1>2. ReadInv /\ ForgottenInv /\ [Next]_vars => (ReadInv /\ ForgottenInv)'
  BY ReadInductive, HeldInductive, ServedInductive, CoverKept DEF ReadInv, ForgottenInv
<1>3. ForgottenInv => NeverForgotten
  BY DEF ForgottenInv
<1>4. QED
  BY <1>1, <1>2, <1>3, PTL DEF Spec

=============================================================================
