-------------------------- MODULE AttendanceJobProofs --------------------------
(***************************************************************************)
(* Proofs about AttendanceJob, for every set of rows and slots, every block *)
(* structure and every bound.                                              *)
(*                                                                         *)
(* Results without further assumption, so also when job locks are lost:    *)
(* TypeCorrect, AuditedSubmissions, EarnedSuccesses, FinalSuccesses.       *)
(* Results for ~LockLoss, where BullMQ runs a job in one slot at a time:   *)
(* SingleSubmission and ImplementsLedger.  ClosedBlocks needs all of       *)
(* OneRunPerWindow.                                                        *)
(***************************************************************************)
EXTENDS AttendanceJob, TLAPS

(***************************************************************************)
(* What every operation keeps, lost locks or not.                          *)
(***************************************************************************)

\* A slot that runs has a key; only a slot that runs has a lock.
RunsHaveKeys ==
  \A w \in Slot :
    /\ pc[w] # "idle" => cur[w] \in SubmitKey
    /\ owns[w] => pc[w] # "idle"

\* The audit precedes the adapter call, and what follows from the adapter call.
AuditFirst ==
  /\ \A w \in Slot : pc[w] \in {"page", "post"} => cur[w] \in audit
  /\ \A k \in SubmitKey : posts[k] > 0 => k \in audit

\* The outcome "success" is known only from the attendance system.
OutcomeEarned ==
  /\ \A w \in Slot : out[w] = "success" =>
       /\ pc[w] # "idle"
       /\ cur[w] \in audit
       /\ Block[cur[w][1]] \cap attended # {}
  /\ \A k \in SubmitKey : log[k] = "success" =>
       /\ k \in audit
       /\ Block[k[1]] \cap attended # {}

\* A slot has an outcome when it saves one, and none before.
OutcomeInTime ==
  \A w \in Slot :
    /\ pc[w] \in {"idle", "check", "claim", "find", "prior", "reclaim", "pre", "page", "post"}
         => out[w] = "none"
    /\ pc[w] \in {"save", "create", "retry"} => out[w] # "none"

IInv == TypeOK /\ RunsHaveKeys /\ AuditFirst /\ OutcomeEarned /\ OutcomeInTime

(***************************************************************************)
(* What holds besides while a job runs in one slot at a time.              *)
(***************************************************************************)

\* Every run holds the lock of an active job, and no two runs share a job.
OneRunPerKey ==
  /\ \A w \in Slot : pc[w] # "idle" => owns[w] /\ jobs[cur[w]] = "active"
  /\ \A v, w \in Slot :
       (pc[v] # "idle" /\ pc[w] # "idle" /\ cur[v] = cur[w]) => v = w

\* A run past its claim has a row; an audited key has one too, so a fresh create
\* cannot win it.
ClaimedRow ==
  /\ \A w \in Slot :
       pc[w] \in {"find", "prior", "reclaim", "pre", "page", "post"} => log[cur[w]] # "none"
  /\ \A k \in audit : log[k] # "none"

\* Before its audit a claimed run has no earlier try; after it, nothing is sent.
FreshClaim ==
  /\ \A w \in Slot : pc[w] \in {"reclaim", "pre"} => cur[w] \notin audit
  /\ \A w \in Slot : pc[w] \in {"page", "post"} => posts[cur[w]] = 0
  /\ \A k \in SubmitKey : posts[k] <= 1

EInv == IInv /\ OneRunPerKey /\ ClaimedRow /\ FreshClaim
-------------------------------------------------------------------------------
(* Type correctness.                                                       *)

LEMMA KeyShape ==
  ASSUME NEW k \in SubmitKey
  PROVE  /\ k[1] \in Row
         /\ k[2] \in Method
         /\ k \in LogKey
         /\ k = <<k[1], k[2]>>
  BY DEF SubmitKey, LogKey

LEMMA TypeInit == Init => TypeOK
  BY ConfigAssumption, TimeAssumption
  DEF Init, TypeOK, Pc, Status, Clock

SlotTypes ==
  /\ pc \in [Slot -> Pc]
  /\ cur \in [Slot -> SubmitKey \cup {None}]
  /\ out \in [Slot -> {"none", "skipped", "failed", "success"}]
  /\ throws \in [Slot -> BOOLEAN]
  /\ owns \in [Slot -> BOOLEAN]

LEMMA SaveNextTypes ==
  ASSUME TypeOK, NEW w \in Slot,
         NEW s \in {"skipped", "failed", "success"}, NEW b \in BOOLEAN,
         SaveNext(w, s, b)
  PROVE  SlotTypes'
  BY DEF TypeOK, SlotTypes, SaveNext, Goto, Pc

\* Every step keeps the types.
LEMMA TypeStep ==
  ASSUME TypeOK, RunsHaveKeys, [Next]_vars
  PROVE  TypeOK'
<1> USE KeyShape, ConfigAssumption, TimeAssumption
    DEF TypeOK, Pc, Status, Clock, Goto, Release, Settle, SaveNext, Enqueue,
        environVars, webVars, queueVars, outsideVars, localVars, slotVars
<1>1. ASSUME NEW r \in Row, Submit(r) PROVE TypeOK'
  BY <1>1 DEF Submit, SubmitKey, Method
<1>2. ASSUME NEW r \in Row, ScheduleAuto(r) PROVE TypeOK'
  BY <1>2 DEF ScheduleAuto, SubmitKey, Method
<1>3. ASSUME NEW r \in Row, ScanQr(r) PROVE TypeOK'
  BY <1>3 DEF ScanQr, Room
<1>4. ASSUME NEW r \in Row, MarkManual(r) PROVE TypeOK'
  BY <1>4, BlockAssumption DEF MarkManual
<1>5. ASSUME NEW r \in Row, RecordManual(r) PROVE TypeOK'
  BY <1>5 DEF RecordManual, LogKey
<1>6. ASSUME NEW m \in Room, ExpireSession(m) PROVE TypeOK'
  BY <1>6 DEF ExpireSession
<1>7. ASSUME NEW m \in Modes, SetMode(m) PROVE TypeOK'
  BY <1>7 DEF SetMode
<1>8. ASSUME AbandonManual PROVE TypeOK'
  BY <1>8 DEF AbandonManual
<1>9. ASSUME Tick PROVE TypeOK'
  BY <1>9 DEF Tick
<1>10. ASSUME Crash PROVE TypeOK'
  BY <1>10 DEF Crash, Mishap
<1>11. ASSUME NEW w \in Slot, WorkerStep(w) PROVE TypeOK'
  <2>0. /\ out[w] \in Status
        /\ \A k : [log EXCEPT ![k] = out[w]] \in [LogKey -> Status]
    <3>1. out[w] \in Status
      OBVIOUS
    <3>2. log \in [LogKey -> Status]
      OBVIOUS
    <3>3. QED BY ONLY <3>1, <3>2
  <2>1. ASSUME NEW j \in SubmitKey, Take(w, j) PROVE TypeOK'
    BY <2>1 DEF Take
  <2>2. ASSUME Check(w) PROVE TypeOK'
    <3>1. SlotTypes'
      <4>1. CASE SaveNext(w, "skipped", FALSE)
        BY <4>1, SaveNextTypes
      <4>2. CASE Goto(w, "claim") /\ UNCHANGED localVars
        BY <4>2 DEF SlotTypes
      <4>3. QED BY ONLY <2>2, <4>1, <4>2 DEF Check
    <3>2. UNCHANGED <<environVars, log, audit, queueVars, outsideVars, told>>
      BY ONLY <2>2 DEF Check
    <3>3. QED BY <3>1, <3>2 DEF SlotTypes
  <2>3. ASSUME ClaimCreate(w) PROVE TypeOK'
    <3>1. log' = log \/ log' = [log EXCEPT ![cur[w]] = "pending"]
      BY ONLY <2>3 DEF ClaimCreate
    <3>2. log' \in [LogKey -> Status]
      BY <3>1
    <3>3. SlotTypes'
      <4>1. \E l \in {"pre", "find"} : Goto(w, l)
        BY ONLY <2>3 DEF ClaimCreate
      <4>2. UNCHANGED localVars
        BY <2>3 DEF ClaimCreate
      <4>3. QED BY <4>1, <4>2 DEF SlotTypes
    <3>4. QED BY <2>3, <3>2, <3>3 DEF ClaimCreate, SlotTypes
  <2>4. ASSUME ClaimFind(w) PROVE TypeOK'
    BY <2>4 DEF ClaimFind
  <2>5. ASSUME ClaimPrior(w) PROVE TypeOK'
    BY <2>5 DEF ClaimPrior
  <2>6. ASSUME ClaimReclaim(w) PROVE TypeOK'
    BY <2>6 DEF ClaimReclaim
  <2>7. ASSUME PreAttempt(w) PROVE TypeOK'
    BY <2>7 DEF PreAttempt, RecordAuditRequired, RunsHaveKeys
  <2>8. ASSUME OpenPage(w) PROVE TypeOK'
    <3>1. SlotTypes'
      <4>1. CASE \E s \in {"failed", "success"}, b \in BOOLEAN : SaveNext(w, s, b)
        BY <4>1, SaveNextTypes
      <4>2. CASE Goto(w, "post") /\ UNCHANGED localVars
        BY <4>2 DEF SlotTypes
      <4>3. QED BY <2>8, <4>1, <4>2 DEF OpenPage
    <3>2. QED BY <2>8, <3>1 DEF OpenPage, SlotTypes
  <2>9. ASSUME PostForm(w) PROVE TypeOK'
    <3>1. cur[w] \in SubmitKey /\ cur[w][1] \in Row /\ posts[cur[w]] \in Nat
      BY <2>9 DEF PostForm, RunsHaveKeys
    <3>2. posts' \in [SubmitKey -> Nat] /\ attended' \in SUBSET Row
      BY <2>9, <3>1 DEF PostForm
    <3>3. SlotTypes'
      <4>1. \E s \in {"failed", "success"}, b \in BOOLEAN : SaveNext(w, s, b)
        BY ONLY <2>9 DEF PostForm
      <4>2. QED BY <4>1, SaveNextTypes
    <3>4. QED BY <2>9, <3>2, <3>3 DEF PostForm, SlotTypes
  <2>10. ASSUME SaveUpdate(w) PROVE TypeOK'
    BY <2>0, <2>10, SMTT(30) DEF SaveUpdate
  <2>11. ASSUME SaveCreate(w) PROVE TypeOK'
    BY <2>0, <2>11, SMTT(30) DEF SaveCreate
  <2>12. ASSUME SaveRetry(w) PROVE TypeOK'
    BY <2>0, <2>12, SMTT(30) DEF SaveRetry
  <2>13. ASSUME Notify(w) PROVE TypeOK'
    BY <2>13 DEF Notify
  <2>14. ASSUME Finish(w) PROVE TypeOK'
    BY <2>14 DEF Finish
  <2>15. QED
    BY <1>11, <2>1, <2>2, <2>3, <2>4, <2>5, <2>6, <2>7, <2>8, <2>9, <2>10,
       <2>11, <2>12, <2>13, <2>14 DEF WorkerStep
<1>12. ASSUME NEW w \in Slot, Fault(w) PROVE TypeOK'
  <2>1. jobs' \in [SubmitKey -> {"none", "waiting", "active", "completed"}]
    BY <1>12 DEF Fault
  <2>2. pc' \in [Slot -> Pc] /\ out' \in [Slot -> {"none", "skipped", "failed", "success"}]
    BY <1>12 DEF Fault
  <2>3. QED BY <1>12, <2>1, <2>2 DEF Fault, Mishap
<1>13. ASSUME NEW w \in Slot, CreateFault(w) PROVE TypeOK'
  BY <1>13 DEF CreateFault, Mishap
<1>14. ASSUME NEW w \in Slot, LoseLock(w) PROVE TypeOK'
  BY <1>14 DEF LoseLock, Mishap
<1>15. ASSUME NEW j \in SubmitKey, Redeliver(j) PROVE TypeOK'
  BY <1>15 DEF Redeliver
<1>16. ASSUME NEW j \in SubmitKey, EvictCompleted(j) PROVE TypeOK'
  BY <1>16 DEF EvictCompleted
<1>17. CASE UNCHANGED vars
  BY <1>17 DEF vars
<1>18. QED
  BY <1>1, <1>2, <1>3, <1>4, <1>5, <1>6, <1>7, <1>8, <1>9, <1>10, <1>11,
     <1>12, <1>13, <1>14, <1>15, <1>16, <1>17 DEF Next
-------------------------------------------------------------------------------
(* The invariant that needs no assumption on locks.                        *)

\* The steps of the web application, the scheduler, the clock and the queue
\* leave the runs, the logs and the attendance system alone.
LEMMA QuietSteps ==
  ASSUME [Next]_vars
  PROVE  \/ UNCHANGED <<slotVars, log, audit, outsideVars>>
         \/ \E r \in Row : RecordManual(r)
         \/ Crash
         \/ \E w \in Slot :
              WorkerStep(w) \/ Fault(w) \/ CreateFault(w) \/ LoseLock(w)
  BY DEF Next, vars, Submit, ScheduleAuto, ScanQr, MarkManual, ExpireSession,
         SetMode, AbandonManual, Tick, Redeliver, EvictCompleted

Strengthening == RunsHaveKeys /\ AuditFirst /\ OutcomeEarned /\ OutcomeInTime

LEMMA IInit == Init => IInv
<1> SUFFICES ASSUME Init PROVE IInv
  OBVIOUS
<1>1. TypeOK
  BY TypeInit
<1>2. \A k \in SubmitKey : k \in LogKey
  BY KeyShape
<1>3. QED
  BY <1>1, <1>2 DEF Init, IInv, RunsHaveKeys, AuditFirst, OutcomeEarned, OutcomeInTime

\* One step of a slot that is running keeps the invariant.
LEMMA RunStep ==
  ASSUME IInv, NEW w \in Slot, WorkerStep(w)
  PROVE  Strengthening'
<1> USE KeyShape
    DEF TypeOK, Goto, SaveNext, environVars, localVars, outsideVars,
        RunsHaveKeys, AuditFirst, OutcomeEarned, OutcomeInTime, Strengthening, IInv
<1>1. ASSUME NEW j \in SubmitKey, Take(w, j) PROVE Strengthening'
  BY <1>1, SMTT(30) DEF Take
<1>2. ASSUME Check(w) PROVE Strengthening'
  <2>1. CASE Goto(w, "claim") /\ UNCHANGED localVars
    BY <1>2, <2>1 DEF Check
  <2>2. CASE SaveNext(w, "skipped", FALSE)
    BY <1>2, <2>2 DEF Check
  <2>3. QED BY ONLY <1>2, <2>1, <2>2 DEF Check
<1>3. ASSUME ClaimCreate(w) PROVE Strengthening'
  BY <1>3 DEF ClaimCreate
<1>4. ASSUME ClaimFind(w) PROVE Strengthening'
  BY <1>4 DEF ClaimFind
<1>5. ASSUME ClaimPrior(w) PROVE Strengthening'
  BY <1>5 DEF ClaimPrior
<1>6. ASSUME ClaimReclaim(w) PROVE Strengthening'
  BY <1>6 DEF ClaimReclaim
<1>7. ASSUME PreAttempt(w) PROVE Strengthening'
  BY <1>7 DEF PreAttempt, RecordAuditRequired
<1>8. ASSUME OpenPage(w) PROVE Strengthening'
  <2>1. CASE SaveNext(w, "success", FALSE) /\ Block[cur[w][1]] \cap attended # {}
    BY <1>8, <2>1 DEF OpenPage
  <2>2. CASE Goto(w, "post") /\ UNCHANGED localVars
    BY <1>8, <2>2 DEF OpenPage
  <2>3. ASSUME NEW b \in BOOLEAN, SaveNext(w, "failed", b) PROVE Strengthening'
    BY <1>8, <2>3 DEF OpenPage
  <2>4. QED BY ONLY <1>8, <2>1, <2>2, <2>3 DEF OpenPage
<1>9. ASSUME PostForm(w) PROVE Strengthening'
  <2>1. /\ cur[w] \in SubmitKey /\ cur[w] \in audit
        /\ cur[w][1] \in Row /\ cur[w][1] \in Block[cur[w][1]]
    BY <1>9, BlockAssumption DEF PostForm
  <2>2. \E s \in {"failed", "success"}, b \in BOOLEAN :
          /\ SaveNext(w, s, b)
          /\ s = "success" => Block[cur[w][1]] \cap attended' # {}
    <3>1. CASE SaveNext(w, "success", FALSE)
      <4>1. cur[w][1] \in attended' \/ Block[cur[w][1]] \cap attended' # {}
        <5>1. ~ \E b \in BOOLEAN : SaveNext(w, "failed", b)
          BY <3>1
        <5>2. QED BY ONLY <1>9, <5>1 DEF PostForm, outsideVars
      <4>2. QED BY <2>1, <3>1, <4>1
    <3>2. CASE \E b \in BOOLEAN : SaveNext(w, "failed", b)
      BY <3>2
    <3>3. QED BY ONLY <1>9, <3>1, <3>2 DEF PostForm
  <2>3. attended \subseteq attended' /\ UNCHANGED <<cur, owns, log, audit>>
    BY <1>9 DEF PostForm
  <2>4. \A k \in SubmitKey : posts'[k] > 0 => k \in audit
    BY <1>9, <2>1 DEF PostForm
  <2>5. RunsHaveKeys'
    BY <2>1, <2>2, <2>3
  <2>6. AuditFirst'
    BY <2>2, <2>3, <2>4
  <2>7. OutcomeEarned' /\ OutcomeInTime'
    BY <2>1, <2>2, <2>3
  <2>8. QED BY <2>5, <2>6, <2>7
<1>10. ASSUME SaveUpdate(w) PROVE Strengthening'
  BY <1>10 DEF SaveUpdate
<1>11. ASSUME SaveCreate(w) PROVE Strengthening'
  BY <1>11 DEF SaveCreate
<1>12. ASSUME SaveRetry(w) PROVE Strengthening'
  BY <1>12 DEF SaveRetry
<1>13. ASSUME Notify(w) PROVE Strengthening'
  BY <1>13 DEF Notify
<1>14. ASSUME Finish(w) PROVE Strengthening'
  BY <1>14 DEF Finish, Release
<1>15. QED
  BY <1>1, <1>2, <1>3, <1>4, <1>5, <1>6, <1>7, <1>8, <1>9, <1>10, <1>11,
     <1>12, <1>13, <1>14, WorkerStep(w) DEF WorkerStep

LEMMA IStep ==
  ASSUME IInv, [Next]_vars
  PROVE  IInv'
<1>1. TypeOK'
  BY TypeStep DEF IInv
<1>2. Strengthening'
  <2> USE KeyShape
      DEF TypeOK, Goto, environVars, localVars, outsideVars, slotVars, Release,
          RunsHaveKeys, AuditFirst, OutcomeEarned, OutcomeInTime, Strengthening, IInv
  <2>1. CASE UNCHANGED <<slotVars, log, audit, outsideVars>>
    BY <2>1
  <2>2. ASSUME NEW r \in Row, RecordManual(r) PROVE Strengthening'
    BY <2>2 DEF RecordManual, SubmitKey, Method
  <2>3. CASE Crash
    BY <2>3 DEF Crash
  <2>4. ASSUME NEW w \in Slot, WorkerStep(w) PROVE Strengthening'
    BY <2>4, RunStep
  <2>5. ASSUME NEW w \in Slot, Fault(w) PROVE Strengthening'
    BY <2>5 DEF Fault
  <2>6. ASSUME NEW w \in Slot, CreateFault(w) PROVE Strengthening'
    BY <2>6 DEF CreateFault
  <2>7. ASSUME NEW w \in Slot, LoseLock(w) PROVE Strengthening'
    BY <2>7 DEF LoseLock
  <2>8. QED
    BY QuietSteps, <2>1, <2>2, <2>3, <2>4, <2>5, <2>6, <2>7
<1>3. QED
  BY <1>1, <1>2 DEF IInv, Strengthening

LEMMA Invariance == Spec => []IInv
  BY IInit, IStep, PTL DEF Spec

\* The variables keep their types in every reachable state.
THEOREM TypeCorrect == Spec => []TypeOK
  BY Invariance, PTL DEF IInv

\* recordAuditRequired before adapter.attend is enough, whatever is lost,
\* crashed or redelivered: what the attendance system registered is on record.
THEOREM AuditedSubmissions == Spec => []SubmissionIsAudited
<1>1. IInv => SubmissionIsAudited
  BY DEF IInv, AuditFirst, SubmissionIsAudited
<1>2. QED BY <1>1, Invariance, PTL

\* A success row the worker wrote is one the attendance system registered.
THEOREM EarnedSuccesses == Spec => []SuccessIsEarned
<1>1. IInv => SuccessIsEarned
  BY DEF IInv, OutcomeEarned, SuccessIsEarned
<1>2. QED BY <1>1, Invariance, PTL

-------------------------------------------------------------------------------
(* Success rows are final.                                                 *)

LEMMA SuccessStays ==
  ASSUME IInv, [Next]_vars, NEW k \in LogKey, log[k] = "success"
  PROVE  log'[k] = "success"
<1> USE DEF TypeOK, environVars, IInv, RunsHaveKeys
<1>1. CASE UNCHANGED <<slotVars, log, audit, outsideVars>>
  BY <1>1
<1>2. ASSUME NEW r \in Row, RecordManual(r) PROVE log'[k] = "success"
  BY <1>2 DEF RecordManual
<1>3. CASE Crash
  BY <1>3 DEF Crash
<1>4. ASSUME NEW w \in Slot, WorkerStep(w) PROVE log'[k] = "success"
  <2>1. CASE UNCHANGED log
    BY <2>1
  <2>2. CASE ClaimCreate(w) \/ ClaimReclaim(w)
    BY <2>2 DEF ClaimCreate, ClaimReclaim
  <2>3. CASE SaveUpdate(w) \/ SaveCreate(w) \/ SaveRetry(w)
    BY <2>3 DEF SaveUpdate, SaveCreate, SaveRetry, MayOverwrite
  <2>4. QED
    BY <1>4, <2>1, <2>2, <2>3
    DEF WorkerStep, Take, Check, ClaimFind, ClaimPrior, PreAttempt,
        RecordAuditRequired, OpenPage,
        PostForm, Notify, Finish
<1>5. ASSUME NEW w \in Slot, Fault(w) \/ CreateFault(w) \/ LoseLock(w)
      PROVE  log'[k] = "success"
  BY <1>5 DEF Fault, CreateFault, LoseLock
<1>6. QED
  BY QuietSteps, <1>1, <1>2, <1>3, <1>4, <1>5

\* The where clauses of saveLog and of the reclaim, and the create that gives
\* up, keep every success row, under every interleaving of slots and handlers.
THEOREM FinalSuccesses == Spec => SuccessIsFinal
<1>1. IInv /\ [Next]_vars =>
        [\A k \in LogKey : log[k] = "success" => log'[k] = "success"]_vars
  BY SuccessStays
<1>2. QED BY <1>1, Invariance, PTL DEF Spec, SuccessIsFinal

-------------------------------------------------------------------------------
(* A dry run sends nothing.                                                *)

\* An auto run of a dry-run deployment is skipped before the claim.
SkippedRuns ==
  dryRun => \A w \in Slot : pc[w] # "idle" /\ cur[w][2] = "auto" =>
    /\ pc[w] \in {"check", "save", "create", "retry", "notify", "finish"}
    /\ out[w] \in {"none", "skipped"}

CleanKeys ==
  dryRun => \A k \in SubmitKey : k[2] = "auto" =>
    /\ k \notin audit
    /\ log[k] \in {"none", "skipped"}
    /\ posts[k] = 0

DryInv == SkippedRuns /\ CleanKeys

\* A step of a slot keeps both: past the check a run is no dry run, and what a
\* skipped run saves is "skipped".
LEMMA DryRunStep ==
  ASSUME IInv, DryInv, NEW w \in Slot, WorkerStep(w)
  PROVE  DryInv'
<1> USE KeyShape
    DEF IInv, TypeOK, RunsHaveKeys, OutcomeInTime, DryInv, SkippedRuns, CleanKeys,
        Goto, localVars, outsideVars
<1>1. UNCHANGED dryRun
  BY DEF WorkerStep, Take, Check, ClaimCreate, ClaimFind, ClaimPrior, ClaimReclaim,
         PreAttempt, RecordAuditRequired, OpenPage, PostForm, SaveUpdate, SaveCreate,
         SaveRetry, Notify, Finish
<1>2. CASE ~dryRun
  BY <1>1, <1>2
<1>3. ASSUME dryRun, NEW k \in SubmitKey, Take(w, k) PROVE DryInv'
  BY <1>3 DEF Take
<1>4. ASSUME dryRun, Check(w) PROVE DryInv'
  <2>1. CASE cur[w][2] = "auto"
    <3>1. SaveNext(w, "skipped", FALSE)
      BY <1>4, <2>1 DEF Check
    <3>2. QED BY <1>1, <1>4, <3>1 DEF Check, SaveNext
  <2>2. CASE cur[w][2] # "auto"
    <3>1. UNCHANGED cur
      BY <1>4 DEF Check, SaveNext
    <3>2. \A v \in Slot : v # w => pc'[v] = pc[v] /\ out'[v] = out[v]
      BY <1>4 DEF Check, SaveNext
    <3>3. QED BY <1>1, <1>4, <2>2, <3>1, <3>2 DEF Check
  <2>3. QED BY <2>1, <2>2
<1>5. ASSUME dryRun, pc[w] \in {"claim", "find", "prior", "reclaim", "pre", "page", "post"}
      PROVE  DryInv'
  <2>1. cur[w] \in SubmitKey /\ cur[w][2] # "auto"
    BY <1>5
  <2>2. \/ ClaimCreate(w) \/ ClaimFind(w) \/ ClaimPrior(w) \/ ClaimReclaim(w)
        \/ PreAttempt(w) \/ OpenPage(w) \/ PostForm(w)
    BY ONLY WorkerStep(w), <1>5
    DEF WorkerStep, Take, Check, SaveUpdate, SaveCreate, SaveRetry, Notify, Finish
  <2>3. /\ audit' \subseteq audit \cup {cur[w]}
        /\ \A k \in SubmitKey : k # cur[w] => log'[k] = log[k] /\ posts'[k] = posts[k]
    <3>1. /\ audit' = audit \/ audit' = audit \cup {cur[w]}
          /\ log' = log \/ \E s : log' = [log EXCEPT ![cur[w]] = s]
          /\ posts' = posts \/ \E n : posts' = [posts EXCEPT ![cur[w]] = n]
      BY ONLY <2>2
      DEF ClaimCreate, ClaimFind, ClaimPrior, ClaimReclaim, PreAttempt,
          RecordAuditRequired, OpenPage, PostForm,
          outsideVars
    <3>2. QED BY <3>1
  <2>4. UNCHANGED cur /\ \A v \in Slot : v # w => pc'[v] = pc[v] /\ out'[v] = out[v]
    BY <2>2
    DEF ClaimCreate, ClaimFind, ClaimPrior, ClaimReclaim, PreAttempt,
        RecordAuditRequired, OpenPage, PostForm,
        SaveNext
  <2>5. QED BY <1>1, <2>1, <2>3, <2>4
<1>6. ASSUME dryRun, SaveUpdate(w) \/ SaveCreate(w) \/ SaveRetry(w) PROVE DryInv'
  <2>1. cur[w] \in SubmitKey /\ (cur[w][2] = "auto" => out[w] = "skipped")
    BY <1>6 DEF SaveUpdate, SaveCreate, SaveRetry
  <2>2. UNCHANGED <<audit, posts, cur, out>>
    BY <1>6 DEF SaveUpdate, SaveCreate, SaveRetry
  <2>3. log' = log \/ log' = [log EXCEPT ![cur[w]] = out[w]]
    BY <1>6 DEF SaveUpdate, SaveCreate, SaveRetry
  <2>4. \E l \in {"notify", "create", "retry"} : pc' = [pc EXCEPT ![w] = l]
    BY ONLY <1>6 DEF SaveUpdate, SaveCreate, SaveRetry, Goto
  <2>5. pc[w] # "idle"
    BY <1>6 DEF SaveUpdate, SaveCreate, SaveRetry
  <2>6. CleanKeys'
    BY <1>1, <2>1, <2>2, <2>3
  <2>7. SkippedRuns'
    BY <1>1, <2>2, <2>4, <2>5
  <2>8. QED BY <2>6, <2>7
<1>7. ASSUME dryRun, Notify(w) PROVE DryInv'
  BY <1>7 DEF Notify
<1>8. ASSUME dryRun, Finish(w) PROVE DryInv'
  BY <1>8 DEF Finish, Release
<1>9. QED
  BY ONLY WorkerStep(w), <1>2, <1>3, <1>4, <1>5, <1>6, <1>7, <1>8
  DEF WorkerStep, ClaimCreate, ClaimFind, ClaimPrior, ClaimReclaim, PreAttempt,
      RecordAuditRequired,
      OpenPage, PostForm

LEMMA DryStep ==
  ASSUME IInv, DryInv, [Next]_vars
  PROVE  DryInv'
<1> USE DEF IInv, TypeOK, DryInv, SkippedRuns, CleanKeys, slotVars, localVars, outsideVars
<1>1. CASE UNCHANGED <<slotVars, log, audit, outsideVars>>
  BY <1>1
<1>2. ASSUME NEW r \in Row, RecordManual(r) PROVE DryInv'
  <2>1. <<r, "manual">> \notin SubmitKey
    BY DEF SubmitKey, Method
  <2>2. QED BY <1>2, <2>1, KeyShape DEF RecordManual
<1>3. CASE Crash
  BY <1>3 DEF Crash
<1>4. ASSUME NEW w \in Slot, WorkerStep(w) PROVE DryInv'
  BY <1>4, DryRunStep
<1>5. ASSUME NEW w \in Slot, Fault(w) PROVE DryInv'
  BY <1>5 DEF Fault, Release, Goto
<1>6. ASSUME NEW w \in Slot, CreateFault(w) PROVE DryInv'
  BY <1>6 DEF CreateFault, Goto
<1>7. ASSUME NEW w \in Slot, LoseLock(w) PROVE DryInv'
  BY <1>7 DEF LoseLock
<1>8. QED
  BY QuietSteps, <1>1, <1>2, <1>3, <1>4, <1>5, <1>6, <1>7

\* With ATTENDANCE_AUTO_DRY_RUN an auto run leaves nothing that a later claim could
\* take for a submission, whatever confirm runs, crashes and lost locks do.
THEOREM SilentDryRuns == Spec => []DryRunSendsNothing
<1>1. Init => DryInv
  BY KeyShape DEF Init, DryInv, SkippedRuns, CleanKeys
<1>2. IInv /\ DryInv /\ [Next]_vars => DryInv'
  BY DryStep
<1>3. DryInv => DryRunSendsNothing
  BY DEF DryInv, CleanKeys, DryRunSendsNothing, SubmitKey, Method
<1>4. QED BY <1>1, <1>2, <1>3, Invariance, PTL DEF Spec

-------------------------------------------------------------------------------
(* One submission per key, while locks are not lost.                       *)

Exclusive == OneRunPerKey /\ ClaimedRow /\ FreshClaim

LEMMA EInit == Init => EInv
<1>1. \A k \in SubmitKey : k \in LogKey
  BY KeyShape
<1>2. QED
  BY <1>1, IInit DEF Init, EInv, OneRunPerKey, ClaimedRow, FreshClaim

\* A step of the web application, the scheduler or the queue.
LEMMA ExclusiveQuiet ==
  ASSUME EInv, [Next]_vars, UNCHANGED <<slotVars, log, audit, outsideVars>>
  PROVE  Exclusive'
<1> USE DEF EInv, IInv, TypeOK, RunsHaveKeys, slotVars, localVars, outsideVars,
            Exclusive, OneRunPerKey
<1>1. ClaimedRow' /\ FreshClaim'
  BY DEF ClaimedRow, FreshClaim
<1>2. \A w \in Slot : pc[w] # "idle" => jobs'[cur[w]] = "active"
  <2> USE DEF queueVars
  <2>1. CASE UNCHANGED jobs
    BY <2>1
  <2>2. ASSUME NEW k \in SubmitKey, Enqueue(k)
        PROVE  \A w \in Slot : pc[w] # "idle" => jobs'[cur[w]] = "active"
    BY <2>2 DEF Enqueue
  <2>3. ASSUME NEW k \in SubmitKey, Redeliver(k) \/ EvictCompleted(k)
        PROVE  \A w \in Slot : pc[w] # "idle" => jobs'[cur[w]] = "active"
    BY <2>3 DEF Redeliver, EvictCompleted, Orphaned
  <2>4. ASSUME NEW w \in Slot, WorkerStep(w) \/ Fault(w)
        PROVE  UNCHANGED jobs
    <3>1. ASSUME Finish(w) \/ Fault(w) PROVE FALSE
      BY <3>1 DEF Finish, Fault, Release, Goto
    <3>2. ASSUME NEW k \in SubmitKey, Take(w, k) PROVE FALSE
      BY <3>2 DEF Take, Goto
    <3>3. QED
      BY <2>4, <3>1, <3>2
      DEF WorkerStep, Check, ClaimCreate, ClaimFind, ClaimPrior, ClaimReclaim,
          PreAttempt, RecordAuditRequired, OpenPage, PostForm, SaveUpdate, SaveCreate,
          SaveRetry, Notify
  <2>5. ASSUME NEW r \in Row, Submit(r) \/ ScheduleAuto(r)
        PROVE  \E k \in SubmitKey : Enqueue(k)
    BY <2>5 DEF Submit, ScheduleAuto, SubmitKey, Method
  <2>6. QED
    BY <2>1, <2>2, <2>3, <2>4, <2>5
    DEF Next, vars, ScanQr, MarkManual, RecordManual, ExpireSession, SetMode,
        AbandonManual, Tick, Crash, CreateFault, LoseLock
<1>3. QED
  BY <1>1, <1>2

\* A step of a slot that takes a job, runs it, or gives it up.
LEMMA ExclusiveRun ==
  ASSUME EInv, NEW w \in Slot, WorkerStep(w)
  PROVE  Exclusive'
<1> USE KeyShape
    DEF EInv, IInv, TypeOK, RunsHaveKeys, AuditFirst, OutcomeInTime, Goto, SaveNext,
        environVars, localVars, outsideVars, queueVars,
        Exclusive, OneRunPerKey, ClaimedRow, FreshClaim
<1>1. ASSUME NEW j \in SubmitKey, Take(w, j) PROVE Exclusive'
  BY <1>1 DEF Take
<1>2. ASSUME Check(w) PROVE Exclusive'
  BY <1>2 DEF Check
<1>3. ASSUME ClaimCreate(w) PROVE Exclusive'
  BY <1>3 DEF ClaimCreate
<1>4. ASSUME ClaimFind(w) PROVE Exclusive'
  BY <1>4 DEF ClaimFind
<1>5. ASSUME ClaimPrior(w) PROVE Exclusive'
  BY <1>5 DEF ClaimPrior
<1>6. ASSUME ClaimReclaim(w) PROVE Exclusive'
  <2>1. cur[w] \in SubmitKey /\ cur[w] \in LogKey /\ cur[w] \notin audit
    BY <1>6 DEF ClaimReclaim
  <2>2. log'[cur[w]] # "none" /\ \A k \in LogKey : k # cur[w] => log'[k] = log[k]
    BY <1>6, <2>1 DEF ClaimReclaim
  <2>3. OneRunPerKey' /\ FreshClaim'
    BY <1>6 DEF ClaimReclaim
  <2>4. ClaimedRow'
    BY <1>6, <2>1, <2>2 DEF ClaimReclaim
  <2>5. QED BY <2>3, <2>4
<1>7. ASSUME PreAttempt(w) PROVE Exclusive'
  BY <1>7 DEF PreAttempt, RecordAuditRequired
<1>8. ASSUME OpenPage(w) PROVE Exclusive'
  <2>1. UNCHANGED <<log, audit, posts, cur, owns, jobs>>
    BY <1>8 DEF OpenPage
  <2>2. \E l \in {"save", "post"} : pc' = [pc EXCEPT ![w] = l]
    BY ONLY <1>8 DEF OpenPage, SaveNext, Goto
  <2>3. pc[w] = "page"
    BY <1>8 DEF OpenPage
  <2>4. QED BY <2>1, <2>2, <2>3
<1>9. ASSUME PostForm(w) PROVE Exclusive'
  <2>1. UNCHANGED <<log, audit, cur, owns, jobs>> /\ pc' = [pc EXCEPT ![w] = "save"]
    BY <1>9 DEF PostForm
  <2>2. pc[w] = "post" /\ cur[w] \in SubmitKey /\ posts[cur[w]] = 0
    BY <1>9 DEF PostForm
  <2>3. posts' = [posts EXCEPT ![cur[w]] = 1] \/ posts' = posts
    BY <1>9, <2>2 DEF PostForm
  <2>4. OneRunPerKey' /\ ClaimedRow'
    BY <2>1, <2>2
  <2>5. \A k \in SubmitKey : posts'[k] = posts[k] \/ (k = cur[w] /\ posts'[k] = 1)
    BY <2>2, <2>3
  <2>6. \A v \in Slot : pc'[v] \in {"reclaim", "pre", "page", "post"} => v # w /\ pc'[v] = pc[v]
    BY <2>1
  <2>7. \A v \in Slot : pc'[v] \in {"page", "post"} => posts'[cur[v]] = 0
    <3>1. \A v \in Slot : pc'[v] \in {"page", "post"} => cur[v] # cur[w] /\ cur[v] \in SubmitKey
      BY <2>2, <2>6
    <3>2. \A v \in Slot : pc[v] \in {"page", "post"} => posts[cur[v]] = 0
      OBVIOUS
    <3>3. QED BY ONLY <2>5, <2>6, <3>1, <3>2
  <2>8. \A v \in Slot : pc'[v] \in {"reclaim", "pre"} => cur'[v] \notin audit'
    BY <2>1, <2>6
  <2>9. \A k \in SubmitKey : posts'[k] <= 1
    BY <2>5
  <2>10. QED BY ONLY <2>1, <2>4, <2>7, <2>8, <2>9 DEF Exclusive, FreshClaim
<1>10. ASSUME SaveUpdate(w) PROVE Exclusive'
  <2>1. UNCHANGED <<audit, posts, cur, owns, jobs>>
    BY <1>10 DEF SaveUpdate
  <2>2. pc[w] = "save" /\ (pc' = [pc EXCEPT ![w] = "notify"] \/ pc' = [pc EXCEPT ![w] = "create"])
    BY <1>10 DEF SaveUpdate
  <2>3. \A k \in LogKey : log[k] # "none" => log'[k] # "none"
    BY <1>10 DEF SaveUpdate
  <2>4. QED BY <2>1, <2>2, <2>3, SMTT(30)
<1>11. ASSUME SaveCreate(w) PROVE Exclusive'
  <2>1. UNCHANGED <<audit, posts, cur, owns, jobs>>
    BY <1>11 DEF SaveCreate
  <2>2. pc[w] = "create" /\ (pc' = [pc EXCEPT ![w] = "notify"] \/ pc' = [pc EXCEPT ![w] = "retry"])
    BY <1>11 DEF SaveCreate
  <2>3. \A k \in LogKey : log[k] # "none" => log'[k] # "none"
    BY <1>11 DEF SaveCreate
  <2>4. QED BY <2>1, <2>2, <2>3, SMTT(30)
<1>12. ASSUME SaveRetry(w) PROVE Exclusive'
  BY <1>12 DEF SaveRetry
<1>13. ASSUME Notify(w) PROVE Exclusive'
  BY <1>13 DEF Notify
<1>14. ASSUME Finish(w) PROVE Exclusive'
  BY <1>14 DEF Finish, Release, Settle
<1>15. QED
  BY <1>1, <1>2, <1>3, <1>4, <1>5, <1>6, <1>7, <1>8, <1>9, <1>10, <1>11,
     <1>12, <1>13, <1>14, WorkerStep(w) DEF WorkerStep

LEMMA EStep ==
  ASSUME ~LockLoss, EInv, [Next]_vars
  PROVE  EInv'
<1>1. IInv'
  BY IStep DEF EInv
<1>2. Exclusive'
  <2> USE KeyShape
      DEF EInv, IInv, TypeOK, RunsHaveKeys, Goto, Release, Settle,
          localVars, outsideVars, queueVars,
          Exclusive, OneRunPerKey, ClaimedRow, FreshClaim
  <2>1. CASE UNCHANGED <<slotVars, log, audit, outsideVars>>
    BY <2>1, ExclusiveQuiet
  <2>2. ASSUME NEW r \in Row, RecordManual(r) PROVE Exclusive'
    BY <2>2 DEF RecordManual, slotVars
  <2>3. CASE Crash
    BY <2>3 DEF Crash
  <2>4. ASSUME NEW w \in Slot, WorkerStep(w) PROVE Exclusive'
    BY <2>4, ExclusiveRun
  <2>5. ASSUME NEW w \in Slot, Fault(w) PROVE Exclusive'
    BY <2>5 DEF Fault
  <2>6. ASSUME NEW w \in Slot, CreateFault(w) PROVE Exclusive'
    BY <2>6 DEF CreateFault
  <2>7. ASSUME NEW w \in Slot, LoseLock(w) PROVE Exclusive'
    BY <2>7 DEF LoseLock
  <2>8. QED
    BY QuietSteps, <2>1, <2>2, <2>3, <2>4, <2>5, <2>6, <2>7
<1>3. QED
  BY <1>1, <1>2 DEF EInv, Exclusive

LEMMA ExclusiveInvariance ==
  ASSUME ~LockLoss
  PROVE  Spec => []EInv
<1>1. Init => EInv
  BY EInit
<1>2. EInv /\ [Next]_vars => EInv'
  BY EStep
<1>3. QED BY <1>1, <1>2, PTL DEF Spec

\* While BullMQ keeps a job in one slot, the claim never lets a second run of a
\* user, row, date and method reach the attendance system.
THEOREM SingleSubmission == ~LockLoss => (Spec => []AtMostOneSubmission)
<1> SUFFICES ASSUME ~LockLoss PROVE Spec => []AtMostOneSubmission
  OBVIOUS
<1>1. EInv => AtMostOneSubmission
  BY DEF EInv, FreshClaim, AtMostOneSubmission
<1>2. QED BY <1>1, ExclusiveInvariance, PTL

-------------------------------------------------------------------------------
(* The worker implements the ledger.                                       *)

\* A change of one row of attendance_logs, allowed by the ledger or no change.
LEMMA RecordOrStutter ==
  ASSUME TypeOK, NEW k \in LogKey,
         NEW s \in {"pending", "skipped", "failed", "success"},
         log' = [log EXCEPT ![k] = s], UNCHANGED <<audit, posts>>,
         log[k] = "success" => s = "success",
         (s = "success" /\ k \in SubmitKey) => k \in audit
  PROVE  [Ledger!LedgerNext]_(Ledger!ledgerVars)
<1>1. CASE log[k] = "success"
  <2>1. log' = log
    BY <1>1 DEF TypeOK
  <2>2. QED BY <2>1 DEF Ledger!ledgerVars
<1>2. CASE log[k] # "success"
  <2>1. Ledger!Record(k, s)
    BY <1>2 DEF Ledger!Record
  <2>2. QED BY <2>1 DEF Ledger!LedgerNext
<1>3. QED BY <1>1, <1>2

LEMMA LedgerRun ==
  ASSUME EInv, NEW w \in Slot, WorkerStep(w)
  PROVE  [Ledger!LedgerNext]_(Ledger!ledgerVars)
<1> USE KeyShape
    DEF EInv, IInv, TypeOK, RunsHaveKeys, environVars, localVars, outsideVars
<1>1. CASE UNCHANGED <<audit, posts, log>>
  BY <1>1 DEF Ledger!ledgerVars
<1>2. CASE PreAttempt(w)
  <2>1. Ledger!Open(cur[w])
    BY <1>2 DEF PreAttempt, RecordAuditRequired, Ledger!Open, FreshClaim, AuditFirst
  <2>2. cur[w] \in SubmitKey
    BY <1>2 DEF PreAttempt, RecordAuditRequired
  <2>3. QED BY <2>1, <2>2 DEF Ledger!LedgerNext
<1>3. CASE PostForm(w)
  <2>1. /\ cur[w] \in SubmitKey /\ cur[w] \in audit /\ posts[cur[w]] = 0
        /\ UNCHANGED <<audit, log>>
    BY <1>3 DEF PostForm, FreshClaim, AuditFirst
  <2>2. posts' = [posts EXCEPT ![cur[w]] = 1] \/ posts' = posts
    <3>1. \/ posts' = [posts EXCEPT ![cur[w]] = posts[cur[w]] + 1]
          \/ posts' = posts
      BY ONLY <1>3 DEF PostForm, outsideVars
    <3>2. posts[cur[w]] + 1 = 1
      BY <2>1
    <3>3. QED BY ONLY <3>1, <3>2
  <2>3. CASE posts' = [posts EXCEPT ![cur[w]] = 1]
    BY <2>1, <2>3 DEF Ledger!Send, Ledger!LedgerNext
  <2>4. CASE posts' = posts
    BY <2>1, <2>4 DEF Ledger!ledgerVars
  <2>5. QED BY <2>2, <2>3, <2>4
<1>4. ASSUME ClaimCreate(w) \/ ClaimReclaim(w)
      PROVE  [Ledger!LedgerNext]_(Ledger!ledgerVars)
  <2>1. cur[w] \in SubmitKey /\ cur[w] \in LogKey /\ UNCHANGED <<audit, posts>>
    BY <1>4 DEF ClaimCreate, ClaimReclaim
  <2>2. \/ UNCHANGED log
        \/ log' = [log EXCEPT ![cur[w]] = "pending"] /\ log[cur[w]] # "success"
    BY <1>4, <2>1 DEF ClaimCreate, ClaimReclaim
  <2>3. CASE UNCHANGED log
    BY <2>1, <2>3 DEF Ledger!ledgerVars
  <2>4. CASE log' = [log EXCEPT ![cur[w]] = "pending"] /\ log[cur[w]] # "success"
    BY <2>1, <2>4, RecordOrStutter
  <2>5. QED BY <2>2, <2>3, <2>4
<1>5. ASSUME SaveUpdate(w) \/ SaveCreate(w) \/ SaveRetry(w)
      PROVE  [Ledger!LedgerNext]_(Ledger!ledgerVars)
  <2>1. /\ cur[w] \in SubmitKey /\ cur[w] \in LogKey
        /\ UNCHANGED <<audit, posts>>
        /\ out[w] \in {"skipped", "failed", "success"}
        /\ out[w] = "success" => cur[w] \in audit
    BY <1>5 DEF SaveUpdate, SaveCreate, SaveRetry, OutcomeInTime, OutcomeEarned
  <2>2. \/ UNCHANGED log
        \/ /\ log' = [log EXCEPT ![cur[w]] = out[w]]
           /\ log[cur[w]] = "success" => out[w] = "success"
    BY <1>5, <2>1 DEF SaveUpdate, SaveCreate, SaveRetry, MayOverwrite
  <2>3. CASE UNCHANGED log
    BY <2>1, <2>3 DEF Ledger!ledgerVars
  <2>4. CASE /\ log' = [log EXCEPT ![cur[w]] = out[w]]
             /\ log[cur[w]] = "success" => out[w] = "success"
    BY <2>1, <2>4, RecordOrStutter
  <2>5. QED BY <2>2, <2>3, <2>4
<1>6. QED
  BY <1>1, <1>2, <1>3, <1>4, <1>5, WorkerStep(w)
  DEF WorkerStep, Take, Check, ClaimFind, ClaimPrior, OpenPage, Notify, Finish

LEMMA LedgerStep ==
  ASSUME EInv, [Next]_vars
  PROVE  [Ledger!LedgerNext]_(Ledger!ledgerVars)
<1> USE DEF EInv, IInv, TypeOK, environVars, outsideVars
<1>1. CASE UNCHANGED <<audit, posts, log>>
  BY <1>1 DEF Ledger!ledgerVars
<1>2. ASSUME NEW r \in Row, RecordManual(r)
      PROVE  [Ledger!LedgerNext]_(Ledger!ledgerVars)
  <2>1. <<r, "manual">> \in LogKey /\ <<r, "manual">> \notin SubmitKey
    BY DEF LogKey, SubmitKey, Method
  <2>2. log' = [log EXCEPT ![<<r, "manual">>] = "success"] /\ UNCHANGED <<audit, posts>>
    BY <1>2 DEF RecordManual
  <2>3. QED BY <2>1, <2>2, RecordOrStutter
<1>3. ASSUME NEW w \in Slot, WorkerStep(w)
      PROVE  [Ledger!LedgerNext]_(Ledger!ledgerVars)
  BY <1>3, LedgerRun
<1>4. QED
  BY QuietSteps, <1>1, <1>2, <1>3 DEF Crash, Fault, CreateFault, LoseLock

\* While BullMQ keeps a job in one slot, queue and worker together implement the
\* promise of SubmissionLedger.
THEOREM ImplementsLedger == ~LockLoss => (Spec => LedgerImplemented)
<1> SUFFICES ASSUME ~LockLoss PROVE Spec => LedgerImplemented
  OBVIOUS
<1>1. Init => Ledger!LedgerInit
  BY DEF Init, Ledger!LedgerInit
<1>2. EInv /\ [Next]_vars => [Ledger!LedgerNext]_(Ledger!ledgerVars)
  BY LedgerStep
<1>3. QED
  BY <1>1, <1>2, ExclusiveInvariance, PTL DEF Spec, LedgerImplemented, Ledger!LedgerSpec

-------------------------------------------------------------------------------
(* One registration per block, while runs keep to their windows.           *)

\* From the claim to the POST.
Submitting == {"claim", "find", "prior", "reclaim", "pre", "page", "post"}

\* A run between its time guard and its POST, or with a success to save.
Timely(w) == pc[w] \in {"check"} \cup Submitting \/ out[w] = "success"

\* Such a run is still in the window, and in the mode, it was admitted in.
RunsInWindow ==
  \A w \in Slot : Timely(w) => clock \in Window[cur[w][1]] /\ cur[w][2] = mode

\* What the guard read of the block is still true when the form is posted.
BlockStillOpen ==
  \A w \in Slot : pc[w] \in Submitting =>
    \A q \in Block[cur[w][1]], m \in Method : log[<<q, m>>] # "success"

BInv == RunsInWindow /\ BlockStillOpen

\* Two timely runs of one block are of one row and one method: one job, one slot.
LEMMA OneTimelyRun ==
  ASSUME OneRunPerWindow, EInv, RunsInWindow,
         NEW v \in Slot, Timely(v), NEW w \in Slot, Timely(w),
         cur[v][1] \in Block[cur[w][1]]
  PROVE  v = w
<1>1. \A u \in Slot : Timely(u) => pc[u] # "idle" /\ cur[u] \in SubmitKey
  BY DEF Timely, Submitting, EInv, IInv, RunsHaveKeys, OutcomeEarned
<1>2. cur[v] \in SubmitKey /\ cur[w] \in SubmitKey
  BY <1>1
<1>3. cur[v][1] \in Row /\ cur[w][1] \in Row
  BY <1>2, KeyShape
<1>4. cur[v][1] = cur[w][1]
  BY <1>3 DEF OneRunPerWindow, RunsInWindow
<1>5. cur[v][2] = cur[w][2]
  BY DEF RunsInWindow
<1>6. cur[v] = cur[w]
  BY <1>2, <1>4, <1>5, KeyShape
<1>7. QED
  BY <1>1, <1>6 DEF EInv, OneRunPerKey

\* The window moves on only when no run is under way, and the mode never changes.
LEMMA WindowHeld ==
  ASSUME OneRunPerWindow, EInv, [Next]_vars
  PROVE  /\ mode' = mode
         /\ clock' # clock => (\A w \in Slot : pc[w] = "idle") /\ UNCHANGED slotVars
<1>1. ASSUME NEW m \in Modes, SetMode(m) PROVE FALSE
  BY <1>1 DEF SetMode, OneRunPerWindow, EInv, IInv, TypeOK
<1>2. CASE Tick
  BY <1>2 DEF Tick, OneRunPerWindow, webVars
<1>3. QED
  <2>1. ASSUME NEW w \in Slot, WorkerStep(w) PROVE UNCHANGED <<clock, mode>>
    BY ONLY <2>1
    DEF WorkerStep, Take, Check, ClaimCreate, ClaimFind, ClaimPrior, ClaimReclaim, PreAttempt,
        RecordAuditRequired, OpenPage, PostForm, SaveUpdate, SaveCreate, SaveRetry, Notify,
        Finish, webVars, environVars
  <2>2. UNCHANGED <<clock, mode>> \/ Tick
    BY ONLY [Next]_vars, <1>1, <2>1
    DEF Next, vars, Submit, ScheduleAuto, ScanQr, MarkManual, RecordManual, ExpireSession,
        AbandonManual, Crash, Fault, CreateFault, LoseLock, Redeliver, EvictCompleted,
        webVars
  <2>3. QED BY <1>2, <2>2

\* A step that makes no run timely keeps the window, given that time stood still
\* under the runs it leaves timely.
LEMMA WindowKept ==
  ASSUME OneRunPerWindow, EInv, RunsInWindow, [Next]_vars,
         \A w \in Slot : Timely(w)' =>
           Timely(w) /\ pc[w] # "idle" /\ cur'[w] = cur[w]
  PROVE  RunsInWindow'
<1>1. mode' = mode /\ (clock' # clock => \A w \in Slot : pc[w] = "idle")
  BY WindowHeld
<1>2. QED
  BY <1>1 DEF RunsInWindow

\* A step that lets no run in and writes no success of the worker keeps blocks open.
LEMMA OpenKept ==
  ASSUME EInv, BlockStillOpen,
         \A w \in Slot : pc'[w] \in Submitting =>
           pc[w] \in Submitting /\ cur'[w] = cur[w],
         \A k \in SubmitKey : log'[k] = "success" => log[k] = "success"
  PROVE  BlockStillOpen'
<1>1. ASSUME NEW w \in Slot, pc'[w] \in Submitting,
             NEW q \in Block[cur'[w][1]], NEW m \in Method
      PROVE  log'[<<q, m>>] # "success"
  <2>1. pc[w] \in Submitting /\ cur'[w] = cur[w]
    BY <1>1
  <2>2. cur[w] \in SubmitKey
    BY <2>1 DEF Submitting, EInv, IInv, RunsHaveKeys
  <2>3. <<q, m>> \in SubmitKey
    BY <1>1, <2>1, <2>2, KeyShape, BlockAssumption DEF SubmitKey
  <2>4. log[<<q, m>>] # "success"
    BY <1>1, <2>1 DEF BlockStillOpen
  <2>5. QED BY <2>3, <2>4
<1>2. QED BY <1>1 DEF BlockStillOpen

\* A step of a slot: only Take makes a run timely, only a success of its own block
\* could close a block under a run, and that one is of the run itself.
LEMMA BlockRun ==
  ASSUME OneRunPerWindow, EInv, BInv, NEW w \in Slot, WorkerStep(w)
  PROVE  BInv'
<1> USE KeyShape
    DEF EInv, IInv, TypeOK, RunsHaveKeys, Goto, SaveNext, environVars, localVars, BInv,
        Submitting
<1>0. [Next]_vars
  BY DEF Next
<1>1. ASSUME NEW k \in SubmitKey, Take(w, k) PROVE BInv'
  <2>1. /\ UNCHANGED <<clock, mode, log>>
        /\ pc[w] = "idle" /\ out[w] = "none"
        /\ cur' = [cur EXCEPT ![w] = k]
    BY <1>1 DEF Take, OutcomeInTime, webVars
  <2>2. \A v \in Slot : v # w => pc'[v] = pc[v] /\ out'[v] = out[v] /\ cur'[v] = cur[v]
    BY <1>1, <2>1 DEF Take
  <2>3. /\ pc'[w] \in {"check", "save"} /\ cur'[w] = k
        /\ out'[w] # "success"
        /\ pc'[w] = "check" => TimeAndModeAllow(k)
    BY <1>1, <2>1 DEF Take
  <2>4. RunsInWindow'
    BY <2>1, <2>2, <2>3 DEF RunsInWindow, Timely, TimeAndModeAllow
  <2>5. \A v \in Slot : pc'[v] \in Submitting => pc[v] \in Submitting /\ cur'[v] = cur[v]
    BY <2>2, <2>3
  <2>7. BlockStillOpen'
    BY <2>1, <2>5, OpenKept
  <2>8. QED BY <2>4, <2>7
<1>2. ASSUME UNCHANGED cur, pc[w] # "idle", Timely(w)' => Timely(w),
             \A v \in Slot : v # w => pc'[v] = pc[v] /\ out'[v] = out[v]
      PROVE  RunsInWindow'
  <2>1. \A v \in Slot : Timely(v) => pc[v] # "idle"
    BY DEF Timely, OutcomeEarned
  <2>2. QED
    BY <1>0, <1>2, <2>1, WindowKept DEF Timely
<1>3. ASSUME Check(w) PROVE BInv'
  <2>1. /\ UNCHANGED <<cur, log>> /\ pc[w] = "check" /\ cur[w] \in SubmitKey
        /\ \A v \in Slot : v # w => pc'[v] = pc[v] /\ out'[v] = out[v]
    BY <1>3 DEF Check
  <2>2. RunsInWindow'
    BY <1>2, <2>1 DEF Timely
  <2>3. pc'[w] \in Submitting => TablesAllow(cur[w])
    BY <1>3 DEF Check
  <2>4. ASSUME NEW v \in Slot, pc'[v] \in Submitting,
               NEW q \in Block[cur[v][1]], NEW m \in Method
        PROVE  log[<<q, m>>] # "success"
    <3>1. CASE v = w
      BY <2>3, <2>4, <3>1 DEF TablesAllow, BlockDone
    <3>2. CASE v # w
      BY <2>1, <2>4, <3>2 DEF BlockStillOpen
    <3>3. QED BY <3>1, <3>2
  <2>5. BlockStillOpen'
    BY <2>1, <2>4 DEF BlockStillOpen
  <2>6. QED BY <2>2, <2>5
<1>4. ASSUME UNCHANGED cur,
             pc'[w] \in Submitting => pc[w] \in Submitting,
             \A v \in Slot : v # w => pc'[v] = pc[v],
             \A k \in SubmitKey : log'[k] = "success" => log[k] = "success"
      PROVE  BlockStillOpen'
  <2>1. \A v \in Slot : pc'[v] \in Submitting => pc[v] \in Submitting /\ cur'[v] = cur[v]
    BY <1>4
  <2>2. QED BY <1>4, <2>1, OpenKept
<1>5. ASSUME ClaimCreate(w) \/ ClaimFind(w) \/ ClaimPrior(w) \/ ClaimReclaim(w) \/ PreAttempt(w)
      PROVE  BInv'
  <2>1. /\ UNCHANGED <<cur, out>> /\ pc[w] \in Submitting
        /\ \A v \in Slot : v # w => pc'[v] = pc[v]
    BY <1>5 DEF ClaimCreate, ClaimFind, ClaimPrior, ClaimReclaim, PreAttempt
  <2>2. \A k \in SubmitKey : log'[k] = "success" => log[k] = "success"
    BY <1>5 DEF ClaimCreate, ClaimFind, ClaimPrior, ClaimReclaim, PreAttempt
  <2>3. Timely(w)
    BY <2>1 DEF Timely
  <2>4. QED BY <1>2, <1>4, <2>1, <2>2, <2>3
<1>6. ASSUME OpenPage(w) \/ PostForm(w) PROVE BInv'
  <2>1. /\ UNCHANGED <<cur, log>> /\ pc[w] \in Submitting
        /\ \A v \in Slot : v # w => pc'[v] = pc[v] /\ out'[v] = out[v]
    BY <1>6 DEF OpenPage, PostForm
  <2>2. Timely(w)
    BY <2>1 DEF Timely
  <2>3. QED BY <1>2, <1>4, <2>1, <2>2
<1>7. ASSUME SaveUpdate(w) \/ SaveCreate(w) \/ SaveRetry(w) PROVE BInv'
  <2>1. /\ UNCHANGED <<cur, out>> /\ pc[w] \in {"save", "create", "retry"}
        /\ pc'[w] \in {"create", "retry", "notify"}
        /\ \A v \in Slot : v # w => pc'[v] = pc[v]
    BY <1>7 DEF SaveUpdate, SaveCreate, SaveRetry
  <2>2. RunsInWindow'
    BY <1>2, <2>1 DEF Timely
  <2>3. log' = log \/ log' = [log EXCEPT ![cur[w]] = out[w]]
    BY ONLY <1>7 DEF SaveUpdate, SaveCreate, SaveRetry
  <2>4. ASSUME NEW v \in Slot, pc'[v] \in Submitting,
               NEW q \in Block[cur[v][1]], NEW m \in Method
        PROVE  log'[<<q, m>>] # "success"
    <3>1. v # w /\ pc[v] \in Submitting /\ cur[v] \in SubmitKey /\ cur[w] \in SubmitKey
      BY <2>1, <2>4
    <3>2. log[<<q, m>>] # "success"
      BY <2>4, <3>1 DEF BlockStillOpen
    <3>3. CASE cur[w] = <<q, m>> /\ out[w] = "success"
      <4>1. Timely(v) /\ Timely(w)
        BY <3>1, <3>3 DEF Timely
      <4>2. cur[w][1] \in Block[cur[v][1]]
        BY <2>4, <3>3
      <4>3. QED BY <3>1, <4>1, <4>2, OneTimelyRun
    <3>4. CASE ~(cur[w] = <<q, m>> /\ out[w] = "success")
      <4>1. <<q, m>> \in LogKey
        BY <2>4, <3>1, BlockAssumption DEF LogKey
      <4>2. QED BY <2>3, <3>1, <3>2, <3>4, <4>1
    <3>5. QED BY <3>3, <3>4
  <2>5. BlockStillOpen'
    BY <2>1, <2>4 DEF BlockStillOpen
  <2>6. QED BY <2>2, <2>5
<1>8. ASSUME Notify(w) PROVE BInv'
  <2>1. /\ UNCHANGED <<cur, out, log>> /\ pc[w] = "notify" /\ pc'[w] = "finish"
        /\ \A v \in Slot : v # w => pc'[v] = pc[v]
    BY <1>8 DEF Notify
  <2>2. RunsInWindow'
    BY <1>2, <2>1 DEF Timely
  <2>3. QED BY <1>4, <2>1, <2>2
<1>9. ASSUME Finish(w) PROVE BInv'
  <2>1. /\ pc'[w] = "idle" /\ out'[w] = "none" /\ UNCHANGED log
        /\ \A v \in Slot : v # w => pc'[v] = pc[v] /\ out'[v] = out[v] /\ cur'[v] = cur[v]
    BY <1>9 DEF Finish, Release
  <2>2. \A v \in Slot : Timely(v)' => Timely(v) /\ pc[v] # "idle" /\ cur'[v] = cur[v]
    BY <2>1 DEF Timely, OutcomeEarned
  <2>3. RunsInWindow'
    BY <1>0, <2>2, WindowKept
  <2>4. BlockStillOpen'
    BY <2>1 DEF BlockStillOpen
  <2>5. QED BY <2>3, <2>4
<1>10. QED
  BY ONLY WorkerStep(w), <1>1, <1>3, <1>5, <1>6, <1>7, <1>8, <1>9 DEF WorkerStep

LEMMA BlockStep ==
  ASSUME OneRunPerWindow, EInv, BInv, [Next]_vars
  PROVE  BInv'
<1> USE DEF EInv, IInv, TypeOK, RunsHaveKeys, slotVars, localVars, outsideVars
<1>0. ASSUME \A w \in Slot : pc'[w] \in {"check"} \cup Submitting =>
               pc'[w] = pc[w] /\ cur'[w] = cur[w],
             \A w \in Slot : out'[w] = "success" => out[w] = "success" /\ cur'[w] = cur[w],
             \A k \in SubmitKey : log'[k] = log[k]
      PROVE  BInv'
  <2>1. \A w \in Slot : Timely(w)' => Timely(w) /\ pc[w] # "idle" /\ cur'[w] = cur[w]
    BY <1>0 DEF Timely, Submitting, OutcomeEarned
  <2>2. RunsInWindow'
    BY <2>1, WindowKept DEF BInv
  <2>3. BlockStillOpen'
    BY <1>0, OpenKept DEF BInv
  <2>4. QED BY <2>2, <2>3 DEF BInv
<1>1. CASE UNCHANGED <<slotVars, log, audit, outsideVars>>
  BY <1>0, <1>1
<1>2. ASSUME NEW r \in Row, RecordManual(r) PROVE BInv'
  <2>1. <<r, "manual">> \notin SubmitKey
    BY DEF SubmitKey, Method
  <2>2. \A k \in SubmitKey : log'[k] = log[k]
    BY <1>2, <2>1, KeyShape DEF RecordManual
  <2>3. QED BY <1>0, <1>2, <2>2 DEF RecordManual
<1>3. CASE Crash
  BY <1>0, <1>3 DEF Crash, Submitting
<1>4. ASSUME NEW w \in Slot, WorkerStep(w) PROVE BInv'
  BY <1>4, BlockRun
<1>5. ASSUME NEW w \in Slot, Fault(w) PROVE BInv'
  BY <1>0, <1>5 DEF Fault, Release, Goto, Submitting
<1>6. ASSUME NEW w \in Slot, CreateFault(w) PROVE BInv'
  BY <1>0, <1>6 DEF CreateFault, Goto, Submitting
<1>7. ASSUME NEW w \in Slot, LoseLock(w) PROVE BInv'
  BY <1>0, <1>7 DEF LoseLock
<1>8. QED
  BY QuietSteps, <1>1, <1>2, <1>3, <1>4, <1>5, <1>6, <1>7

\* Only PostForm submits, and it submits for a block that is still open.
LEMMA OnlyOpenBlocks ==
  ASSUME EInv, BInv, [Next]_vars, NEW k \in SubmitKey, posts'[k] > posts[k],
         NEW q \in Block[k[1]], NEW m \in Method
  PROVE  log[<<q, m>>] # "success"
<1> USE DEF EInv, IInv, TypeOK, outsideVars
<1>1. ~(UNCHANGED posts)
  OBVIOUS
<1>2. PICK w \in Slot : PostForm(w)
  BY <1>1, QuietSteps
  DEF RecordManual, Crash, Fault, CreateFault, LoseLock, WorkerStep, Take, Check,
      ClaimCreate, ClaimFind, ClaimPrior, ClaimReclaim, PreAttempt, OpenPage, SaveUpdate,
      SaveCreate, SaveRetry, Notify, Finish
<1>3. pc[w] = "post" /\ cur[w] \in SubmitKey
  BY <1>2 DEF PostForm, RunsHaveKeys
<1>4. posts' = posts \/ posts' = [posts EXCEPT ![cur[w]] = posts[cur[w]] + 1]
  BY ONLY <1>2 DEF PostForm, outsideVars
<1>5. cur[w] = k
  BY <1>3, <1>4
<1>6. QED
  BY <1>3, <1>5 DEF BInv, BlockStillOpen, Submitting

\* The guard reads the success rows of a block long before the form is posted.  The
\* read is still true at the POST, whatever the other slots, crashes, retries and
\* manual entries do in between, while OneRunPerWindow holds.
THEOREM ClosedBlocks == OneRunPerWindow => (Spec => NoSubmissionAfterSuccess)
<1> SUFFICES ASSUME OneRunPerWindow PROVE Spec => NoSubmissionAfterSuccess
  OBVIOUS
<1>1. ~LockLoss
  BY DEF OneRunPerWindow
<1>2. Init => BInv
  BY DEF Init, BInv, RunsInWindow, BlockStillOpen, Timely, Submitting
<1>3. EInv /\ BInv /\ [Next]_vars => BInv'
  BY BlockStep
<1>4. EInv /\ BInv /\ [Next]_vars =>
        [\A k \in SubmitKey : posts'[k] > posts[k] =>
           \A q \in Block[k[1]], m \in Method : log[<<q, m>>] # "success"]_vars
  BY OnlyOpenBlocks
<1>5. QED
  BY <1>1, <1>2, <1>3, <1>4, ExclusiveInvariance, PTL DEF Spec, NoSubmissionAfterSuccess
===============================================================================
