----------------------------- MODULE AttendanceJob -----------------------------
(***************************************************************************)
(* One student's attendance submissions on one class date: the confirm API *)
(* and the scheduler that enqueue jobs, the BullMQ queue, and the worker   *)
(* slots that run processAttendanceJob against the database and the        *)
(* university's attendance system.                                         *)
(*                                                                         *)
(* A submission key is <<row, method>>; it identifies the BullMQ jobId     *)
(* (confirm-user-row-date, auto-user-row-date) and the unique key of       *)
(* attendance_logs.  Every await of the worker that reads or writes shared *)
(* state is a step of its own, so slots, web handlers and crashes          *)
(* interleave between them.                                                *)
(***************************************************************************)
EXTENDS Naturals

CONSTANTS
  Row,        \* the student's timetable rows of the day
  Slot,       \* concurrent job slots of the worker process
  Block,      \* Block[r]: rows of the consecutive same-name block of r
  SameClass,  \* SameClass[r]: rows of the day with r's className
  RoomOf,     \* RoomOf[r]: the room of r, also the roomId of its QR code
  Window,     \* Window[r]: the ticks at which the time guards admit r
  LeadTick,   \* LeadTick[r]: the tick of the minute the scheduler fires for r
  MaxClock,   \* bound: the last tick of the day
  Modes,      \* bound: the attendance modes the student switches among
  DryRuns,    \* the values of ATTENDANCE_AUTO_DRY_RUN to consider
  PageReflects, \* TRUE: the attendance page never offers a registered row again
  PromptRuns, \* TRUE: a run of the worker ends within the tick it started in
  LockLoss,   \* TRUE: a slot's job lock may expire while the slot runs on
  MaxMishaps, \* bound: crashes, lost locks and failed DB/Redis calls together
  None        \* no row, no key

Method == {"auto", "confirm"}
SubmitKey == Row \X Method
LogKey == Row \X (Method \cup {"manual"})
Clock == 0..MaxClock
Room == {RoomOf[r] : r \in Row}

ASSUME BlockAssumption ==
  /\ Block \in [Row -> SUBSET Row]
  /\ \A r \in Row : r \in Block[r]
  /\ \A q, r \in Row : q \in Block[r] => Block[q] = Block[r]

ASSUME TimeAssumption ==
  /\ MaxClock \in Nat
  /\ Window \in [Row -> SUBSET Clock]
  /\ LeadTick \in [Row -> Clock]

ASSUME ConfigAssumption ==
  /\ Modes \subseteq Method \cup {"manual"}
  /\ DryRuns \subseteq BOOLEAN
  /\ PageReflects \in BOOLEAN
  /\ PromptRuns \in BOOLEAN
  /\ LockLoss \in BOOLEAN
  /\ MaxMishaps \in Nat
  /\ SameClass \in [Row -> SUBSET Row]
  /\ None \notin Row
  /\ None \notin SubmitKey

VARIABLES
  dryRun,    \* ATTENDANCE_AUTO_DRY_RUN of this deployment; it never changes
  clock,     \* minutes of the day that matter, as ticks
  mode,      \* users.attendanceSettings.mode ("auto" implies autoUnlocked)
  session,   \* session[room]: row linked by attendance_qr_sessions, or None
  log,       \* log[k]: status of the attendance_logs row k, "none" if absent
  audit,     \* keys with a pre_attempt row in attendance_audit_logs
  marking,   \* rows a manual-attendance request has still to record
  jobs,      \* jobs[k]: BullMQ state of the job with that jobId
  stalled,   \* keys whose job was already redelivered once by BullMQ
  pc,        \* pc[w]: where processAttendanceJob of slot w stands
  cur,       \* cur[w]: the key of the job slot w runs
  out,       \* out[w]: the status slot w is about to save
  throws,    \* throws[w]: the run of slot w rethrows after saving
  owns,      \* owns[w]: slot w still holds the lock of its job
  attended,  \* rows the attendance system shows as attended
  posts,     \* posts[k]: submissions for k the attendance system registered
  told,      \* told[r]: the last thing the student was told about r
  mishaps    \* crashes, lost locks and failed calls so far

webVars == <<mode, session, marking>>
localVars == <<cur, out, throws, owns>>
slotVars == <<pc, localVars>>
queueVars == <<jobs, stalled>>
outsideVars == <<attended, posts, dryRun>>
vars == <<clock, webVars, log, audit, queueVars, slotVars, outsideVars,
          told, mishaps>>

Pc == {"idle", "check", "claim", "find", "prior", "reclaim", "pre", "page",
       "post", "save", "create", "retry", "notify", "finish"}
Status == {"none", "pending", "skipped", "failed", "success"}

\* Types; also, a job never rests in the failed state (removeOnFail).
TypeOK ==
  /\ dryRun \in DryRuns
  /\ clock \in Clock
  /\ mode \in Modes
  /\ session \in [Room -> Row \cup {None}]
  /\ log \in [LogKey -> Status]
  /\ audit \in SUBSET SubmitKey
  /\ marking \in SUBSET Row
  /\ jobs \in [SubmitKey -> {"none", "waiting", "active", "completed"}]
  /\ stalled \in SUBSET SubmitKey
  /\ pc \in [Slot -> Pc]
  /\ cur \in [Slot -> SubmitKey \cup {None}]
  /\ out \in [Slot -> {"none", "skipped", "failed", "success"}]
  /\ throws \in [Slot -> BOOLEAN]
  /\ owns \in [Slot -> BOOLEAN]
  /\ attended \in SUBSET Row
  /\ posts \in [SubmitKey -> Nat]
  /\ told \in [Row -> {"nothing", "accepted", "done", "failed"}]
  /\ mishaps \in 0..MaxMishaps

Init ==
  /\ dryRun \in DryRuns
  /\ clock = 0
  /\ mode \in Modes
  /\ session = [m \in Room |-> None]
  /\ log = [k \in LogKey |-> "none"]
  /\ audit = {}
  /\ marking = {}
  /\ jobs = [k \in SubmitKey |-> "none"]
  /\ stalled = {}
  /\ pc = [w \in Slot |-> "idle"]
  /\ cur = [w \in Slot |-> None]
  /\ out = [w \in Slot |-> "none"]
  /\ throws = [w \in Slot |-> FALSE]
  /\ owns = [w \in Slot |-> FALSE]
  /\ attended = {}
  /\ posts = [k \in SubmitKey |-> 0]
  /\ told = [r \in Row |-> "nothing"]
  /\ mishaps = 0

-------------------------------------------------------------------------------
(* What the guards read.                                                   *)

\* Mutation: the check as it was before blocks, for the row alone.
BlockDoneRowOnly(r) ==
  \E m \in Method \cup {"manual"} : log[<<r, m>>] = "success"

\* existingSuccess: any row of r's block has a success log, by any method.
BlockDone(r) ==
  \E q \in Block[r], m \in Method \cup {"manual"} : log[<<q, m>>] = "success"

\* qrSessionValid: a live session for the room, linked to a row of the class.
SessionValid(r) == session[RoomOf[r]] \in SameClass[r]

\* The part of the method guards decided by the settings and the clock.
TimeAndModeAllow(k) == mode = k[2] /\ clock \in Window[k[1]]

\* The part of the method guards decided by the tables read afterwards.
TablesAllow(k) ==
  /\ ~BlockDone(k[1])
  /\ k[2] = "auto" => SessionValid(k[1])

-------------------------------------------------------------------------------
(* The web application and the scheduler.                                  *)

\* queue.add with a custom jobId: ignored while a job with that id exists,
\* a completed one included (removeOnComplete keeps the last 100).
Enqueue(k) ==
  /\ jobs' = [jobs EXCEPT ![k] = IF @ = "none" THEN "waiting" ELSE @]
  /\ UNCHANGED stalled

\* POST /api/attendance/submit, up to its 202.
Submit(r) ==
  LET k == <<r, "confirm">> IN
  /\ TimeAndModeAllow(k)
  /\ TablesAllow(k)
  /\ Enqueue(k)
  /\ told' = [told EXCEPT ![r] = "accepted"]
  /\ UNCHANGED <<clock, webVars, log, audit, slotVars, outsideVars, mishaps>>

\* enqueueAttendanceJobs, for one row of the current minute.
ScheduleAuto(r) ==
  /\ clock = LeadTick[r]
  /\ mode = "auto"
  /\ session[RoomOf[r]] # None
  /\ Enqueue(<<r, "auto">>)
  /\ UNCHANGED <<clock, webVars, log, audit, slotVars, outsideVars, told,
                 mishaps>>

\* POST /api/attendance/qr-validate: upsert of the session of the room.
ScanQr(r) ==
  /\ clock \in Window[r]
  /\ session' = [session EXCEPT ![RoomOf[r]] = r]
  /\ UNCHANGED <<clock, mode, marking, log, audit, queueVars, slotVars,
                 outsideVars, told, mishaps>>

\* expiresAt of a session passes.
ExpireSession(m) ==
  /\ session[m] # None
  /\ session' = [session EXCEPT ![m] = None]
  /\ UNCHANGED <<clock, mode, marking, log, audit, queueVars, slotVars,
                 outsideVars, told, mishaps>>

\* PUT /api/attendance/settings.
SetMode(m) ==
  /\ mode # m
  /\ mode' = m
  /\ UNCHANGED <<clock, session, marking, log, audit, queueVars, slotVars,
                 outsideVars, told, mishaps>>

\* POST /api/attendance/manual: the rows of the block are recorded one by one.
MarkManual(r) ==
  /\ marking = {}
  /\ marking' = Block[r]
  /\ UNCHANGED <<clock, mode, session, log, audit, queueVars, slotVars,
                 outsideVars, told, mishaps>>

\* One create of that loop; a unique violation counts as recorded.
RecordManual(r) ==
  /\ r \in marking
  /\ marking' = marking \ {r}
  /\ log' = [log EXCEPT ![<<r, "manual">>] = "success"]
  /\ UNCHANGED <<clock, mode, session, audit, queueVars, slotVars,
                 outsideVars, told, mishaps>>

\* The request fails between two creates: the rest of the block stays unmarked.
AbandonManual ==
  /\ marking # {}
  /\ marking' = {}
  /\ UNCHANGED <<clock, mode, session, log, audit, queueVars, slotVars,
                 outsideVars, told, mishaps>>

Tick ==
  /\ clock < MaxClock
  /\ PromptRuns => \A w \in Slot : pc[w] = "idle"
  /\ clock' = clock + 1
  /\ UNCHANGED <<webVars, log, audit, queueVars, slotVars, outsideVars, told,
                 mishaps>>

-------------------------------------------------------------------------------
(* The worker slots.                                                       *)

environVars == <<clock, webVars, mishaps>>

Goto(w, label) == pc' = [pc EXCEPT ![w] = label]

\* Slot w leaves its job; all its locals are gone.
Release(w) ==
  /\ Goto(w, "idle")
  /\ cur' = [cur EXCEPT ![w] = None]
  /\ out' = [out EXCEPT ![w] = "none"]
  /\ throws' = [throws EXCEPT ![w] = FALSE]
  /\ owns' = [owns EXCEPT ![w] = FALSE]

\* BullMQ settles the job of w, if w still holds its lock: a job that threw is
\* removed (removeOnFail), one that returned is kept as completed.
Settle(w, failed) ==
  IF owns[w]
  THEN /\ jobs' = [jobs EXCEPT ![cur[w]] = IF failed THEN "none" ELSE "completed"]
       /\ stalled' = stalled \ {cur[w]}
  ELSE UNCHANGED queueVars

\* w decides to save the status s and to rethrow afterwards or not.
SaveNext(w, s, rethrow) ==
  /\ Goto(w, "save")
  /\ out' = [out EXCEPT ![w] = s]
  /\ throws' = [throws EXCEPT ![w] = rethrow]
  /\ UNCHANGED <<cur, owns>>

\* A free slot takes a waiting job, and reads the row and the settings.  The job data is
\* valid and the row is there: without it a run returns at once and changes nothing.
Take(w, k) ==
  /\ pc[w] = "idle"
  /\ jobs[k] = "waiting"
  /\ jobs' = [jobs EXCEPT ![k] = "active"]
  /\ cur' = [cur EXCEPT ![w] = k]
  /\ owns' = [owns EXCEPT ![w] = TRUE]
  /\ IF TimeAndModeAllow(k)
     THEN Goto(w, "check") /\ UNCHANGED out
     ELSE Goto(w, "save") /\ out' = [out EXCEPT ![w] = "skipped"]
  /\ UNCHANGED <<environVars, log, audit, stalled, throws, outsideVars, told>>

\* The rest of the guard: success logs, session, health check; then dry run.
Check(w) ==
  /\ pc[w] = "check"
  /\ \E healthy \in BOOLEAN :
       IF /\ TablesAllow(cur[w])
          /\ healthy
          /\ ~(cur[w][2] = "auto" /\ dryRun)
       THEN Goto(w, "claim") /\ UNCHANGED localVars
       ELSE SaveNext(w, "skipped", FALSE)
  /\ UNCHANGED <<environVars, log, audit, queueVars, outsideVars, told>>

\* Mutation: an upsert in place of the create.
ClaimUpsert(w) ==
  /\ pc[w] = "claim"
  /\ Goto(w, "pre")
  /\ log' = [log EXCEPT ![cur[w]] = IF @ = "success" THEN @ ELSE "pending"]
  /\ UNCHANGED <<environVars, audit, queueVars, localVars, outsideVars, told>>

\* claimAttendanceSubmit, 1: create the pending row, or find one in the way.
ClaimCreate(w) ==
  /\ pc[w] = "claim"
  /\ IF log[cur[w]] = "none"
     THEN Goto(w, "pre") /\ log' = [log EXCEPT ![cur[w]] = "pending"]
     ELSE Goto(w, "find") /\ UNCHANGED log
  /\ UNCHANGED <<environVars, audit, queueVars, localVars, outsideVars, told>>

\* claimAttendanceSubmit, 2: a success row means already_submitted.
ClaimFind(w) ==
  /\ pc[w] = "find"
  /\ Goto(w, IF log[cur[w]] = "success" THEN "finish" ELSE "prior")
  /\ UNCHANGED <<environVars, log, audit, queueVars, localVars, outsideVars, told>>

\* Mutation: a failed row is reclaimed on its status, whatever the audit says.
ClaimPriorTrustingFailed(w) ==
  /\ pc[w] = "prior"
  /\ Goto(w, IF cur[w] \in audit /\ log[cur[w]] # "failed" THEN "finish" ELSE "reclaim")
  /\ UNCHANGED <<environVars, log, audit, queueVars, localVars, outsideVars, told>>

\* claimAttendanceSubmit, 3: a pre_attempt audit means possible_prior_submit.
ClaimPrior(w) ==
  /\ pc[w] = "prior"
  /\ Goto(w, IF cur[w] \in audit THEN "finish" ELSE "reclaim")
  /\ UNCHANGED <<environVars, log, audit, queueVars, localVars, outsideVars, told>>

\* claimAttendanceSubmit, 4: back to pending; won whatever was updated.
ClaimReclaim(w) ==
  /\ pc[w] = "reclaim"
  /\ log' = [log EXCEPT ![cur[w]] = IF @ = "success" THEN @ ELSE "pending"]
  /\ Goto(w, "pre")
  /\ UNCHANGED <<environVars, audit, queueVars, localVars, outsideVars, told>>

\* Mutation: recordAuditBestEffort before attend, its failure ignored.
PreAttemptBestEffort(w) ==
  /\ pc[w] = "pre"
  /\ audit' \in {audit, audit \cup {cur[w]}}
  /\ Goto(w, "page")
  /\ UNCHANGED <<environVars, log, queueVars, localVars, outsideVars, told>>

\* One more row for the job in hand; an error of the database is not caught.
RecordAuditRequired(w) == audit' = audit \cup {cur[w]}

\* The pre_attempt audit, which must succeed before attend.
PreAttempt(w) ==
  /\ pc[w] = "pre"
  /\ RecordAuditRequired(w)
  /\ Goto(w, "page")
  /\ UNCHANGED <<environVars, log, queueVars, localVars, outsideVars, told>>

\* Mutation: an adapter error is rethrown at once, without saveLog.
OpenPageRethrowing(w) ==
  LET r == cur[w][1] IN
  /\ pc[w] = "page"
  /\ \/ Block[r] \cap attended # {} /\ SaveNext(w, "success", FALSE)
     \/ Goto(w, "post") /\ UNCHANGED localVars
     \/ Goto(w, "finish") /\ throws' = [throws EXCEPT ![w] = TRUE]
        /\ UNCHANGED <<cur, out, owns>>
  /\ UNCHANGED <<environVars, log, audit, queueVars, outsideVars, told>>

\* attend, 1: log in and open the class room page.  It shows an attended
\* class, or the form, or anything else: no class, an error, no answer.
OpenPage(w) ==
  LET r == cur[w][1] IN
  /\ pc[w] = "page"
  /\ \/ Block[r] \cap attended # {} /\ SaveNext(w, "success", FALSE)
     \/ /\ PageReflects => r \notin attended
        /\ Goto(w, "post")
        /\ UNCHANGED localVars
     \/ \E rethrow \in BOOLEAN : SaveNext(w, "failed", rethrow)
  /\ UNCHANGED <<environVars, log, audit, queueVars, outsideVars, told>>

\* Mutation: an answer without a recognised error counts as a success.
PostFormOptimistic(w) ==
  LET k == cur[w] IN
  /\ pc[w] = "post"
  /\ \/ /\ posts' = [posts EXCEPT ![k] = @ + 1]
        /\ attended' = attended \cup {k[1]}
        /\ UNCHANGED dryRun
     \/ UNCHANGED outsideVars
  /\ SaveNext(w, "success", FALSE)
  /\ UNCHANGED <<environVars, log, audit, queueVars, told>>

\* attend, 2: POST the form.  The system registers it or not (a block it has
\* already is then answered as attended), and the answer arrives, is not
\* understood, or is lost (the adapter throws).
PostForm(w) ==
  LET k == cur[w] IN
  /\ pc[w] = "post"
  /\ \/ /\ posts' = [posts EXCEPT ![k] = @ + 1]
        /\ attended' = attended \cup {k[1]}
        /\ UNCHANGED dryRun
        /\ \/ SaveNext(w, "success", FALSE)
           \/ \E rethrow \in BOOLEAN : SaveNext(w, "failed", rethrow)
     \/ /\ \/ Block[k[1]] \cap attended # {} /\ SaveNext(w, "success", FALSE)
           \/ \E rethrow \in BOOLEAN : SaveNext(w, "failed", rethrow)
        /\ UNCHANGED outsideVars
  /\ UNCHANGED <<environVars, log, audit, queueVars, told>>

\* Mutation: saveLog updates the row whatever its status.
MayOverwriteAny(k, status) == TRUE

\* The where clause of saveLog: only a success may overwrite a success row.
MayOverwrite(k, status) == status = "success" \/ log[k] # "success"

\* saveLog, 1: update the row if there is one that may be overwritten.
SaveUpdate(w) ==
  LET k == cur[w] IN
  /\ pc[w] = "save"
  /\ IF log[k] # "none" /\ MayOverwrite(k, out[w])
     THEN Goto(w, "notify") /\ log' = [log EXCEPT ![k] = out[w]]
     ELSE Goto(w, "create") /\ UNCHANGED log
  /\ UNCHANGED <<environVars, audit, queueVars, localVars, outsideVars, told>>

\* saveLog, 2: nothing was updated; create the row, or lose to another.
SaveCreate(w) ==
  LET k == cur[w] IN
  /\ pc[w] = "create"
  /\ IF log[k] = "none"
     THEN Goto(w, "notify") /\ log' = [log EXCEPT ![k] = out[w]]
     ELSE Goto(w, "retry") /\ UNCHANGED log
  /\ UNCHANGED <<environVars, audit, queueVars, localVars, outsideVars, told>>

\* Mutation: the update is repeated until it changes a row.
SaveRetryUntilUpdated(w) ==
  LET k == cur[w]
      updates == log[k] # "none" /\ MayOverwrite(k, out[w])
  IN
  /\ pc[w] = "retry"
  /\ log' = IF updates THEN [log EXCEPT ![k] = out[w]] ELSE log
  /\ Goto(w, IF updates THEN "notify" ELSE "create")
  /\ UNCHANGED <<environVars, audit, queueVars, localVars, outsideVars, told>>

\* saveLog, 3: the same update once more.
SaveRetry(w) ==
  LET k == cur[w] IN
  /\ pc[w] = "retry"
  /\ log' = IF log[k] # "none" /\ MayOverwrite(k, out[w])
            THEN [log EXCEPT ![k] = out[w]]
            ELSE log
  /\ Goto(w, "notify")
  /\ UNCHANGED <<environVars, audit, queueVars, localVars, outsideVars, told>>

\* notifyUser: the push says done or failed.
Notify(w) ==
  /\ pc[w] = "notify"
  /\ told' = [told EXCEPT ![cur[w][1]] =
                IF out[w] = "success" THEN "done" ELSE "failed"]
  /\ Goto(w, "finish")
  /\ UNCHANGED <<environVars, log, audit, queueVars, localVars, outsideVars>>

\* The run returns or rethrows.
Finish(w) ==
  /\ pc[w] = "finish"
  /\ Settle(w, throws[w])
  /\ Release(w)
  /\ UNCHANGED <<environVars, log, audit, outsideVars, told>>

WorkerStep(w) ==
  \/ \E k \in SubmitKey : Take(w, k)
  \/ Check(w) \/ ClaimCreate(w) \/ ClaimFind(w) \/ ClaimPrior(w)
  \/ ClaimReclaim(w) \/ PreAttempt(w) \/ OpenPage(w) \/ PostForm(w)
  \/ SaveUpdate(w) \/ SaveCreate(w) \/ SaveRetry(w) \/ Notify(w) \/ Finish(w)

-------------------------------------------------------------------------------
(* The queue and what goes wrong.                                          *)

\* A job is active in Redis but no slot holds its lock.
Orphaned(k) ==
  /\ jobs[k] = "active"
  /\ \A w \in Slot : ~(owns[w] /\ cur[w] = k)

\* BullMQ's stalled check: redelivered the first time, failed the second.
Redeliver(k) ==
  /\ Orphaned(k)
  /\ IF k \in stalled
     THEN /\ jobs' = [jobs EXCEPT ![k] = "none"]
          /\ stalled' = stalled \ {k}
     ELSE /\ jobs' = [jobs EXCEPT ![k] = "waiting"]
          /\ stalled' = stalled \cup {k}
  /\ UNCHANGED <<clock, webVars, log, audit, slotVars, outsideVars, told,
                 mishaps>>

\* A completed job falls off the hundred that are kept.
EvictCompleted(k) ==
  /\ jobs[k] = "completed"
  /\ jobs' = [jobs EXCEPT ![k] = "none"]
  /\ UNCHANGED <<clock, webVars, log, audit, stalled, slotVars, outsideVars,
                 told, mishaps>>

Mishap ==
  /\ mishaps < MaxMishaps
  /\ mishaps' = mishaps + 1

\* The worker process dies and restarts: every slot forgets its run.
Crash ==
  /\ \E w \in Slot : pc[w] # "idle"
  /\ Mishap
  /\ pc' = [w \in Slot |-> "idle"]
  /\ cur' = [w \in Slot |-> None]
  /\ out' = [w \in Slot |-> "none"]
  /\ throws' = [w \in Slot |-> FALSE]
  /\ owns' = [w \in Slot |-> FALSE]
  /\ UNCHANGED <<clock, webVars, log, audit, queueVars, outsideVars, told>>

\* A database or Redis call of w throws out of processAttendanceJob (for the
\* pre_attempt step also: the credentials cannot be decrypted).  Calls whose
\* errors the code catches are not here: attend, and the create of saveLog.
Fault(w) ==
  /\ pc[w] \in {"check", "claim", "find", "prior", "reclaim", "pre", "save",
                "retry", "notify"}
  /\ Mishap
  /\ Settle(w, TRUE)
  /\ Release(w)
  /\ UNCHANGED <<clock, webVars, log, audit, outsideVars, told>>

\* The create of saveLog fails without a row in the way; the error is caught.
CreateFault(w) ==
  /\ pc[w] = "create"
  /\ Mishap
  /\ Goto(w, "retry")
  /\ UNCHANGED <<clock, webVars, log, audit, queueVars, localVars, outsideVars, told>>

\* The lock of w's job expires (blocked event loop, Redis out of reach).
LoseLock(w) ==
  /\ LockLoss
  /\ owns[w]
  /\ Mishap
  /\ owns' = [owns EXCEPT ![w] = FALSE]
  /\ UNCHANGED <<clock, webVars, log, audit, queueVars, pc, cur, out, throws,
                 outsideVars, told>>

Next ==
  \/ \E r \in Row : \/ Submit(r) \/ ScheduleAuto(r) \/ ScanQr(r)
                    \/ MarkManual(r) \/ RecordManual(r)
  \/ \E m \in Room : ExpireSession(m)
  \/ \E m \in Modes : SetMode(m)
  \/ AbandonManual \/ Tick \/ Crash
  \/ \E w \in Slot : WorkerStep(w) \/ Fault(w) \/ CreateFault(w) \/ LoseLock(w)
  \/ \E k \in SubmitKey : Redeliver(k) \/ EvictCompleted(k)

Spec == Init /\ [][Next]_vars

\* BullMQ keeps polling and every awaited call returns or times out, so a slot
\* never stops in the middle of a run and a stalled job is noticed.
Fairness ==
  /\ \A w \in Slot : WF_vars(WorkerStep(w))
  /\ \A k \in SubmitKey :
       WF_vars(Redeliver(k)) /\ SF_vars(\E w \in Slot : Take(w, k))

FairSpec == Spec /\ Fairness

-------------------------------------------------------------------------------
(* Properties.                                                             *)

\* However jobs are retried, redelivered or crash, no key is submitted to the
\* attendance system twice: claimAttendanceSubmit never lets a second run with
\* the same user, row, date and method reach attend.  Needs ~LockLoss.
AtMostOneSubmission == \A k \in SubmitKey : posts[k] <= 1

\* No submission leaves the worker without its pre_attempt audit row: what
\* recordAuditRequired is for, and what the claim of a later run relies on.
SubmissionIsAudited == \A k \in SubmitKey : posts[k] > 0 => k \in audit

\* A success row written by the worker is true: the attendance system has
\* registered a row of the block.  Lost answers, failed saves and overtaking
\* runs never turn into a success that did not happen.
SuccessIsEarned ==
  \A k \in SubmitKey : log[k] = "success" => Block[k[1]] \cap attended # {}

\* A success row is final: no later guard rejection, failure or claim of any
\* slot downgrades it (the where clauses of saveLog and of the reclaim).
SuccessIsFinal ==
  [][\A k \in LogKey : log[k] = "success" => log'[k] = "success"]_vars

\* What the property below needs: locks that last, runs that end within their
\* tick, a student who stays with one mode, and rows of a block that are never
\* admitted at the same time (class windows do not overlap).
OneRunPerWindow ==
  /\ ~LockLoss
  /\ PromptRuns
  /\ \A m, n \in Modes : m = n
  /\ \A q, r \in Row : q \in Block[r] /\ q # r => Window[q] \cap Window[r] = {}

\* One registration per block: once a worker's success is recorded for a row of
\* the block, nothing more is submitted for any of its rows that day.  Needs
\* OneRunPerWindow: the guard's read of the block is stale by the time of the POST.
NoSubmissionAfterSuccess ==
  [][\A k \in SubmitKey : posts'[k] > posts[k] =>
       \A q \in Block[k[1]], m \in Method : log[<<q, m>>] # "success"]_vars

\* A dry run leaves nothing behind that a later claim or reader could take for a
\* submission: no pre_attempt audit, no row in flight or with a result, no POST.
DryRunSendsNothing ==
  dryRun => \A r \in Row :
    /\ <<r, "auto">> \notin audit
    /\ log[<<r, "auto">>] \in {"none", "skipped"}
    /\ posts[<<r, "auto">>] = 0

\* The promise of SubmissionLedger is kept by the worker.  Needs ~LockLoss.
Ledger == INSTANCE SubmissionLedger WITH tried <- audit, sent <- posts

\* Every behaviour of the job queue and the worker is one of the ledger: one try
\* per key, on record before it is sent, and final successes.
LedgerImplemented == Ledger!LedgerSpec

\* A job that is waiting or active ends: it is completed or removed, and never
\* circles in saveLog or stays active without an owner.
JobsSettle ==
  \A k \in SubmitKey :
    jobs[k] \in {"waiting", "active"} ~> jobs[k] \in {"none", "completed"}

\* Without crashes and failed calls a pending row gets its result, also when the
\* adapter throws (the catch around adapter.attend saves before it rethrows).
PendingResolves ==
  \A k \in SubmitKey : log[k] = "pending" ~> log[k] # "pending" \/ mishaps > 0

\* One submission per row, whatever the method.  The code does not keep this:
\* the claim is per method, and the mode can change while a run is under way.
RowSubmittedOnce ==
  \A r \in Row : posts[<<r, "auto">>] + posts[<<r, "confirm">>] <= 1

\* A confirm request answered with 202 has a job that will still run.  The code
\* does not keep this: a completed job keeps the jobId, and queue.add ignores.
AcceptedSubmitRuns ==
  [][\A r \in Row : (told[r] # "accepted" /\ told'[r] = "accepted") =>
       jobs'[<<r, "confirm">>] \in {"waiting", "active"}]_vars

\* A confirm run that returns has an outcome it saved and pushed.  The code does
\* not keep this: a claim that is not won returns without telling the student.
FinishedRunHasOutcome ==
  \A w \in Slot : (pc[w] = "finish" /\ cur[w][2] = "confirm") => out[w] # "none"
===============================================================================
