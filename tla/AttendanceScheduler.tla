-------------------------- MODULE AttendanceScheduler --------------------------
(***************************************************************************)
(* The scheduler's minute tick: enqueueAttendanceJobs, which turns a QR    *)
(* session into an attendance job five minutes before a class of a student *)
(* in auto mode, and enqueueConfirmReminders, which reminds a student in   *)
(* confirm mode ten minutes before.  Every worker process has a timer of   *)
(* its own, so a tick may be missed (a restart, a busy event loop) or come *)
(* twice (two processes during a deployment).                              *)
(*                                                                         *)
(* A job is <<kind, row>>, which with the date is its BullMQ jobId.        *)
(***************************************************************************)
EXTENDS AttendanceRules, FiniteSets

CONSTANTS
  Timetable,   \* rows of all students, also with the field user
  QrRooms,     \* the room ids on the QR codes
  HasCreds,    \* students with credentials of the portal at the start
  Process,     \* worker processes
  Times,       \* bound: the moments visited, a sequence of times
  MaxEvents,   \* bound: changes of settings and credentials, and mishaps: restarts,
               \* missed ticks, failed queue.add and failed jobs
  None         \* no run, no session, no room

Row == DOMAIN Timetable
User == {Timetable[r].user : r \in Row}
Kind == {"auto", "reminder"}
Job == Kind \X Row

ASSUME SchedulerAssumption ==
  /\ Times \in Seq(Nat) /\ Times # <<>>
  /\ \A i, j \in DOMAIN Times : i <= j => Times[i] <= Times[j]
  /\ HasCreds \subseteq User
  /\ Process # {}
  /\ MaxEvents \in Nat
  /\ None \notin [at : Nat, todo : SUBSET Row, wanted : SUBSET Row, read : BOOLEAN]

VARIABLES
  now,       \* index of the current moment in Times
  settings,  \* settings[u]: attendanceSettings, normalised
  creds,     \* students with encryptedCitCreds
  since,     \* since[u]: when settings or credentials were last changed
  changes,   \* changes so far
  session,   \* session[u][room]: row, creation and expiry of the QR session
  due,       \* processes whose timer has yet to fire in this minute
  run,       \* run[p][k]: the run of kind k in process p
  jobs,      \* the jobs the queue knows, finished ones included
  added,     \* added[j]: how often j was put into the queue
  failed,    \* jobs that failed
  mishaps    \* mishaps so far

userVars == <<settings, creds, since, changes, session>>
queueVars == <<jobs, added, failed>>
vars == <<now, userVars, due, run, queueVars, mishaps>>

Time == Times[now]
Rows(u) == [r \in {q \in Row : Timetable[q].user = u} |-> Timetable[r]]
Block(r) == BlockRowIds(Rows(Timetable[r].user), r)

ReminderLead == 10
SessionMinutes == 150  \* QR_SESSION_TTL_MS

\* How many minutes before the start of a period a tick looks for its rows.
LeadOf(k) == IF k = "auto" THEN Lead ELSE ReminderLead
IsDue(k, r, t) ==
  /\ Timetable[r].room # None
  /\ Parts(t).dayOfWeek = Timetable[r].dayOfWeek
  /\ Timetable[r].period \in DOMAIN PeriodStart
  /\ Parts(t).minute = PeriodStart[Timetable[r].period] - LeadOf(k)

\* The settings and credentials for which a row is not skipped.
Wanted(k, u) ==
  IF k = "auto"
  THEN settings[u].mode = "auto" /\ settings[u].unlocked /\ u \in creds
  ELSE settings[u].mode = "confirm"

Idle == [k \in Kind |-> None]

Choices == {[mode |-> "manual", unlocked |-> FALSE],
            [mode |-> "confirm", unlocked |-> FALSE],
            [mode |-> "auto", unlocked |-> TRUE]}

Init ==
  /\ now = 1
  /\ settings \in [User -> Choices]
  /\ creds = HasCreds
  /\ since = [u \in User |-> 0]
  /\ changes = 0
  /\ session = [u \in User |-> [room \in QrRooms |-> None]]
  /\ due = Process
  /\ run = [p \in Process |-> Idle]
  /\ jobs = {}
  /\ added = [j \in Job |-> 0]
  /\ failed = {}
  /\ mishaps = 0

Mishap == changes + mishaps < MaxEvents /\ mishaps' = mishaps + 1

-------------------------------------------------------------------------------
(* The tick.                                                               *)

\* The timer fires: both functions note the time and begin to read.
Fire(p) ==
  /\ p \in due
  /\ due' = due \ {p}
  /\ run' = [run EXCEPT ![p] = [k \in Kind |->
       IF \E r \in Row : IsDue(k, r, Time)
       THEN [at |-> Time, todo |-> {}, wanted |-> {}, read |-> FALSE]
       ELSE None]]
  /\ UNCHANGED <<now, userVars, queueVars, mishaps>>

\* findMany: the rows of the period, with the settings of their students.
Read(p, k) ==
  LET rows == {r \in Row : IsDue(k, r, run[p][k].at)} IN
  /\ run[p][k] # None
  /\ ~run[p][k].read
  /\ run' = [run EXCEPT ![p][k] =
       [@ EXCEPT !.read = TRUE, !.todo = rows,
                 !.wanted = {r \in rows : Wanted(k, Timetable[r].user)}]]
  /\ UNCHANGED <<now, userVars, due, queueVars, mishaps>>

\* A session for exactly the room the timetable names, and not expired.
HasSession(r, t) ==
  /\ Timetable[r].room \in QrRooms
  /\ session[Timetable[r].user][Timetable[r].room] # None
  /\ session[Timetable[r].user][Timetable[r].room].expires > t

\* qrSessionValid, as the worker computes it when it has the job.
SessionValid(r, room, t) ==
  LET s == session[Timetable[r].user][room] IN
  /\ s # None
  /\ s.expires > t
  /\ RoomMatches(Timetable[r].room, room)
  /\ Timetable[s.row].className = Timetable[r].className

Selected(p, k, r) ==
  /\ r \in run[p][k].wanted
  /\ k = "auto" => HasSession(r, run[p][k].at)

Working(p, k) == run[p][k] # None /\ run[p][k].read
Without(p, k, rows) == [run EXCEPT ![p][k].todo = @ \ rows]

\* Mutation: no jobId, so that the queue does not recognise a job it has.
AddAgain(j) == added' = [added EXCEPT ![j] = @ + 1] /\ jobs' = jobs \cup {j}

\* queue.add: ignored while the queue knows the jobId.
Add(j) ==
  /\ added' = [added EXCEPT ![j] = IF j \in jobs THEN @ ELSE @ + 1]
  /\ jobs' = jobs \cup {j}

\* Mutation: the first row that is not selected ends the run.
ConsiderUntilSkipped(p, k, r) ==
  /\ Working(p, k)
  /\ r \in run[p][k].todo
  /\ IF Selected(p, k, r)
     THEN Add(<<k, r>>) /\ run' = Without(p, k, {r})
     ELSE run' = Without(p, k, Row) /\ UNCHANGED <<jobs, added>>
  /\ UNCHANGED <<now, userVars, due, failed, mishaps>>

\* One turn of the loop over the rows, which come in any order.
Consider(p, k, r) ==
  /\ Working(p, k)
  /\ r \in run[p][k].todo
  /\ run' = Without(p, k, {r})
  /\ IF Selected(p, k, r) THEN Add(<<k, r>>) ELSE UNCHANGED <<jobs, added>>
  /\ UNCHANGED <<now, userVars, due, failed, mishaps>>

\* queue.add fails: the rest of the rows of this minute is lost with it.
AddFails(p, k, r) ==
  /\ Working(p, k)
  /\ r \in run[p][k].todo
  /\ Selected(p, k, r)
  /\ Mishap
  /\ run' = [run EXCEPT ![p][k] = None]
  /\ UNCHANGED <<now, userVars, due, queueVars>>

EndRun(p, k) ==
  /\ Working(p, k)
  /\ run[p][k].todo = {}
  /\ run' = [run EXCEPT ![p][k] = None]
  /\ UNCHANGED <<now, userVars, due, queueVars, mishaps>>

\* The process restarts; its new timer fires a minute later at the earliest.
Restart(p) ==
  /\ Mishap
  /\ run' = [run EXCEPT ![p] = Idle]
  /\ due' = due \ {p}
  /\ UNCHANGED <<now, userVars, queueVars>>

\* A worker fails the job; removeOnFail frees the jobId.
FailJob(j) ==
  /\ j \in jobs
  /\ Mishap
  /\ jobs' = jobs \ {j}
  /\ failed' = failed \cup {j}
  /\ UNCHANGED <<now, userVars, due, run, added>>

-------------------------------------------------------------------------------
(* Students and time.                                                      *)

\* POST /api/attendance/qr-validate of today, for a row of the student.
ScanFor(r, room, minutes) ==
  /\ ConfirmGuard(Timetable[r], room, Parts(Time).day, Time, FALSE, TRUE) = "allowed"
  /\ session' = [session EXCEPT ![Timetable[r].user][room] =
                   [row |-> r, at |-> Time, expires |-> Time + minutes]]
  /\ UNCHANGED <<now, settings, creds, since, changes, due, run, queueVars, mishaps>>

\* Mutation: sessions of two hours.
ScanTwoHours(r, room) == ScanFor(r, room, 120)

Scan(r, room) == ScanFor(r, room, SessionMinutes)

Change(u) ==
  /\ changes + mishaps < MaxEvents
  /\ since' = [since EXCEPT ![u] = Time]
  /\ changes' = changes + 1
  /\ UNCHANGED <<now, session, due, run, queueVars, mishaps>>

\* PUT /api/attendance/settings.
ChangeSettings(u, s) ==
  /\ settings[u] # s
  /\ settings' = [settings EXCEPT ![u] = s]
  /\ Change(u)
  /\ UNCHANGED creds

\* PUT /api/credentials: they can be added and replaced, never removed.
RegisterCreds(u) ==
  /\ u \notin creds
  /\ creds' = creds \cup {u}
  /\ Change(u)
  /\ UNCHANGED settings

\* Time passes once the runs are over; a timer that has not fired in a minute
\* that matters has missed it.
Tick ==
  /\ now < Len(Times)
  /\ run = [p \in Process |-> Idle]
  /\ IF due = {} THEN UNCHANGED mishaps ELSE Mishap
  /\ now' = now + 1
  /\ due' = Process
  /\ UNCHANGED <<userVars, run, queueVars>>

Next ==
  \/ \E p \in Process : Fire(p) \/ Restart(p)
  \/ \E p \in Process, k \in Kind : Read(p, k) \/ EndRun(p, k)
  \/ \E p \in Process, k \in Kind, r \in Row : Consider(p, k, r) \/ AddFails(p, k, r)
  \/ \E j \in Job : FailJob(j)
  \/ \E r \in Row, room \in QrRooms : Scan(r, room)
  \/ \E u \in User, s \in Choices : ChangeSettings(u, s)
  \/ \E u \in User : RegisterCreds(u)
  \/ Tick

Spec == Init /\ [][Next]_vars

-------------------------------------------------------------------------------
(* Properties.                                                             *)

\* Blocks have at most three periods, as the comment of QR_SESSION_TTL_MS has it:
\* what EveryRowQueued and OneScanSuffices rest on.
ShortBlocks ==
  \A r \in Row : \A q \in Block(r) : Timetable[r].period <= Timetable[q].period + 2

\* The QR code of the block of r was scanned before t on the same day, in the
\* room that the timetable names for r.
Scanned(r, t) ==
  LET s == session[Timetable[r].user][Timetable[r].room] IN
  /\ Timetable[r].room \in QrRooms
  /\ s # None
  /\ s.row \in Block(r)
  /\ Parts(s.at).day = Parts(t).day
  /\ s.at < t

\* One scan in the window of any row of a block, up to three periods, is enough
\* for each later row of the block: when its minute comes the scheduler finds
\* the session, and the guard of the worker allows the job.
OneScanSuffices ==
  \A r \in Row :
    IsDue("auto", r, Time) /\ Wanted("auto", Timetable[r].user) /\ Scanned(r, Time)
      => /\ HasSession(r, Time)
         /\ AutoGuard(Timetable[r], Timetable[r].room, Time,
                      settings[Timetable[r].user],
                      SessionValid(r, Timetable[r].room, Time), FALSE, TRUE) = "allowed"

\* Every row that was due and wanted has been queued, whatever the other rows
\* and students of its minute look like: a student who had set the mode before,
\* and for auto scanned the QR code of the block, gets a job or a reminder unless
\* a tick was missed or the queue failed.  For auto the timetable must spell
\* the room as the QR code does: HasSession compares letter by letter.
EveryRowQueued ==
  mishaps = 0 =>
    \A k \in Kind, r \in Row : \A i \in 1..(now - 1) :
      (/\ IsDue(k, r, Times[i])
       /\ Wanted(k, Timetable[r].user)
       /\ since[Timetable[r].user] < Times[i]
       /\ k = "auto" => Scanned(r, Times[i])) => added[<<k, r>>] > 0

\* No job and no reminder is queued twice, however ticks repeat, processes
\* restart or run side by side, unless it failed in between.
QueuedOnce == \A j \in Job : added[j] <= 1 \/ j \in failed
===============================================================================
