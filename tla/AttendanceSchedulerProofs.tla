----------------------- MODULE AttendanceSchedulerProofs -----------------------
(***************************************************************************)
(* The jobId of a scheduled job keeps it single, one scan serves a block   *)
(* and no wanted row is skipped, for any timetable, any number of students *)
(* and processes, and any sequence of ticks.  At the end, what             *)
(* AttendanceJob takes for granted of blocks and windows.                  *)
(***************************************************************************)
EXTENDS AttendanceScheduler, TLAPS

\* A job the queue does not know has not been added, unless it failed.  That is
\* what makes the next Add of it the first.
JobsKnown ==
  /\ added \in [Job -> Nat]
  /\ \A j \in Job : j \in jobs \/ added[j] = 0 \/ j \in failed

IInv == JobsKnown /\ QueuedOnce

LEMMA InitIInv == Init => IInv
BY DEF Init, IInv, JobsKnown, QueuedOnce

\* Adding a job, known or not, keeps the invariant.
LEMMA AddIInv ==
  ASSUME NEW j \in Job, IInv, Add(j), UNCHANGED failed
  PROVE  IInv'
BY DEF Add, IInv, JobsKnown, QueuedOnce

\* Only Consider and FailJob touch the queue.
LEMMA NextIInv == IInv /\ [Next]_vars => IInv'
<1> SUFFICES ASSUME IInv, [Next]_vars PROVE IInv'
  OBVIOUS
<1>1. ASSUME UNCHANGED queueVars PROVE IInv'
  BY <1>1 DEF queueVars, IInv, JobsKnown, QueuedOnce
<1>2. ASSUME NEW p \in Process, Fire(p) PROVE IInv'
  BY <1>1, <1>2 DEF Fire
<1>3. ASSUME NEW p \in Process, Restart(p) PROVE IInv'
  BY <1>1, <1>3 DEF Restart
<1>4. ASSUME NEW p \in Process, NEW k \in Kind, Read(p, k) PROVE IInv'
  BY <1>1, <1>4 DEF Read
<1>5. ASSUME NEW p \in Process, NEW k \in Kind, EndRun(p, k) PROVE IInv'
  BY <1>1, <1>5 DEF EndRun
<1>6. ASSUME NEW p \in Process, NEW k \in Kind, NEW r \in Row, Consider(p, k, r)
      PROVE IInv'
  <2>1. <<k, r>> \in Job
    BY DEF Job
  <2>2. CASE Add(<<k, r>>)
    BY <1>6, <2>1, <2>2, AddIInv DEF Consider
  <2>3. CASE UNCHANGED <<jobs, added>>
    BY <1>1, <1>6, <2>3 DEF Consider, queueVars
  <2> QED
    BY <1>6, <2>2, <2>3 DEF Consider
<1>7. ASSUME NEW p \in Process, NEW k \in Kind, NEW r \in Row, AddFails(p, k, r)
      PROVE IInv'
  BY <1>1, <1>7 DEF AddFails
<1>8. ASSUME NEW j \in Job, FailJob(j) PROVE IInv'
  BY <1>8 DEF FailJob, IInv, JobsKnown, QueuedOnce
<1>9. ASSUME NEW r \in Row, NEW room \in QrRooms, Scan(r, room) PROVE IInv'
  BY <1>1, <1>9 DEF Scan, ScanFor
<1>10. ASSUME NEW u \in User, NEW s \in Choices, ChangeSettings(u, s) PROVE IInv'
  BY <1>1, <1>10 DEF ChangeSettings, Change
<1>11. ASSUME NEW u \in User, RegisterCreds(u) PROVE IInv'
  BY <1>1, <1>11 DEF RegisterCreds, Change
<1>12. CASE Tick
  BY <1>1, <1>12 DEF Tick
<1>13. CASE UNCHANGED vars
  BY <1>1, <1>13 DEF vars
<1> QED
  BY <1>2, <1>3, <1>4, <1>5, <1>6, <1>7, <1>8, <1>9, <1>10, <1>11, <1>12,
     <1>13 DEF Next

\* No job and no reminder is queued a second time unless it failed, whatever the
\* ticks, restarts, scans and settings: the jobId of scheduler.ts is enough.
THEOREM JobsQueuedOnce == Spec => []QueuedOnce
<1>1. IInv => QueuedOnce
  BY DEF IInv
<1> QED
  BY InitIInv, NextIInv, <1>1, PTL DEF Spec

-------------------------------------------------------------------------------
(* One scan is enough.                                                     *)

SessionType == [row : Row, at : Nat, expires : Nat]
RunType == [at : Nat, todo : SUBSET Row, wanted : SUBSET Row, read : BOOLEAN]

Typed ==
  /\ now \in DOMAIN Times
  /\ settings \in [User -> Choices]
  /\ creds \subseteq User
  /\ since \in [User -> Nat]
  /\ session \in [User -> [QrRooms -> SessionType \cup {None}]]
  /\ due \subseteq Process
  /\ run \in [Process -> [Kind -> RunType \cup {None}]]
  /\ mishaps \in Nat

\* A session is made by a scan: at the time of a class of the student in a room
\* of that name, and for 150 minutes.
SessionsScanned ==
  \A u \in User, room \in QrRooms :
    LET s == session[u][room] IN
    s # None => /\ s.expires = s.at + SessionMinutes
                /\ InWindow(Timetable[s.row], s.at)
                /\ NormalizeRoom(room) # <<>>


LEMMA InitTyped == Init => Typed
BY SchedulerAssumption DEF Init, Typed, Idle

\* The part of the state a step of the timers or the students touches.
LEMMA NextTyped == Typed /\ [Next]_vars => Typed'
<1> SUFFICES ASSUME Typed, [Next]_vars PROVE Typed'
  OBVIOUS
<1> USE DEF Typed
<1>1. Time \in Nat
  BY SchedulerAssumption DEF Time
<1>2. \A r \in Row : Timetable[r].user \in User
  BY DEF User
<1>3. ASSUME NEW p \in Process, Fire(p) PROVE Typed'
  BY <1>1, <1>3 DEF Fire, userVars, RunType
<1>4. ASSUME NEW p \in Process, Restart(p) PROVE Typed'
  BY <1>4 DEF Restart, Mishap, userVars, Idle
<1>5. ASSUME NEW p \in Process, NEW k \in Kind, Read(p, k) PROVE Typed'
  <2>1. run[p][k] \in RunType
    BY <1>5 DEF Read
  <2> DEFINE rows == {r \in Row : IsDue(k, r, run[p][k].at)}
             wanted == {r \in rows : Wanted(k, Timetable[r].user)}
             next == [run[p][k] EXCEPT !.read = TRUE, !.todo = rows, !.wanted = wanted]
  <2>2. rows \in SUBSET Row /\ wanted \in SUBSET Row
    OBVIOUS
  <2> HIDE DEF rows, wanted
  <2>3. next \in RunType
    BY <2>1, <2>2 DEF RunType
  <2>4. run' = [run EXCEPT ![p][k] = next]
    BY <1>5 DEF Read, rows, wanted
  <2> HIDE DEF next
  <2>5. run' \in [Process -> [Kind -> RunType \cup {None}]]
    BY <2>3, <2>4
  <2> QED
    BY <1>5, <2>5 DEF Read, userVars
<1>6. ASSUME NEW p \in Process, NEW k \in Kind, NEW rows \in SUBSET Row, Working(p, k)
      PROVE  Without(p, k, rows) \in [Process -> [Kind -> RunType \cup {None}]]
  <2>1. run[p][k] \in RunType
    BY <1>6 DEF Working
  <2>2. [run[p][k] EXCEPT !.todo = @ \ rows] \in RunType
    BY <2>1 DEF RunType
  <2> QED
    BY <2>2 DEF Without
<1>7. ASSUME NEW p \in Process, NEW k \in Kind, EndRun(p, k) PROVE Typed'
  BY <1>7 DEF EndRun, userVars
<1>8. ASSUME NEW p \in Process, NEW k \in Kind, NEW r \in Row, Consider(p, k, r) PROVE Typed'
  BY <1>6, <1>8 DEF Consider, userVars
<1>9. ASSUME NEW p \in Process, NEW k \in Kind, NEW r \in Row, AddFails(p, k, r) PROVE Typed'
  BY <1>9 DEF AddFails, Mishap, userVars
<1>10. ASSUME NEW j \in Job, FailJob(j) PROVE Typed'
  BY <1>10 DEF FailJob, Mishap, userVars
<1>11. ASSUME NEW r \in Row, NEW room \in QrRooms, Scan(r, room) PROVE Typed'
  <2>1. [row |-> r, at |-> Time, expires |-> Time + SessionMinutes] \in SessionType
    BY <1>1 DEF SessionType, SessionMinutes
  <2> QED
    BY <1>2, <1>11, <2>1 DEF Scan, ScanFor
<1>12. ASSUME NEW u \in User, NEW s \in Choices, ChangeSettings(u, s) PROVE Typed'
  BY <1>1, <1>12 DEF ChangeSettings, Change
<1>13. ASSUME NEW u \in User, RegisterCreds(u) PROVE Typed'
  BY <1>1, <1>13 DEF RegisterCreds, Change
<1>14. CASE Tick
  BY <1>14, SchedulerAssumption DEF Tick, Mishap, userVars, Idle
<1>15. CASE UNCHANGED vars
  BY <1>15 DEF vars, userVars
<1> QED
  BY <1>3, <1>4, <1>5, <1>7, <1>8, <1>9, <1>10, <1>11, <1>12, <1>13, <1>14, <1>15 DEF Next

LEMMA AlwaysTyped == Spec => []Typed
BY InitTyped, NextTyped, PTL DEF Spec

LEMMA InitSessions == Init => SessionsScanned
BY DEF Init, SessionsScanned

\* Only a scan makes a session.
LEMMA NextSessions ==
  ASSUME Typed, SessionsScanned, [Next]_vars
  PROVE  SessionsScanned'
<1>1. ASSUME NEW r \in Row, NEW room \in QrRooms, Scan(r, room) PROVE SessionsScanned'
  <2>1. /\ session' = [session EXCEPT ![Timetable[r].user][room] =
                         [row |-> r, at |-> Time, expires |-> Time + SessionMinutes]]
        /\ ConfirmGuard(Timetable[r], room, Parts(Time).day, Time, FALSE, TRUE) = "allowed"
    BY <1>1 DEF Scan, ScanFor
  <2>2. RoomMatches(Timetable[r].room, room) /\ InWindow(Timetable[r], Time)
    BY <2>1 DEF ConfirmGuard
  <2>3. NormalizeRoom(room) # <<>>
    BY <2>2 DEF RoomMatches
  <2>4. Timetable[r].user \in User
    BY DEF User
  <2> QED
    BY <2>1, <2>2, <2>3, <2>4 DEF Typed, SessionsScanned
<1>2. CASE session' = session
  BY <1>2 DEF SessionsScanned
<1>3. session' = session \/ \E r \in Row, room \in QrRooms : Scan(r, room)
  BY DEF Next, vars, userVars, Fire, Restart, Read, EndRun, Consider, AddFails, FailJob,
     ChangeSettings, RegisterCreds, Change, Tick
<1> QED
  BY <1>1, <1>2, <1>3

\* The row scanned is of the same student, day and class name.
LEMMA BlockSame ==
  ASSUME NEW r \in Row, NEW q \in Block(r)
  PROVE  /\ q \in Row
         /\ Timetable[q].user = Timetable[r].user
         /\ Timetable[q].className = Timetable[r].className
BY DEF Block, BlockRowIds, Rows

\* From the earliest scan for a row to the tick of the third row of its block it
\* is 122 minutes.
LEMMA TickInTime ==
  ASSUME NEW at \in Nat, NEW t \in Nat, NEW p \in 1..10, NEW q \in 1..10,
         Parts(at).day = Parts(t).day, p <= q + 2,
         Near(Parts(at).minute, PeriodStart[q]), Parts(t).minute = PeriodStart[p] - Lead
  PROVE  at + SessionMinutes > t
<1>1. /\ at % 1440 \in (60 * (8 + q) - 7)..(60 * (8 + q) - 3)
      /\ t % 1440 = 60 * (8 + p) - 5
  BY DEF Near, Parts, PeriodStart, Lead, Tolerance
<1>2. at \div 1440 = t \div 1440
  BY DEF Parts
<1>3. t % 1440 < (at % 1440) + 150
  BY <1>1
<1> QED
  BY <1>2, <1>3 DEF SessionMinutes

\* What is due, wanted and scanned before t is still covered by its session at t.
LEMMA SessionCovers ==
  ASSUME ShortBlocks, Typed, SessionsScanned,
         NEW r \in Row, NEW t \in Nat, IsDue("auto", r, t), Scanned(r, t)
  PROVE  /\ HasSession(r, t)
         /\ SessionValid(r, Timetable[r].room, t)
         /\ RoomMatches(Timetable[r].room, Timetable[r].room)
<1> DEFINE u == Timetable[r].user
           room == Timetable[r].room
           s == session[u][room]
<1>1. /\ room \in QrRooms /\ s # None /\ s.row \in Block(r)
      /\ Parts(s.at).day = Parts(t).day
  BY DEF Scanned
<1>2. u \in User
  BY DEF User
<1>3. /\ s \in SessionType
      /\ s.expires = s.at + SessionMinutes
      /\ InWindow(Timetable[s.row], s.at)
      /\ NormalizeRoom(room) # <<>>
  BY <1>1, <1>2 DEF Typed, SessionsScanned
<1>4. RoomMatches(room, room)
  BY <1>3 DEF RoomMatches
<1>5. s.expires > t
  <2>1. /\ s.at \in Nat /\ Timetable[s.row].period \in 1..10 /\ Timetable[r].period \in 1..10
        /\ Near(Parts(s.at).minute, PeriodStart[Timetable[s.row].period])
        /\ Parts(t).minute = PeriodStart[Timetable[r].period] - Lead
    BY <1>3 DEF SessionType, InWindow, IsDue, PeriodStart, LeadOf
  <2>2. Timetable[r].period <= Timetable[s.row].period + 2
    BY <1>1 DEF ShortBlocks
  <2> QED
    BY <1>1, <1>3, <2>1, <2>2, TickInTime
<1>6. Timetable[s.row].className = Timetable[r].className
  BY <1>1, BlockSame
<1> QED
  BY <1>1, <1>4, <1>5, <1>6 DEF HasSession, SessionValid

\* One scan in the window of any row of a block is enough for each later row of
\* the block on that day: the session outlives its ticks, and the guard allows it.
THEOREM OneScanServes ==
  ASSUME ShortBlocks
  PROVE  Spec => []OneScanSuffices
<1>1. Typed /\ SessionsScanned => OneScanSuffices
  <2> SUFFICES ASSUME Typed, SessionsScanned, NEW r \in Row, IsDue("auto", r, Time),
                      Wanted("auto", Timetable[r].user), Scanned(r, Time)
               PROVE  /\ HasSession(r, Time)
                      /\ AutoGuard(Timetable[r], Timetable[r].room, Time,
                                   settings[Timetable[r].user],
                                   SessionValid(r, Timetable[r].room, Time), FALSE, TRUE)
                           = "allowed"
    BY DEF OneScanSuffices
  <2>1. Time \in Nat
    BY SchedulerAssumption DEF Time, Typed
  <2>2. /\ HasSession(r, Time) /\ SessionValid(r, Timetable[r].room, Time)
        /\ RoomMatches(Timetable[r].room, Timetable[r].room)
    BY <2>1, SessionCovers
  <2>3. InWindow(Timetable[r], Time)
    <3>1. /\ Timetable[r].period \in 1..10 /\ PeriodStart[Timetable[r].period] \in Int
          /\ Parts(Time).dayOfWeek = Timetable[r].dayOfWeek
          /\ Parts(Time).minute = PeriodStart[Timetable[r].period] - Lead
      BY DEF IsDue, LeadOf, PeriodStart
    <3> QED
      BY <3>1 DEF InWindow, Near, PeriodStart, Lead, Tolerance
  <2>4. settings[Timetable[r].user].unlocked /\ settings[Timetable[r].user].mode = "auto"
    BY DEF Wanted
  <2> QED
    BY <2>2, <2>3, <2>4 DEF AutoGuard
<1>2. Typed /\ SessionsScanned /\ [Next]_vars => SessionsScanned'
  BY NextSessions
<1> QED
  BY AlwaysTyped, InitSessions, <1>1, <1>2, PTL DEF Spec

-------------------------------------------------------------------------------
(* No wanted row is skipped.                                               *)

\* A row the tick of the i-th moment is to queue.
Covered(k, r, i) ==
  /\ IsDue(k, r, Times[i])
  /\ Wanted(k, Timetable[r].user)
  /\ since[Timetable[r].user] < Times[i]
  /\ k = "auto" => Scanned(r, Times[i])

\* Process p has the row still before it in this minute.
Ahead(p, k, r) ==
  \/ p \in due
  \/ /\ run[p][k] # None
     /\ run[p][k].read => r \in run[p][k].todo \cap run[p][k].wanted

RunsNow ==
  \A p \in Process, k \in Kind : run[p][k] # None => run[p][k].at = Time

JobsAdded == jobs \subseteq {j \in Job : added[j] > 0}

\* Each process has every row of this minute before it or the row is queued.
RowsAhead ==
  mishaps = 0 =>
    \A k \in Kind, r \in Row : Covered(k, r, now) =>
      added[<<k, r>>] > 0 \/ \A p \in Process : Ahead(p, k, r)

RowsInv == RunsNow /\ JobsAdded /\ RowsAhead /\ EveryRowQueued

LEMMA InitRows == Init => RowsInv
BY SchedulerAssumption
   DEF Init, RowsInv, RunsNow, JobsAdded, RowsAhead, EveryRowQueued, Idle, Ahead

\* A change of the settings, the credentials or a session makes no row of this
\* or of an earlier minute a covered one: it comes too late for it.
LEMMA CoveredBack ==
  ASSUME Typed, [Next]_vars, NEW k \in Kind, NEW r \in Row, NEW i \in 1..now,
         Covered(k, r, i)'
  PROVE  Covered(k, r, i)
<1> DEFINE u == Timetable[r].user
           room == Timetable[r].room
<1>1. u \in User
  BY DEF User
<1>2. Times[i] <= Time /\ Times[i] \in Nat /\ Time \in Nat
  BY SchedulerAssumption DEF Typed, Time
<1>3. CASE UNCHANGED userVars
  BY <1>3 DEF userVars, Covered, Wanted, Scanned
<1>4. ASSUME NEW v \in User, Change(v),
             \A w \in User : w # v => settings'[w] = settings[w] /\ (w \in creds' <=> w \in creds)
      PROVE  Covered(k, r, i)
  <2>1. u # v
    BY <1>1, <1>2, <1>4 DEF Change, Typed, Covered
  <2>2. since'[u] = since[u] /\ session' = session /\ settings'[u] = settings[u]
        /\ (u \in creds' <=> u \in creds)
    BY <1>1, <1>4, <2>1 DEF Change, Typed
  <2> QED
    BY <2>2 DEF Covered, Wanted, Scanned
<1>5. ASSUME NEW v \in User, NEW s \in Choices, ChangeSettings(v, s) PROVE Covered(k, r, i)
  BY <1>4, <1>5 DEF ChangeSettings, Typed
<1>6. ASSUME NEW v \in User, RegisterCreds(v) PROVE Covered(k, r, i)
  BY <1>4, <1>6 DEF RegisterCreds, Typed
<1>7. ASSUME NEW q \in Row, NEW there \in QrRooms, Scan(q, there) PROVE Covered(k, r, i)
  <2>1. /\ UNCHANGED <<settings, creds, since>>
        /\ session' = [session EXCEPT ![Timetable[q].user][there] =
                         [row |-> q, at |-> Time, expires |-> Time + SessionMinutes]]
    BY <1>7 DEF Scan, ScanFor
  <2>2. Timetable[q].user \in User
    BY DEF User
  <2>3. room \in QrRooms => \/ session'[u][room] = session[u][room]
                            \/ session'[u][room].at = Time
    BY <1>1, <2>1, <2>2 DEF Typed
  <2>4. Scanned(r, Times[i])' => Scanned(r, Times[i])
    BY <1>2, <2>3 DEF Scanned
  <2> QED
    BY <2>1, <2>4 DEF Covered, Wanted
<1> QED
  BY <1>3, <1>5, <1>6, <1>7 DEF Next, vars, Fire, Restart, Read, EndRun, Consider, AddFails,
     FailJob, Tick

\* The queue never forgets that it had a job.
LEMMA QueueGrows ==
  ASSUME IInv, JobsAdded, [Next]_vars
  PROVE  JobsAdded' /\ \A j \in Job : added[j] > 0 => added'[j] > 0
<1> USE DEF IInv, JobsKnown, JobsAdded
<1>1. ASSUME NEW p \in Process, NEW k \in Kind, NEW r \in Row, Consider(p, k, r)
      PROVE  JobsAdded' /\ \A j \in Job : added[j] > 0 => added'[j] > 0
  BY <1>1 DEF Consider, Add, Job
<1>2. ASSUME NEW j \in Job, FailJob(j)
      PROVE  JobsAdded' /\ \A i \in Job : added[i] > 0 => added'[i] > 0
  BY <1>2 DEF FailJob
<1>3. \/ UNCHANGED <<jobs, added>>
      \/ \E p \in Process, k \in Kind, r \in Row : Consider(p, k, r)
      \/ \E j \in Job : FailJob(j)
  BY DEF Next, vars, queueVars, Fire, Restart, Read, EndRun, AddFails, Scan, ScanFor,
     ChangeSettings, RegisterCreds, Change, Tick
<1> QED
  BY <1>1, <1>2, <1>3

LEMMA NextRunsNow ==
  ASSUME Typed, RunsNow, [Next]_vars
  PROVE  RunsNow'
<1> USE DEF Typed, RunsNow
<1>1. ASSUME NEW p \in Process, Fire(p) PROVE RunsNow'
  BY <1>1 DEF Fire, Time
<1>2. ASSUME NEW p \in Process, NEW k \in Kind, Read(p, k) PROVE RunsNow'
  BY <1>2 DEF Read, Time, RunType
<1>3. ASSUME NEW p \in Process, NEW k \in Kind, NEW r \in Row, Consider(p, k, r)
      PROVE  RunsNow'
  BY <1>3 DEF Consider, Working, Without, Time, RunType
<1>4. ASSUME NEW p \in Process, NEW k \in Kind, NEW r \in Row,
             EndRun(p, k) \/ AddFails(p, k, r)
      PROVE  RunsNow'
  BY <1>4 DEF EndRun, AddFails, Time
<1>5. ASSUME NEW p \in Process, Restart(p) PROVE RunsNow'
  BY <1>5 DEF Restart, Idle, Time
<1>6. CASE Tick
  BY <1>6 DEF Tick, Idle
<1>7. CASE UNCHANGED <<now, run>>
  BY <1>7 DEF Time
<1>8. CASE \E p \in Process, k \in Kind : EndRun(p, k)
  BY <1>8 DEF EndRun, Time
<1> QED
  BY <1>1, <1>2, <1>3, <1>4, <1>5, <1>6, <1>7, <1>8
     DEF Next, vars, FailJob, Scan, ScanFor, ChangeSettings, RegisterCreds, Change

\* What Read makes of a run.
NextRun(p, k) ==
  LET rows == {r \in Row : IsDue(k, r, run[p][k].at)} IN
  [run[p][k] EXCEPT !.read = TRUE, !.todo = rows,
                    !.wanted = {r \in rows : Wanted(k, Timetable[r].user)}]

\* A mishap is never undone.
LEMMA MishapsGrow ==
  ASSUME Typed, [Next]_vars
  PROVE  mishaps' = 0 => mishaps = 0
<1>1. mishaps' = mishaps \/ Mishap
  BY DEF Next, vars, Fire, Restart, Read, EndRun, Consider, AddFails, FailJob, Scan,
     ScanFor, ChangeSettings, RegisterCreds, Change, Tick
<1> QED
  BY <1>1 DEF Mishap, Typed

\* Without a mishap, a process that has a covered row of this minute before it
\* still has it before it after a step of the same minute, or queues it.
LEMMA AheadKept ==
  ASSUME ShortBlocks, Typed, SessionsScanned, IInv, RunsNow, JobsAdded, [Next]_vars, ~Tick,
         mishaps' = 0, NEW k \in Kind, NEW r \in Row, Covered(k, r, now),
         NEW p \in Process, Ahead(p, k, r)
  PROVE  Ahead(p, k, r)' \/ added'[<<k, r>>] > 0
<1> USE DEF Typed
<1>1. IsDue(k, r, Time) /\ Wanted(k, Timetable[r].user) /\ (k = "auto" => Scanned(r, Time))
  BY DEF Covered, Time
<1>2. ~Mishap
  BY DEF Mishap
<1>3. CASE UNCHANGED <<due, run>>
  BY <1>3 DEF Ahead
<1>4. ASSUME NEW q \in Process, Fire(q) PROVE Ahead(p, k, r)'
  <2>1. CASE q = p
    <3> DEFINE fresh == [at |-> Time, todo |-> {}, wanted |-> {}, read |-> FALSE]
    <3>1. run'[p][k] = fresh
      BY <1>1, <1>4, <2>1 DEF Fire
    <3>2. fresh \in RunType
      BY SchedulerAssumption DEF RunType, Time
    <3> QED
      BY <3>1, <3>2, SchedulerAssumption DEF Ahead, RunType
  <2>2. CASE q # p
    BY <1>4, <2>2 DEF Fire, Ahead
  <2> QED
    BY <2>1, <2>2
<1>5. ASSUME NEW q \in Process, NEW l \in Kind, Read(q, l) PROVE Ahead(p, k, r)'
  <2>1. CASE q = p /\ l = k
    <3>1. run[p][k] \in RunType /\ run[p][k].at = Time
      BY <1>5, <2>1 DEF Read, RunsNow
    <3>2. /\ run'[p][k] \in RunType
          /\ r \in run'[p][k].todo /\ r \in run'[p][k].wanted
      <4>1. NextRun(p, k) \in RunType
        BY <3>1 DEF NextRun, RunType
      <4>2. run'[p][k] = NextRun(p, k)
        BY <1>5, <2>1 DEF Read, NextRun
      <4> QED
        BY <1>1, <3>1, <4>1, <4>2 DEF NextRun, RunType
    <3> QED
      BY <3>2, SchedulerAssumption DEF Ahead, RunType
  <2>2. CASE ~(q = p /\ l = k)
    BY <1>5, <2>2 DEF Read, Ahead
  <2> QED
    BY <2>1, <2>2
<1>6. ASSUME NEW q \in Process, NEW l \in Kind, EndRun(q, l) PROVE Ahead(p, k, r)'
  <2>1. p \in due \/ ~(q = p /\ l = k)
    BY <1>6 DEF EndRun, Working, Ahead
  <2> QED
    BY <1>6, <2>1 DEF EndRun, Ahead
<1>7. ASSUME NEW q \in Process, NEW l \in Kind, NEW s \in Row, Consider(q, l, s)
      PROVE  Ahead(p, k, r)' \/ added'[<<k, r>>] > 0
  <2>1. due' = due /\ run' = Without(q, l, {s})
    BY <1>7 DEF Consider
  <2>2. CASE p \in due
    BY <2>1, <2>2 DEF Ahead
  <2>3. CASE p \notin due /\ ~(q = p /\ l = k)
    BY <2>1, <2>3 DEF Ahead, Without
  <2>4. CASE p \notin due /\ q = p /\ l = k /\ s # r
    <3>1. run[p][k] \in RunType
      BY <1>7, <2>4 DEF Consider, Working
    <3>2. /\ run'[p][k] = [run[p][k] EXCEPT !.todo = @ \ {s}]
          /\ run'[p][k] \in RunType
      BY <2>1, <2>4, <3>1 DEF Without, RunType
    <3> QED
      BY <2>4, <3>1, <3>2, SchedulerAssumption DEF Ahead, RunType
  <2>5. CASE p \notin due /\ q = p /\ l = k /\ s = r
    <3>1. /\ run[p][k] # None /\ run[p][k].read /\ run[p][k].at = Time
          /\ r \in run[p][k].wanted
      BY <1>7, <2>5 DEF Consider, Working, Ahead, RunsNow
    <3>2. k = "auto" => HasSession(r, Time)
      BY <1>1, SessionCovers, SchedulerAssumption DEF Time
    <3>3. Add(<<k, r>>)
      BY <1>7, <2>5, <3>1, <3>2 DEF Consider, Selected
    <3> QED
      BY <3>3 DEF Add, IInv, JobsKnown, JobsAdded, Job
  <2> QED
    BY <2>2, <2>3, <2>4, <2>5
<1> QED
  BY <1>2, <1>3, <1>4, <1>5, <1>6, <1>7 DEF Next, vars, Restart, AddFails, FailJob, Scan, ScanFor,
     ChangeSettings, RegisterCreds, Change

LEMMA NextRows ==
  ASSUME ShortBlocks, Typed, SessionsScanned, IInv, RowsInv, [Next]_vars
  PROVE  RowsInv'
<1> USE DEF RowsInv
<1>1. RunsNow' /\ JobsAdded'
  BY NextRunsNow, QueueGrows
<1>2. \A k \in Kind, r \in Row : added[<<k, r>>] > 0 => added'[<<k, r>>] > 0
  BY QueueGrows DEF Job
<1>3. CASE mishaps' # 0
  BY <1>1, <1>3 DEF RowsAhead, EveryRowQueued
<1>4. CASE mishaps' = 0 /\ Tick
  <2>1. mishaps = 0 /\ due = {} /\ run = [p \in Process |-> Idle] /\ now' = now + 1
        /\ due' = Process
    BY <1>4, MishapsGrow DEF Tick, Mishap, Typed
  <2>2. RowsAhead'
    BY <2>1 DEF RowsAhead, Ahead
  <2>3. \A p \in Process, k \in Kind, r \in Row : ~Ahead(p, k, r)
    BY <2>1 DEF Ahead, Idle
  <2>4. \A k \in Kind, r \in Row : Covered(k, r, now) => added[<<k, r>>] > 0
    BY <2>1, <2>3, SchedulerAssumption DEF RowsAhead
  <2>5. ASSUME NEW k \in Kind, NEW r \in Row, NEW i \in 1..now, Covered(k, r, i)'
        PROVE  added'[<<k, r>>] > 0
    <3>1. Covered(k, r, i)
      BY <2>5, CoveredBack
    <3>2. now \in Nat
      BY SchedulerAssumption DEF Typed
    <3>3. CASE i = now
      BY <1>2, <2>4, <3>1, <3>3
    <3>4. CASE i # now
      BY <1>2, <2>1, <3>1, <3>2, <3>4 DEF EveryRowQueued, Covered
    <3> QED
      BY <3>3, <3>4
  <2>6. EveryRowQueued'
    <3>1. 1..(now' - 1) = 1..now
      BY <2>1, SchedulerAssumption DEF Typed
    <3> QED
      BY <2>5, <3>1 DEF EveryRowQueued, Covered
  <2> QED
    BY <1>1, <2>2, <2>6
<1>5. CASE mishaps' = 0 /\ ~Tick
  <2>1. mishaps = 0 /\ now' = now /\ now \in Nat \ {0}
    <3>1. now' = now
      BY <1>5 DEF Next, vars, Fire, Restart, Read, EndRun, Consider, AddFails, FailJob, Scan,
         ScanFor, ChangeSettings, RegisterCreds, Change
    <3> QED
      BY <1>5, <3>1, MishapsGrow, SchedulerAssumption DEF Typed
  <2>2. ASSUME NEW k \in Kind, NEW r \in Row, NEW i \in 1..now, i = now, Covered(k, r, i)'
        PROVE  added'[<<k, r>>] > 0 \/ \A p \in Process : Ahead(p, k, r)'
    <3>1. Covered(k, r, now)
      BY <2>2, CoveredBack
    <3> QED
      BY <1>2, <1>5, <2>1, <3>1, AheadKept DEF RowsAhead
  <2>3. RowsAhead'
    BY <2>1, <2>2 DEF RowsAhead, Covered
  <2>4. ASSUME NEW k \in Kind, NEW r \in Row, NEW i \in 1..(now - 1), Covered(k, r, i)'
        PROVE  added'[<<k, r>>] > 0
    <3>1. Covered(k, r, i)
      BY <2>1, <2>4, CoveredBack
    <3> QED
      BY <1>2, <2>1, <3>1 DEF EveryRowQueued, Covered
  <2>5. EveryRowQueued'
    BY <2>1, <2>4 DEF EveryRowQueued, Covered
  <2> QED
    BY <1>1, <2>3, <2>5
<1> QED
  BY <1>3, <1>4, <1>5

\* Every row that was due and wanted has been queued unless a tick was missed or
\* the queue failed: no other row or student of the minute, no scan, no change of
\* the settings and no second process gets in between.
THEOREM RowsQueued ==
  ASSUME ShortBlocks
  PROVE  Spec => []EveryRowQueued
<1>1. RowsInv => EveryRowQueued
  BY DEF RowsInv
<1>2. Typed /\ SessionsScanned /\ IInv /\ RowsInv /\ [Next]_vars
        => SessionsScanned' /\ RowsInv'
  BY NextSessions, NextRows
<1> QED
  BY AlwaysTyped, InitIInv, NextIInv, InitSessions, InitRows, <1>1, <1>2, PTL DEF Spec

-------------------------------------------------------------------------------
(* What AttendanceJob takes for granted of the rules.                      *)

\* blockRowIds divides the rows of a timetable into blocks: a row is in its own, and
\* every row of a block has the same block (BlockAssumption of AttendanceJob).
THEOREM BlocksPartition ==
  ASSUME NEW timetable, \A r \in DOMAIN timetable : timetable[r].period \in Int,
         NEW r \in DOMAIN timetable
  PROVE  /\ r \in BlockRowIds(timetable, r)
         /\ \A q \in BlockRowIds(timetable, r) :
              BlockRowIds(timetable, q) = BlockRowIds(timetable, r)
<1> DEFINE Same(a, b) == /\ timetable[a].dayOfWeek = timetable[b].dayOfWeek
                         /\ timetable[a].className = timetable[b].className
           Taken(a, p) == \E s \in DOMAIN timetable : Same(s, a) /\ timetable[s].period = p
           Between(m, n) == (m..n) \cup (n..m)
           Linked(a, b) == \A p \in Between(timetable[a].period, timetable[b].period) : Taken(b, p)
<1>1. \A b : BlockRowIds(timetable, b) = {a \in DOMAIN timetable : Same(a, b) /\ Linked(a, b)}
  BY DEF BlockRowIds
<1>2. r \in BlockRowIds(timetable, r)
  BY <1>1
\* What lies between two rows of the day lies between each of them and a third.
<1>3. ASSUME NEW a \in DOMAIN timetable, NEW b \in DOMAIN timetable, NEW c \in DOMAIN timetable,
             Same(a, b), Linked(a, b), Same(b, c), Linked(b, c)
      PROVE  Same(a, c) /\ Linked(a, c)
  <2>1. \A p : Taken(b, p) => Taken(c, p)
    BY <1>3
  <2>2. \A p \in Between(timetable[a].period, timetable[c].period) :
          \/ p \in Between(timetable[a].period, timetable[b].period)
          \/ p \in Between(timetable[b].period, timetable[c].period)
    <3>1. /\ timetable[a].period \in Int /\ timetable[b].period \in Int
          /\ timetable[c].period \in Int
      OBVIOUS
    <3>2. QED BY ONLY <3>1
  <2>3. QED BY <1>3, <2>1, <2>2
<1>4. ASSUME NEW a \in DOMAIN timetable, NEW b \in DOMAIN timetable, Same(a, b), Linked(a, b)
      PROVE  Same(b, a) /\ Linked(b, a)
  BY <1>4
<1>5. ASSUME NEW q \in BlockRowIds(timetable, r)
      PROVE  BlockRowIds(timetable, q) = BlockRowIds(timetable, r)
  <2> HIDE DEF Same, Linked
  <2>1. q \in DOMAIN timetable /\ Same(q, r) /\ Linked(q, r)
    BY <1>1
  <2>2. Same(r, q) /\ Linked(r, q)
    BY <1>4, <2>1
  <2>3. ASSUME NEW a \in DOMAIN timetable
        PROVE  (Same(a, q) /\ Linked(a, q)) <=> (Same(a, r) /\ Linked(a, r))
    <3>1. Same(a, q) /\ Linked(a, q) => Same(a, r) /\ Linked(a, r)
      BY <1>3, <2>1
    <3>2. Same(a, r) /\ Linked(a, r) => Same(a, q) /\ Linked(a, q)
      BY <1>3, <2>1, <2>2
    <3>3. QED BY <3>1, <3>2
  <2>4. QED BY <1>1, <2>3
<1>6. QED BY <1>2, <1>5

\* The guards admit rows of two periods at times at least 56 minutes apart, so their
\* windows share no moment, and a run that began in one and posts in the next has
\* taken that long (OneRunPerWindow and PromptRuns of AttendanceJob).
THEOREM WindowsApart ==
  ASSUME NEW q, NEW r, q.period # r.period,
         NEW t \in Nat, NEW u \in Nat, Parts(t).day = Parts(u).day,
         InWindow(q, t), InWindow(r, u)
  PROVE  t + 56 <= u \/ u + 56 <= t
<1>1. /\ q.period \in 1..10 /\ r.period \in 1..10
      /\ Near(Parts(t).minute, PeriodStart[q.period])
      /\ Near(Parts(u).minute, PeriodStart[r.period])
  BY DEF InWindow, PeriodStart
<1>2. /\ t % 1440 \in (60 * (8 + q.period) - 7)..(60 * (8 + q.period) - 3)
      /\ u % 1440 \in (60 * (8 + r.period) - 7)..(60 * (8 + r.period) - 3)
  BY <1>1 DEF Near, Parts, PeriodStart, Lead, Tolerance
<1>3. (t % 1440) + 56 <= u % 1440 \/ (u % 1440) + 56 <= t % 1440
  BY <1>1, <1>2
<1>4. t \div 1440 = u \div 1440
  BY DEF Parts
<1>5. QED
  BY <1>3, <1>4
===============================================================================
