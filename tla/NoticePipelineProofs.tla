------------------------- MODULE NoticePipelineProofs -------------------------
(***************************************************************************)
(* What the scrape and notify jobs of one user promise for any number of   *)
(* items, overlapping runs, notify jobs and devices, and any faults.       *)
(***************************************************************************)
EXTENDS NoticePipeline, FiniteSetTheorems, TLAPS

Typed ==
  /\ run \in [Runs -> [at : {"idle", "diff", "save", "queue"},
                       kind : {"notice", "assignment"}, new : SUBSET Items]]
  /\ queued \in [Items -> Nat]
  /\ saved \subseteq Items

\* A batch is of the kind of the page it was found on.
OneKind ==
  \A r \in Runs : run[r].kind = "notice" => run[r].new \subseteq Notices

OfAssignments ==
  \A r \in Runs : run[r].kind = "assignment" => run[r].new \subseteq Assignments

Announces(r, i) == run[r].at = "queue" /\ i \in run[r].new

\* A notice that was announced, or that a run is about to announce, is in the table, and
\* the one run that put it there is the only one that announces it.
OneAnnouncer ==
  \A i \in Notices :
    /\ i \notin saved => queued[i] = 0
    /\ \A r \in Runs : Announces(r, i) => i \in saved /\ queued[i] = 0
    /\ \A r, q \in Runs : Announces(r, i) /\ Announces(q, i) => r = q

IInv == Typed /\ OneKind /\ OfAssignments /\ OneAnnouncer /\ NoticeQueuedOnce /\ SavedIsQueued

-------------------------------------------------------------------------------
LEMMA InitIInv == Init => IInv
BY DEF Init, IInv, Typed, OneKind, OfAssignments, OneAnnouncer, Announces, NoticeQueuedOnce,
       SavedIsQueued, IdleRun, Items

\* A run that is not about to announce anything, before or after, changes nothing.
LEMMA QuietRun ==
  ASSUME NEW r \in Runs, IInv, UNCHANGED <<saved, queued, lost>>,
         NEW next \in [at : {"idle", "diff", "save", "queue"},
                       kind : {"notice", "assignment"}, new : SUBSET Items],
         run' = [run EXCEPT ![r] = next], run[r].at # "queue", next.at # "queue",
         next.kind = "notice" => next.new \subseteq Notices,
         next.kind = "assignment" => next.new \subseteq Assignments
  PROVE  IInv'
<1>1. Typed' /\ OneKind' /\ OfAssignments'
  BY DEF IInv, Typed, OneKind, OfAssignments
<1>2. \A q \in Runs, i \in Items : Announces(q, i)' <=> Announces(q, i)
  BY DEF IInv, Typed, Announces
<1>3. OneAnnouncer'
  BY <1>2 DEF IInv, OneAnnouncer, Items
<1>4. NoticeQueuedOnce' /\ SavedIsQueued'
  <2>1. NoticeQueuedOnce'
    BY DEF IInv, NoticeQueuedOnce
  <2>2. \A q \in Runs : run[q].at = "queue" => run'[q] = run[q]
    BY DEF IInv, Typed
  <2>3. SavedIsQueued'
    BY <2>2 DEF IInv, SavedIsQueued
  <2> QED
    BY <2>1, <2>3
<1> QED
  BY <1>1, <1>3, <1>4 DEF IInv

LEMMA OnwardTyped ==
  ASSUME NEW r \in Runs, IInv
  PROVE  /\ Onward(run[r]) \in [at : {"idle", "diff", "save", "queue"},
                       kind : {"notice", "assignment"}, new : SUBSET Items]
         /\ IdleRun \in [at : {"idle", "diff", "save", "queue"},
                       kind : {"notice", "assignment"}, new : SUBSET Items]
         /\ Onward(run[r]).new = {} /\ IdleRun.new = {}
         /\ Onward(run[r]).at # "queue" /\ IdleRun.at # "queue"
BY DEF Onward, IdleRun

LEMMA LoginIInv ==
  ASSUME NEW r \in Runs, IInv, Login(r)
  PROVE  IInv'
<1> DEFINE next == [run[r] EXCEPT !.at = "diff"]
<1>1. /\ next \in [at : {"idle", "diff", "save", "queue"},
                   kind : {"notice", "assignment"}, new : SUBSET Items]
      /\ next.at # "queue" /\ next.kind = run[r].kind /\ next.new = run[r].new
  BY DEF IInv, Typed
<1>2. run' = [run EXCEPT ![r] = next] /\ run[r].at # "queue" /\ UNCHANGED <<saved, queued, lost>>
  BY DEF Login
<1> HIDE DEF next
<1> QED
  BY <1>1, <1>2, QuietRun DEF IInv, OneKind, OfAssignments

LEMMA DiffIInv ==
  ASSUME NEW r \in Runs, IInv, Diff(r)
  PROVE  IInv'
<1> DEFINE new == Page(run[r].kind) \ saved
           next == IF new = {} THEN Onward(run[r])
                   ELSE [run[r] EXCEPT !.at = "save", !.new = new]
<1>1. run' = [run EXCEPT ![r] = next] /\ run[r].at # "queue" /\ UNCHANGED <<saved, queued, lost>>
  BY DEF Diff
<1>2. /\ new \subseteq Items
      /\ run[r].kind = "notice" => new \subseteq Notices
      /\ run[r].kind = "assignment" => new \subseteq Assignments
  BY DEF Page, Items
<1> HIDE DEF new
<1>3. /\ next \in [at : {"idle", "diff", "save", "queue"},
                   kind : {"notice", "assignment"}, new : SUBSET Items]
      /\ next.at # "queue"
      /\ next.kind = "notice" => next.new \subseteq Notices
      /\ next.kind = "assignment" => next.new \subseteq Assignments
  <2>1. CASE new = {}
    BY <2>1, OnwardTyped
  <2>2. CASE new # {}
    BY <1>2, <2>2 DEF IInv, Typed
  <2> QED
    BY <2>1, <2>2
<1> HIDE DEF next
<1> QED
  BY <1>1, <1>3, QuietRun

LEMMA ForgetIInv ==
  ASSUME NEW r \in Runs, IInv, run[r].at # "queue", run' = [run EXCEPT ![r] = IdleRun],
         UNCHANGED <<saved, queued, lost>>
  PROVE  IInv'
BY OnwardTyped, QuietRun

\* A batch that does not clash holds nothing that is in the table, and nobody announces
\* what is not in the table.
LEMMA SaveIInv ==
  ASSUME NEW r \in Runs, IInv, Save(r)
  PROVE  IInv'
<1>1. CASE Clashes(r)
  BY <1>1, ForgetIInv DEF Save
<1>2. CASE ~Clashes(r)
  <2>1. /\ run[r].at = "save" /\ run' = [run EXCEPT ![r].at = "queue"]
        /\ saved' = saved \cup run[r].new /\ UNCHANGED <<queued, lost>>
    BY <1>2 DEF Save
  <2>2. /\ run'[r].at = "queue" /\ run'[r].kind = run[r].kind /\ run'[r].new = run[r].new
        /\ \A q \in Runs : q # r => run'[q] = run[q]
    BY <2>1 DEF IInv, Typed
  <2>3. Typed'
    BY <2>1 DEF IInv, Typed
  <2>4. OneKind' /\ OfAssignments'
    BY <2>2 DEF IInv, OneKind, OfAssignments
  <2>5. \A i \in Notices : i \in run[r].new => i \notin saved
    BY <1>2, NoticeAssumption DEF Clashes, IInv, Typed, OfAssignments
  <2>6. \A q \in Runs, i \in Items :
          Announces(q, i)' <=> Announces(q, i) \/ (q = r /\ i \in run[r].new)
    BY <2>1, <2>2 DEF Announces
  <2>7. OneAnnouncer'
    BY <2>1, <2>5, <2>6 DEF IInv, OneAnnouncer, Items
  <2>8. NoticeQueuedOnce'
    BY <2>1 DEF IInv, NoticeQueuedOnce
  <2>9. SavedIsQueued'
    BY <2>1, <2>2 DEF IInv, SavedIsQueued
  <2> QED
    BY <2>3, <2>4, <2>7, <2>8, <2>9 DEF IInv
<1> QED
  BY <1>1, <1>2

\* A run that has announced its batch, or died before, announces nothing any more.
LEMMA AnnouncedRun ==
  ASSUME NEW r \in Runs, IInv, run[r].at = "queue", UNCHANGED saved,
         NEW next \in {Onward(run[r]), IdleRun}, run' = [run EXCEPT ![r] = next]
  PROVE  /\ run' \in [Runs -> [at : {"idle", "diff", "save", "queue"},
                        kind : {"notice", "assignment"}, new : SUBSET Items]]
         /\ OneKind' /\ OfAssignments'
         /\ \A q \in Runs, i \in Items : Announces(q, i)' <=> q # r /\ Announces(q, i)
         /\ \A q \in Runs : q # r => run'[q] = run[q]
<1>1. /\ next \in [at : {"idle", "diff", "save", "queue"},
                   kind : {"notice", "assignment"}, new : SUBSET Items]
      /\ next.new = {}
  BY OnwardTyped
<1> QED
  BY <1>1 DEF IInv, Typed, OneKind, OfAssignments, Announces

LEMMA EnqueueIInv ==
  ASSUME NEW r \in Runs, NEW n \in NotifyJobs, IInv, Enqueue(r, n)
  PROVE  IInv'
<1>1. /\ run[r].at = "queue" /\ run' = [run EXCEPT ![r] = Onward(run[r])]
      /\ UNCHANGED <<saved, lost>>
      /\ queued' = [i \in Items |-> queued[i] + IF i \in run[r].new THEN 1 ELSE 0]
  BY DEF Enqueue
<1>2. /\ queued' \in [Items -> Nat]
      /\ \A i \in Items : queued'[i] = IF Announces(r, i) THEN queued[i] + 1 ELSE queued[i]
  BY <1>1 DEF IInv, Typed, Announces
<1>3. /\ Typed' /\ OneKind' /\ OfAssignments'
      /\ \A q \in Runs, i \in Items : Announces(q, i)' <=> q # r /\ Announces(q, i)
      /\ \A q \in Runs : q # r => run'[q] = run[q]
  BY <1>1, <1>2, AnnouncedRun DEF Typed, IInv
<1>4. OneAnnouncer' /\ NoticeQueuedOnce'
  <2> SUFFICES ASSUME NEW i \in Notices
               PROVE  /\ i \notin saved => queued'[i] = 0
                      /\ \A q \in Runs : Announces(q, i)' => i \in saved /\ queued'[i] = 0
                      /\ \A q, p \in Runs : Announces(q, i)' /\ Announces(p, i)' => q = p
                      /\ queued'[i] <= 1
    BY <1>1 DEF OneAnnouncer, NoticeQueuedOnce
  <2>1. i \in Items /\ queued[i] \in Nat /\ queued[i] <= 1
    BY DEF Items, IInv, Typed, NoticeQueuedOnce
  <2>2. /\ i \notin saved => queued[i] = 0
        /\ \A q \in Runs : Announces(q, i) => i \in saved /\ queued[i] = 0
        /\ \A q, p \in Runs : Announces(q, i) /\ Announces(p, i) => q = p
    BY DEF IInv, OneAnnouncer
  <2> QED
    BY <1>2, <1>3, <2>1, <2>2
<1>5. SavedIsQueued'
  <2> SUFFICES ASSUME NEW i \in saved
               PROVE  \/ queued'[i] > 0 \/ i \in lost
                      \/ \E q \in Runs : Announces(q, i)'
    BY <1>1 DEF SavedIsQueued, Announces
  <2>1. i \in Items /\ queued[i] \in Nat
    BY DEF IInv, Typed
  <2>2. CASE Announces(r, i)
    BY <1>2, <2>1, <2>2
  <2>3. CASE ~Announces(r, i)
    BY <1>2, <1>3, <2>1, <2>3 DEF IInv, SavedIsQueued, Announces
  <2> QED
    BY <2>2, <2>3
<1> QED
  BY <1>3, <1>4, <1>5 DEF IInv

LEMMA LoseIInv ==
  ASSUME NEW r \in Runs, IInv, Lose(r)
  PROVE  IInv'
<1>1. /\ run[r].at = "queue" /\ run' = [run EXCEPT ![r] = IdleRun]
      /\ UNCHANGED <<saved, queued>> /\ lost' = lost \cup run[r].new
  BY DEF Lose
<1>2. /\ Typed' /\ OneKind' /\ OfAssignments'
      /\ \A q \in Runs, i \in Items : Announces(q, i)' <=> q # r /\ Announces(q, i)
      /\ \A q \in Runs : q # r => run'[q] = run[q]
  BY <1>1, AnnouncedRun DEF Typed, IInv
<1>3. OneAnnouncer'
  BY <1>1, <1>2 DEF IInv, OneAnnouncer, Items
<1>4. NoticeQueuedOnce' /\ SavedIsQueued'
  BY <1>1, <1>2 DEF IInv, NoticeQueuedOnce, SavedIsQueued
<1> QED
  BY <1>2, <1>3, <1>4 DEF IInv

\* Delivery and the user do not touch the pipeline.
LEMMA IdleIInv ==
  ASSUME IInv, UNCHANGED <<run, saved, queued, lost>>
  PROVE  IInv'
BY DEF IInv, Typed, OneKind, OfAssignments, OneAnnouncer, Announces, NoticeQueuedOnce,
       SavedIsQueued

LEMMA NextIInv == IInv /\ [Next]_vars => IInv'
<1> SUFFICES ASSUME IInv, [Next]_vars PROVE IInv'
  OBVIOUS
<1>1. ASSUME NEW i \in Items, Publish(i) PROVE IInv'
  BY <1>1, IdleIInv DEF Publish
<1>2. ASSUME NEW r \in Runs, RunStep(r) PROVE IInv'
  BY <1>2, LoginIInv, DiffIInv, SaveIInv, EnqueueIInv DEF RunStep
<1>3. ASSUME NEW r \in Runs, FetchFails(r) PROVE IInv'
  BY <1>3, ForgetIInv DEF FetchFails
<1>4. ASSUME NEW r \in Runs, Lose(r) PROVE IInv'
  BY <1>4, LoseIInv
<1>5. ASSUME NEW n \in NotifyJobs, JobStep(n) \/ Stall(n) PROVE IInv'
  BY <1>5, IdleIInv DEF JobStep, Stall, Begin, Take, Finish, Answer, pipeline
<1>6. ASSUME NEW e \in Endpoints, Subscribe(e) \/ Unsubscribe(e) PROVE IInv'
  BY <1>6, IdleIInv DEF Subscribe, Unsubscribe, pipeline
<1>7. ASSUME NEW new, ChangeSettings(new) PROVE IInv'
  BY <1>7, IdleIInv DEF ChangeSettings, pipeline
<1>8. CASE UNCHANGED vars
  BY <1>8, IdleIInv DEF vars, pipeline
<1> QED
  BY <1>1, <1>2, <1>3, <1>4, <1>5, <1>6, <1>7, <1>8 DEF Next

\* However many runs of a user overlap, a notice is handed to the notify queue at most
\* once: the unique index of the table makes the batch of one run the only one.
THEOREM NoticesQueuedOnce == Spec => []NoticeQueuedOnce
<1>1. IInv => NoticeQueuedOnce
  BY DEF IInv
<1> QED
  BY InitIInv, NextIInv, <1>1, PTL DEF Spec

\* An item of the table was handed to the notify queue, or its run is about to do so, or
\* died just then: no overlap of runs makes an item silent.
THEOREM SavedItemsQueued == Spec => []SavedIsQueued
<1>1. IInv => SavedIsQueued
  BY DEF IInv
<1> QED
  BY InitIInv, NextIInv, <1>1, PTL DEF Spec

\* sendPushToUser deletes the subscriptions of endpoints that are gone and no others,
\* whatever the user does while pushes are under way.
THEOREM LiveSubscriptionsKept == Spec => LiveSubscriptionKept
<1> DEFINE Keeps == notify' # notify => subs \ subs' \subseteq gone
<1>1. [Next]_vars => [Keeps]_vars
  <2> SUFFICES ASSUME Next PROVE Keeps
    OBVIOUS
  <2>1. ASSUME NEW i \in Items, Publish(i) PROVE Keeps
    BY <2>1 DEF Publish, delivery
  <2>2. ASSUME NEW r \in Runs, RunStep(r) \/ FetchFails(r) \/ Lose(r) PROVE Keeps
    BY <2>2 DEF RunStep, FetchFails, Lose, Login, Diff, Save, Enqueue, delivery
  <2>3. ASSUME NEW n \in NotifyJobs, JobStep(n) \/ Stall(n) PROVE Keeps
    BY <2>3 DEF JobStep, Stall, Begin, Take, Finish, Answer
  <2>4. ASSUME NEW e \in Endpoints, Subscribe(e) \/ Unsubscribe(e) PROVE Keeps
    BY <2>4 DEF Subscribe, Unsubscribe
  <2>5. ASSUME NEW new, ChangeSettings(new) PROVE Keeps
    BY <2>5 DEF ChangeSettings
  <2> QED
    BY <2>1, <2>2, <2>3, <2>4, <2>5 DEF Next
<1> QED
  BY <1>1, PTL DEF Spec, LiveSubscriptionKept

-------------------------------------------------------------------------------
(* The notify jobs.                                                        *)

JobType == [at : {"free", "queued", "running"}, items : SUBSET Items, todo : SUBSET Items,
            channels : SUBSET {"push", "mail"}, item : Items \cup {NoItem},
            flight : SUBSET Endpoints]

\* The item in hand is to do, and only it has pushes under way.
Orderly(j) ==
  /\ j.at # "free" => j.items # {}
  /\ j.at = "running" => j.todo # {}
  /\ j.item # NoItem => j.at = "running" /\ j.item \in j.todo
  /\ j.flight # {} => j.item # NoItem

JobsTyped ==
  /\ notify \in [NotifyJobs -> JobType]
  /\ \A n \in NotifyJobs : Orderly(notify[n])
  /\ \A r \in Runs : run[r].at \in {"save", "queue"} => run[r].new # {}
  /\ delivered \in [Items \X Endpoints -> Nat]
  /\ subs \subseteq Endpoints
  /\ settings \in [channels : SUBSET {"push", "mail"}, quiet : BOOLEAN]
  /\ repeats \in Nat
  /\ moves \in Nat

\* A job that may still push item i to endpoint e.
Owes(j, i, e) ==
  \/ j.at = "queued" /\ i \in j.items
  \/ j.at = "running" /\ i \in j.todo /\ (j.item = i => e \in j.flight)

Owing(i, e) == {n \in NotifyJobs : Owes(notify[n], i, e)}

\* What was pushed and what may still be add up to what was queued and repeated.
Balanced ==
  \A i \in Items, e \in Endpoints :
    delivered[<<i, e>>] + Cardinality(Owing(i, e)) <= queued[i] + repeats

Served(i, e) == e \in subs \ gone => delivered[<<i, e>>] > 0

\* What a job has dealt with has reached every device that is not gone.
JobServed(j) ==
  j.at = "running" =>
    /\ j.channels = {"push", "mail"}
    /\ \A i \in j.items \ j.todo, e \in Endpoints : Served(i, e)
    /\ j.item # NoItem => \A e \in Endpoints \ j.flight : Served(j.item, e)

\* As long as nothing fails and nobody changes anything, every device that is not
\* gone is subscribed, and the jobs miss none.
NobodyMissed ==
  moves = 0 =>
    /\ Endpoints \ subs \subseteq gone
    /\ settings = [channels |-> {"push", "mail"}, quiet |-> FALSE]
    /\ \A n \in NotifyJobs : JobServed(notify[n])

Touches(n, j) == notify' = [notify EXCEPT ![n] = j]

LEMMA FreeFacts ==
  /\ Free \in JobType /\ Orderly(Free) /\ Free.at = "free"
  /\ \A items \in SUBSET Items :
       LET j == [Free EXCEPT !.at = "queued", !.items = items] IN
       /\ j \in JobType /\ j.at = "queued" /\ j.items = items
       /\ items # {} => Orderly(j)
BY NoticeAssumption DEF Free, JobType, Orderly, NoItem, Items

\* What each step makes of its job.
LEMMA BeginJob ==
  ASSUME JobsTyped, NEW n \in NotifyJobs, Begin(n)
  PROVE  \E j \in JobType :
           /\ Touches(n, j) /\ Orderly(j) /\ notify[n].at = "queued"
           /\ \/ j.at = "free"
              \/ /\ ~settings.quiet
                 /\ j.at = "running" /\ j.items = notify[n].items /\ j.todo = j.items
                 /\ j.item = NoItem /\ j.channels = settings.channels
<1>1. notify[n] \in JobType /\ Orderly(notify[n])
  BY DEF JobsTyped
<1>2. CASE settings.quiet
  BY <1>2, FreeFacts DEF Begin, Touches
<1>3. CASE ~settings.quiet
  <2> DEFINE j == [notify[n] EXCEPT !.at = "running", !.todo = notify[n].items,
                                    !.channels = settings.channels]
  <2>1. Touches(n, j) /\ notify[n].at = "queued"
    BY <1>3 DEF Begin, Touches
  <2>2. /\ j \in JobType /\ j.at = "running" /\ j.items = notify[n].items /\ j.todo = j.items
        /\ j.item = notify[n].item /\ j.flight = notify[n].flight /\ j.channels = settings.channels
    BY <1>1 DEF JobType, JobsTyped
  <2> HIDE DEF j
  <2>3. notify[n].item = NoItem /\ notify[n].flight = {} /\ notify[n].items # {}
    BY <1>1, <2>1 DEF Orderly
  <2> QED
    BY <1>3, <2>1, <2>2, <2>3 DEF Orderly
<1> QED
  BY <1>2, <1>3

LEMMA TakeJob ==
  ASSUME JobsTyped, NEW n \in NotifyJobs, Take(n)
  PROVE  \E j \in JobType :
           /\ Touches(n, j) /\ Orderly(j) /\ notify[n].at = "running" /\ notify[n].item = NoItem
           /\ j.at = "running" /\ j.items = notify[n].items /\ j.todo = notify[n].todo
           /\ j.channels = notify[n].channels /\ j.item \in j.todo /\ j.item # NoItem
           /\ j.flight = IF "push" \in notify[n].channels THEN subs ELSE {}
<1> DEFINE item == CHOOSE i \in notify[n].todo : TRUE
           flight == IF "push" \in notify[n].channels THEN subs ELSE {}
           j == [notify[n] EXCEPT !.item = item, !.flight = flight]
<1>1. /\ notify[n] \in JobType /\ Orderly(notify[n])
      /\ notify[n].at = "running" /\ notify[n].item = NoItem
  BY DEF JobsTyped, Take
<1>2. item \in notify[n].todo /\ item \in Items /\ item # NoItem /\ flight \subseteq Endpoints
  BY <1>1, NoticeAssumption DEF Orderly, JobType, JobsTyped, Items, NoItem
<1>3. Touches(n, j)
  BY DEF Take, Touches
<1> HIDE DEF item, flight
<1>4. /\ j \in JobType /\ j.at = notify[n].at /\ j.items = notify[n].items
      /\ j.todo = notify[n].todo /\ j.channels = notify[n].channels
      /\ j.item = item /\ j.flight = flight
  BY <1>1, <1>2 DEF JobType
<1> HIDE DEF j
<1> QED
  BY <1>1, <1>2, <1>3, <1>4 DEF Orderly, flight

LEMMA AnswerJob ==
  ASSUME JobsTyped, NEW n \in NotifyJobs, NEW e \in Endpoints, Answer(n, e)
  PROVE  \E j \in JobType :
           /\ Touches(n, j) /\ Orderly(j)
           /\ notify[n].at = "running" /\ notify[n].item \in notify[n].todo \cap Items
           /\ notify[n].item # NoItem /\ e \in notify[n].flight
           /\ j.at = "running" /\ j.items = notify[n].items /\ j.todo = notify[n].todo
           /\ j.channels = notify[n].channels /\ j.item = notify[n].item
           /\ j.flight = notify[n].flight \ {e}
<1> DEFINE j == [notify[n] EXCEPT !.flight = @ \ {e}]
<1>1. notify[n] \in JobType /\ Orderly(notify[n]) /\ e \in notify[n].flight
  BY DEF JobsTyped, Answer
<1>2. /\ notify[n].at = "running" /\ notify[n].item \in notify[n].todo \cap Items
      /\ notify[n].item # NoItem
  BY <1>1 DEF Orderly, JobType
<1>3. Touches(n, j)
  BY DEF Answer, Touches
<1>4. /\ j \in JobType /\ j.at = notify[n].at /\ j.items = notify[n].items
      /\ j.todo = notify[n].todo /\ j.channels = notify[n].channels
      /\ j.item = notify[n].item /\ j.flight = notify[n].flight \ {e}
  BY <1>1 DEF JobType
<1> HIDE DEF j
<1> QED
  BY <1>1, <1>2, <1>3, <1>4 DEF Orderly

LEMMA FinishJob ==
  ASSUME JobsTyped, NEW n \in NotifyJobs, Finish(n)
  PROVE  \E j \in JobType :
           /\ Touches(n, j) /\ Orderly(j)
           /\ notify[n].at = "running" /\ notify[n].item \in notify[n].todo
           /\ notify[n].item # NoItem /\ notify[n].flight = {}
           /\ \/ j.at = "free" /\ notify[n].todo = {notify[n].item}
              \/ /\ j.at = "running" /\ j.items = notify[n].items
                 /\ j.todo = notify[n].todo \ {notify[n].item}
                 /\ j.item = NoItem /\ j.channels = notify[n].channels
<1>1. /\ notify[n] \in JobType /\ Orderly(notify[n])
      /\ notify[n].at = "running" /\ notify[n].item \in notify[n].todo
      /\ notify[n].item # NoItem /\ notify[n].flight = {}
  BY DEF JobsTyped, Finish, Orderly
<1>2. Touches(n, ItemDone(notify[n]))
  BY DEF Finish, Touches
<1>3. CASE notify[n].todo = {notify[n].item}
  BY <1>1, <1>2, <1>3, FreeFacts DEF ItemDone
<1>4. CASE notify[n].todo # {notify[n].item}
  <2> DEFINE j == [notify[n] EXCEPT !.todo = @ \ {notify[n].item}, !.item = NoItem]
  <2>1. Touches(n, j)
    BY <1>2, <1>4 DEF ItemDone
  <2>2. /\ j \in JobType /\ j.at = notify[n].at /\ j.items = notify[n].items
        /\ j.todo = notify[n].todo \ {notify[n].item} /\ j.item = NoItem
        /\ j.channels = notify[n].channels /\ j.flight = notify[n].flight
    BY <1>1 DEF JobType
  <2> HIDE DEF j
  <2>3. notify[n].todo \ {notify[n].item} # {}
    BY <1>1, <1>4
  <2> QED
    BY <1>1, <2>1, <2>2, <2>3 DEF Orderly
<1> QED
  BY <1>3, <1>4

LEMMA StallJob ==
  ASSUME JobsTyped, NEW n \in NotifyJobs, Stall(n)
  PROVE  \E j \in JobType :
           /\ Touches(n, j) /\ Orderly(j) /\ notify[n].at = "running"
           /\ j.at = "queued" /\ j.items = notify[n].items
<1>1. notify[n] \in JobType /\ Orderly(notify[n]) /\ notify[n].at = "running"
  BY DEF JobsTyped, Stall
<1>2. notify[n].items \subseteq Items /\ notify[n].items # {}
  BY <1>1 DEF JobType, Orderly
<1> QED
  BY <1>1, <1>2, FreeFacts DEF Stall, Touches

LEMMA EnqueueJob ==
  ASSUME IInv, JobsTyped, NEW r \in Runs, NEW n \in NotifyJobs, Enqueue(r, n)
  PROVE  \E j \in JobType :
           /\ Touches(n, j) /\ Orderly(j) /\ notify[n].at = "free"
           /\ j.at = "queued" /\ j.items = run[r].new
<1>1. run[r].at = "queue" /\ notify[n].at = "free"
      /\ Touches(n, [Free EXCEPT !.at = "queued", !.items = run[r].new])
  BY DEF Enqueue, Touches
<1>2. run[r].new \in SUBSET Items /\ run[r].new # {}
  BY <1>1 DEF IInv, Typed, JobsTyped
<1> QED
  BY <1>1, <1>2, FreeFacts

LEMMA InitJobs == Init => JobsTyped
<1> SUFFICES ASSUME Init PROVE JobsTyped
  OBVIOUS
<1>1. settings \in [channels : SUBSET {"push", "mail"}, quiet : BOOLEAN]
  BY DEF Init
<1>2. \A r \in Runs : run[r].at \notin {"save", "queue"}
  BY DEF Init, IdleRun
<1>3. /\ notify \in [NotifyJobs -> JobType]
      /\ \A n \in NotifyJobs : Orderly(notify[n])
  BY FreeFacts DEF Init
<1> QED
  BY <1>1, <1>2, <1>3 DEF Init, JobsTyped

\* A job that steps takes no other with it.
LEMMA TouchedJobs ==
  ASSUME JobsTyped, NEW n \in NotifyJobs, NEW j \in JobType, Orderly(j), Touches(n, j)
  PROVE  /\ notify' \in [NotifyJobs -> JobType]
         /\ \A m \in NotifyJobs : Orderly(notify'[m])
         /\ notify'[n] = j
         /\ \A m \in NotifyJobs : m # n => notify'[m] = notify[m]
BY DEF Touches, JobsTyped

LEMMA NextJobs ==
  ASSUME IInv, JobsTyped, [Next]_vars
  PROVE  JobsTyped'
<1> DEFINE RunsFull == \A r \in Runs : run[r].at \in {"save", "queue"} => run[r].new # {}
           RestTyped == /\ delivered \in [Items \X Endpoints -> Nat]
                        /\ subs \subseteq Endpoints
                        /\ settings \in [channels : SUBSET {"push", "mail"}, quiet : BOOLEAN]
                        /\ repeats \in Nat
                        /\ moves \in Nat
<1>1. RunsFull'
  <2>1. ASSUME NEW r \in Runs, Login(r) PROVE RunsFull'
    BY <2>1 DEF Login, IInv, Typed, JobsTyped
  <2>2. ASSUME NEW r \in Runs, Diff(r) PROVE RunsFull'
    BY <2>2 DEF Diff, Onward, IdleRun, IInv, Typed, JobsTyped
  <2>3. ASSUME NEW r \in Runs, Save(r) PROVE RunsFull'
    BY <2>3 DEF Save, IdleRun, IInv, Typed, JobsTyped
  <2>4. ASSUME NEW r \in Runs, NEW n \in NotifyJobs, Enqueue(r, n) PROVE RunsFull'
    BY <2>4 DEF Enqueue, Onward, IdleRun, IInv, Typed, JobsTyped
  <2>5. ASSUME NEW r \in Runs, FetchFails(r) \/ Lose(r) PROVE RunsFull'
    <3>1. run' = [run EXCEPT ![r] = IdleRun]
      BY <2>5 DEF FetchFails, Lose
    <3> QED
      BY <3>1 DEF IdleRun, IInv, Typed, JobsTyped
  <2>6. CASE run' = run
    BY <2>6 DEF JobsTyped
  <2> QED
    BY <2>1, <2>2, <2>3, <2>4, <2>5, <2>6 DEF Next, RunStep, vars, pipeline, Publish, JobStep,
       Begin, Take, Answer, Finish, Stall, Subscribe, Unsubscribe, ChangeSettings
<1>2. RestTyped'
  <2>1. moves' \in Nat
    <3>1. moves' = moves \/ Move
      BY DEF Next, RunStep, FetchFails, Lose, Login, Diff, Save, Enqueue, vars, Publish, JobStep,
         Begin, Take, Answer, Finish, Stall, Subscribe, Unsubscribe, ChangeSettings
    <3> QED
      BY <3>1 DEF Move, JobsTyped
  <2>2. ASSUME NEW n \in NotifyJobs, NEW e \in Endpoints, Answer(n, e) PROVE RestTyped'
    <3>1. notify[n].item \in Items
      BY <2>2, AnswerJob
    <3>2. delivered' \in [Items \X Endpoints -> Nat]
      BY <2>2, <3>1 DEF Answer, Reached, JobsTyped
    <3> QED
      BY <2>1, <2>2, <3>2 DEF Answer, JobsTyped
  <2>3. ASSUME NEW n \in NotifyJobs, Stall(n) PROVE RestTyped'
    BY <2>1, <2>3 DEF Stall, JobsTyped
  <2>4. ASSUME NEW e \in Endpoints, Subscribe(e) \/ Unsubscribe(e) PROVE RestTyped'
    BY <2>1, <2>4 DEF Subscribe, Unsubscribe, JobsTyped
  <2>5. ASSUME NEW ch \in SUBSET {"push", "mail"}, NEW q \in BOOLEAN,
               ChangeSettings([channels |-> ch, quiet |-> q])
        PROVE  RestTyped'
    BY <2>1, <2>5 DEF ChangeSettings, JobsTyped
  <2>6. CASE UNCHANGED <<delivered, subs, settings, repeats>>
    BY <2>1, <2>6 DEF JobsTyped
  <2> QED
    BY <2>2, <2>3, <2>4, <2>5, <2>6 DEF Next, RunStep, FetchFails, Lose, Login, Diff, Save,
       Enqueue, vars, delivery, Publish, JobStep, Begin, Take, Finish
<1>3. notify' \in [NotifyJobs -> JobType] /\ \A n \in NotifyJobs : Orderly(notify'[n])
  <2>1. CASE \E n \in NotifyJobs, j \in JobType : Orderly(j) /\ Touches(n, j)
    BY <2>1, TouchedJobs
  <2>2. CASE notify' = notify
    BY <2>2 DEF JobsTyped
  <2>3. ASSUME NEW r \in Runs, NEW n \in NotifyJobs, Enqueue(r, n)
        PROVE  \E j \in JobType : Orderly(j) /\ Touches(n, j)
    BY <2>3, EnqueueJob
  <2>4. ASSUME NEW n \in NotifyJobs, JobStep(n) \/ Stall(n)
        PROVE  \E j \in JobType : Orderly(j) /\ Touches(n, j)
    BY <2>4, BeginJob, TakeJob, AnswerJob, FinishJob, StallJob DEF JobStep
  <2> QED
    BY <2>1, <2>2, <2>3, <2>4 DEF Next, RunStep, FetchFails, Lose, Login, Diff, Save, vars,
       delivery, Publish, Subscribe, Unsubscribe, ChangeSettings
<1> QED
  BY <1>1, <1>2, <1>3 DEF JobsTyped

-------------------------------------------------------------------------------
(* Nothing is delivered that was not queued.                               *)

LEMMA OwingFinite ==
  ASSUME NEW i, NEW e
  PROVE  IsFiniteSet(Owing(i, e)) /\ Cardinality(Owing(i, e)) \in Nat
<1>1. Owing(i, e) \subseteq NotifyJobs
  BY DEF Owing
<1> QED
  BY <1>1, NoticeAssumption, FS_Subset, FS_CardinalityType

\* What one job owes changes the count by one at most.
LEMMA OwingStep ==
  ASSUME JobsTyped, NEW n \in NotifyJobs, NEW j \in JobType, Orderly(j), Touches(n, j),
         NEW i \in Items, NEW e \in Endpoints
  PROVE  /\ Cardinality(Owing(i, e)') <= Cardinality(Owing(i, e)) + 1
         /\ ~Owes(j, i, e) \/ Owes(notify[n], i, e) =>
              Cardinality(Owing(i, e)') <= Cardinality(Owing(i, e))
         /\ ~Owes(j, i, e) /\ Owes(notify[n], i, e) =>
              Cardinality(Owing(i, e)') + 1 = Cardinality(Owing(i, e))
         /\ Cardinality(Owing(i, e)') \in Nat /\ Cardinality(Owing(i, e)) \in Nat
<1> DEFINE old == Owing(i, e)
           new == {m \in NotifyJobs : Owes(notify'[m], i, e)}
<1>1. /\ notify'[n] = j
      /\ \A m \in NotifyJobs : m # n => notify'[m] = notify[m]
  BY TouchedJobs
<1>2. new = IF Owes(j, i, e) THEN old \cup {n} ELSE old \ {n}
  BY <1>1 DEF Owing
<1>3. n \in old <=> Owes(notify[n], i, e)
  BY DEF Owing
<1>4. IsFiniteSet(old) /\ Cardinality(old) \in Nat
  BY OwingFinite
<1>5. Owing(i, e)' = new
  BY DEF Owing
<1> HIDE DEF old, new
<1>6. /\ Cardinality(old \cup {n}) = IF n \in old THEN Cardinality(old) ELSE Cardinality(old) + 1
      /\ Cardinality(old \ {n}) = IF n \in old THEN Cardinality(old) - 1 ELSE Cardinality(old)
      /\ Cardinality(old \ {n}) \in Nat
  BY <1>4, FS_AddElement, FS_RemoveElement, FS_CardinalityType
<1>7. /\ Cardinality(new) <= Cardinality(old) + 1
      /\ ~Owes(j, i, e) \/ Owes(notify[n], i, e) => Cardinality(new) <= Cardinality(old)
      /\ ~Owes(j, i, e) /\ Owes(notify[n], i, e) => Cardinality(new) + 1 = Cardinality(old)
      /\ Cardinality(new) \in Nat
  BY <1>2, <1>3, <1>4, <1>6
<1> QED
  BY <1>4, <1>5, <1>7 DEF old

BalancedAt(i, e) ==
  delivered[<<i, e>>] + Cardinality(Owing(i, e)) <= queued[i] + repeats

\* The job may come to owe the item: then it was queued once more or repeated.
\* It may come to have delivered it: then it owes it no more.
LEMMA BalancedStep ==
  ASSUME IInv, JobsTyped, Balanced, NEW n \in NotifyJobs,
         NEW j \in JobType, Orderly(j), Touches(n, j), NEW i \in Items, NEW e \in Endpoints,
         queued'[i] \in Nat, repeats' \in Nat, delivered'[<<i, e>>] \in Nat,
         queued'[i] + repeats' >= queued[i] + repeats,
         delivered'[<<i, e>>] <= delivered[<<i, e>>] + 1,
         Owes(j, i, e) => \/ Owes(notify[n], i, e)
                          \/ queued'[i] + repeats' > queued[i] + repeats,
         delivered'[<<i, e>>] > delivered[<<i, e>>] =>
           Owes(notify[n], i, e) /\ ~Owes(j, i, e)
  PROVE  BalancedAt(i, e)'
<1>1. /\ queued[i] \in Nat /\ repeats \in Nat /\ delivered[<<i, e>>] \in Nat
      /\ delivered[<<i, e>>] + Cardinality(Owing(i, e)) <= queued[i] + repeats
  BY DEF IInv, Typed, JobsTyped, Balanced
<1>2. /\ Cardinality(Owing(i, e)') <= Cardinality(Owing(i, e)) + 1
      /\ ~Owes(j, i, e) \/ Owes(notify[n], i, e) =>
           Cardinality(Owing(i, e)') <= Cardinality(Owing(i, e))
      /\ ~Owes(j, i, e) /\ Owes(notify[n], i, e) =>
           Cardinality(Owing(i, e)') + 1 = Cardinality(Owing(i, e))
      /\ Cardinality(Owing(i, e)') \in Nat /\ Cardinality(Owing(i, e)) \in Nat
  BY OwingStep
<1>3. delivered'[<<i, e>>] + Cardinality(Owing(i, e)') <= queued'[i] + repeats'
  <2>1. CASE delivered'[<<i, e>>] > delivered[<<i, e>>]
    BY <1>1, <1>2, <2>1
  <2>2. CASE delivered'[<<i, e>>] <= delivered[<<i, e>>] /\ Owes(j, i, e)
             /\ ~Owes(notify[n], i, e)
    BY <1>1, <1>2, <2>2
  <2>3. CASE delivered'[<<i, e>>] <= delivered[<<i, e>>]
             /\ (~Owes(j, i, e) \/ Owes(notify[n], i, e))
    BY <1>1, <1>2, <2>3
  <2> QED
    BY <1>1, <2>1, <2>2, <2>3
<1> QED
  BY <1>3 DEF BalancedAt

LEMMA InitBalanced == Init => Balanced
<1> SUFFICES ASSUME Init, NEW i \in Items, NEW e \in Endpoints
             PROVE  delivered[<<i, e>>] + Cardinality(Owing(i, e)) <= queued[i] + repeats
  BY DEF Balanced
<1>1. Owing(i, e) = {}
  BY DEF Init, Owing, Owes, Free
<1>2. Cardinality(Owing(i, e)) = 0
  BY <1>1, FS_EmptySet
<1> QED
  BY <1>2 DEF Init

LEMMA NextBalanced ==
  ASSUME IInv, JobsTyped, Balanced, [Next]_vars
  PROVE  Balanced'
<1>1. \A i \in Items, e \in Endpoints : BalancedAt(i, e)
  BY DEF Balanced, BalancedAt
<1> SUFFICES ASSUME NEW i \in Items, NEW e \in Endpoints PROVE BalancedAt(i, e)'
  BY DEF Balanced, BalancedAt
<1>2. /\ queued[i] \in Nat /\ repeats \in Nat /\ delivered[<<i, e>>] \in Nat
      /\ queued'[i] \in Nat /\ repeats' \in Nat /\ delivered'[<<i, e>>] \in Nat
  BY NextIInv, NextJobs DEF IInv, Typed, JobsTyped
<1>3. ASSUME UNCHANGED <<queued, repeats, delivered, notify>> PROVE BalancedAt(i, e)'
  BY <1>1, <1>3 DEF BalancedAt, Owing
<1>4. ASSUME NEW r \in Runs, NEW n \in NotifyJobs, Enqueue(r, n) PROVE BalancedAt(i, e)'
  <2>1. PICK j \in JobType :
          /\ Touches(n, j) /\ Orderly(j) /\ notify[n].at = "free"
          /\ j.at = "queued" /\ j.items = run[r].new
    BY <1>4, EnqueueJob
  <2>2. /\ queued'[i] = queued[i] + IF i \in run[r].new THEN 1 ELSE 0
        /\ repeats' = repeats /\ delivered' = delivered
    BY <1>4 DEF Enqueue
  <2> QED
    BY <1>2, <2>1, <2>2, BalancedStep DEF Owes
<1>5. ASSUME NEW n \in NotifyJobs, Begin(n) PROVE BalancedAt(i, e)'
  <2>1. PICK j \in JobType :
          /\ Touches(n, j) /\ Orderly(j) /\ notify[n].at = "queued"
          /\ \/ j.at = "free"
             \/ /\ ~settings.quiet
                /\ j.at = "running" /\ j.items = notify[n].items /\ j.todo = j.items
                /\ j.item = NoItem /\ j.channels = settings.channels
    BY <1>5, BeginJob
  <2>2. queued' = queued /\ repeats' = repeats /\ delivered' = delivered
    BY <1>5 DEF Begin, pipeline
  <2> QED
    BY <1>2, <2>1, <2>2, BalancedStep DEF Owes
<1>6. ASSUME NEW n \in NotifyJobs, Take(n) PROVE BalancedAt(i, e)'
  <2>1. PICK j \in JobType :
          /\ Touches(n, j) /\ Orderly(j) /\ notify[n].at = "running" /\ notify[n].item = NoItem
          /\ j.at = "running" /\ j.todo = notify[n].todo
    BY <1>6, TakeJob
  <2>2. queued' = queued /\ repeats' = repeats /\ delivered' = delivered
    BY <1>6 DEF Take, pipeline
  <2>3. i # NoItem
    BY NoticeAssumption DEF Items, NoItem
  <2> QED
    BY <1>2, <2>1, <2>2, <2>3, BalancedStep DEF Owes
<1>7. ASSUME NEW n \in NotifyJobs, NEW d \in Endpoints, Answer(n, d) PROVE BalancedAt(i, e)'
  <2>1. PICK j \in JobType :
          /\ Touches(n, j) /\ Orderly(j)
          /\ notify[n].at = "running" /\ notify[n].item \in notify[n].todo \cap Items
          /\ notify[n].item # NoItem /\ d \in notify[n].flight
          /\ j.at = "running" /\ j.todo = notify[n].todo /\ j.item = notify[n].item
          /\ j.flight = notify[n].flight \ {d}
    BY <1>7, AnswerJob
  <2>2. /\ queued' = queued /\ repeats' = repeats
        /\ delivered' = delivered \/ Reached(n, d)
    BY <1>7 DEF Answer, pipeline
  <2>3. CASE i = notify[n].item /\ e = d
    <3>1. Owes(notify[n], i, e) /\ ~Owes(j, i, e)
      BY <2>1, <2>3 DEF Owes
    <3>2. delivered'[<<i, e>>] <= delivered[<<i, e>>] + 1
      BY <1>2, <2>2, <2>3 DEF Reached, JobsTyped
    <3> QED
      BY <1>2, <2>1, <2>2, <3>1, <3>2, BalancedStep
  <2>4. CASE ~(i = notify[n].item /\ e = d)
    <3>1. delivered'[<<i, e>>] = delivered[<<i, e>>]
      BY <2>1, <2>2, <2>4 DEF Reached, JobsTyped
    <3>2. Owes(j, i, e) => Owes(notify[n], i, e)
      BY <2>1 DEF Owes
    <3> QED
      BY <1>2, <2>1, <2>2, <3>1, <3>2, BalancedStep
  <2> QED
    BY <2>3, <2>4
<1>8. ASSUME NEW n \in NotifyJobs, Finish(n) PROVE BalancedAt(i, e)'
  <2>1. PICK j \in JobType :
          /\ Touches(n, j) /\ Orderly(j)
          /\ notify[n].at = "running" /\ notify[n].item \in notify[n].todo
          /\ \/ j.at = "free" /\ notify[n].todo = {notify[n].item}
             \/ /\ j.at = "running" /\ j.todo = notify[n].todo \ {notify[n].item}
                /\ j.item = NoItem
    BY <1>8, FinishJob
  <2>2. queued' = queued /\ repeats' = repeats /\ delivered' = delivered
    BY <1>8 DEF Finish, pipeline
  <2>3. Owes(j, i, e) => Owes(notify[n], i, e)
    BY <2>1 DEF Owes
  <2> QED
    BY <1>2, <2>1, <2>2, <2>3, BalancedStep
<1>9. ASSUME NEW n \in NotifyJobs, Stall(n) PROVE BalancedAt(i, e)'
  <2>1. PICK j \in JobType : Touches(n, j) /\ Orderly(j)
    BY <1>9, StallJob
  <2>2. queued' = queued /\ repeats' = repeats + 1 /\ delivered' = delivered
    BY <1>9 DEF Stall, pipeline
  <2> QED
    BY <1>2, <2>1, <2>2, BalancedStep
<1> QED
  BY <1>3, <1>4, <1>5, <1>6, <1>7, <1>8, <1>9
     DEF Next, RunStep, JobStep, FetchFails, Lose, Login, Diff, Save, vars, delivery, pipeline,
         Publish, Subscribe, Unsubscribe, ChangeSettings

\* A device gets an item at most once for each time it was queued or its job began
\* anew, whatever endpoints and mails fail: each push under way is owed once.
THEOREM Deliveries == Spec => []DeliveredAsQueued
<1>1. IInv /\ JobsTyped /\ Balanced => DeliveredAsQueued
  <2> SUFFICES ASSUME IInv, JobsTyped, Balanced, NEW i \in Items, NEW e \in Endpoints
               PROVE  delivered[<<i, e>>] <= queued[i] + repeats
    BY DEF DeliveredAsQueued
  <2>1. Cardinality(Owing(i, e)) \in Nat
    BY OwingFinite
  <2> QED
    BY <2>1 DEF IInv, Typed, JobsTyped, Balanced
<1> QED
  BY InitIInv, NextIInv, InitJobs, NextJobs, InitBalanced, NextBalanced, <1>1, PTL DEF Spec

-------------------------------------------------------------------------------
(* Every device is served.                                                 *)

LEMMA InitMissed == Init => NobodyMissed
BY DEF Init, NobodyMissed, JobServed, Free

\* Without a fault or a change a step leaves the subscriptions of the living alone,
\* and a delivery stays one.
LEMMA CalmStep ==
  ASSUME IInv, JobsTyped, NobodyMissed, [Next]_vars, moves' = 0
  PROVE  /\ moves = 0 /\ ~Move
         /\ gone' = gone /\ subs' \subseteq subs /\ Endpoints \ subs' \subseteq gone
         /\ settings' = settings
         /\ \A i \in Items, e \in Endpoints : Served(i, e) => Served(i, e)'
<1>1. ~Move
  BY DEF Move, JobsTyped
<1>2. moves = 0
  <2>1. moves' = moves
    BY <1>1 DEF Next, RunStep, FetchFails, Lose, Login, Diff, Save, Enqueue, vars, Publish, JobStep,
       Begin, Take, Answer, Finish, Stall, Subscribe, Unsubscribe, ChangeSettings
  <2> QED
    BY <2>1
<1>3. Endpoints \ subs \subseteq gone
  BY <1>2 DEF NobodyMissed
<1>4. ASSUME NEW n \in NotifyJobs, NEW d \in Endpoints, Answer(n, d)
      PROVE  /\ gone' = gone /\ subs' \subseteq subs /\ Endpoints \ subs' \subseteq gone
             /\ settings' = settings
             /\ \A i \in Items, e \in Endpoints : Served(i, e) => Served(i, e)'
  <2>1. notify[n].item \in Items
    BY <1>4, AnswerJob
  <2>2. gone' = gone /\ subs' \subseteq subs /\ subs \ subs' \subseteq gone /\ settings' = settings
    BY <1>4 DEF Answer
  <2>3. \A i \in Items, e \in Endpoints : delivered'[<<i, e>>] >= delivered[<<i, e>>]
    <3>1. CASE delivered' = delivered
      BY <3>1 DEF JobsTyped
    <3>2. CASE Reached(n, d)
      BY <2>1, <3>2 DEF Reached, JobsTyped
    <3> QED
      BY <1>4, <3>1, <3>2 DEF Answer
  <2>4. \A i \in Items, e \in Endpoints :
          delivered[<<i, e>>] \in Nat /\ delivered'[<<i, e>>] \in Nat
    BY NextJobs DEF JobsTyped
  <2>5. \A i \in Items, e \in Endpoints : Served(i, e) => Served(i, e)'
    BY <2>2, <2>3, <2>4 DEF Served
  <2> QED
    BY <1>3, <2>2, <2>5
<1>5. CASE UNCHANGED <<gone, subs, settings, delivered>>
  BY <1>1, <1>2, <1>3, <1>5 DEF Served
<1>6. \A e \in Endpoints : ~Subscribe(e) /\ ~Unsubscribe(e)
  BY <1>1, <1>3 DEF Subscribe, Unsubscribe
<1> QED
  BY <1>1, <1>2, <1>4, <1>5, <1>6 DEF Next, RunStep, JobStep, FetchFails, Lose, Login, Diff, Save,
     Enqueue, vars, delivery, Publish, Begin, Take, Finish, Stall, ChangeSettings

LEMMA NextMissed ==
  ASSUME IInv, JobsTyped, NobodyMissed, [Next]_vars
  PROVE  NobodyMissed'
<1> SUFFICES ASSUME moves' = 0 PROVE NobodyMissed'
  BY DEF NobodyMissed
<1>1. /\ moves = 0 /\ ~Move
      /\ gone' = gone /\ subs' \subseteq subs /\ Endpoints \ subs' \subseteq gone
      /\ settings' = settings
      /\ \A i \in Items, e \in Endpoints : Served(i, e) => Served(i, e)'
  BY CalmStep
<1>2. /\ settings = [channels |-> {"push", "mail"}, quiet |-> FALSE]
      /\ \A n \in NotifyJobs : notify[n] \in JobType /\ Orderly(notify[n]) /\ JobServed(notify[n])
  BY <1>1 DEF NobodyMissed, JobsTyped
<1>3. \A j \in JobType : JobServed(j) => JobServed(j)'
  BY <1>1 DEF JobServed, JobType
<1>4. ASSUME NEW n \in NotifyJobs, NEW j \in JobType, Orderly(j), Touches(n, j), JobServed(j)'
      PROVE  NobodyMissed'
  <2>1. /\ notify'[n] = j
        /\ \A m \in NotifyJobs : m # n => notify'[m] = notify[m]
    BY <1>4, TouchedJobs
  <2>2. \A m \in NotifyJobs : JobServed(notify[m])'
    BY <1>2, <1>3, <1>4, <2>1 DEF JobServed, Served
  <2> QED
    BY <1>1, <1>2, <2>2 DEF NobodyMissed
<1>5. CASE notify' = notify
  BY <1>1, <1>2, <1>3, <1>5 DEF NobodyMissed
<1>6. ASSUME NEW r \in Runs, NEW n \in NotifyJobs, Enqueue(r, n) PROVE NobodyMissed'
  BY <1>4, <1>6, EnqueueJob DEF JobServed
<1>7. ASSUME NEW n \in NotifyJobs, Begin(n) PROVE NobodyMissed'
  BY <1>2, <1>4, <1>7, BeginJob DEF JobServed
<1>8. ASSUME NEW n \in NotifyJobs, Take(n) PROVE NobodyMissed'
  <2>1. PICK j \in JobType :
          /\ Touches(n, j) /\ Orderly(j) /\ notify[n].at = "running" /\ notify[n].item = NoItem
          /\ j.at = "running" /\ j.items = notify[n].items /\ j.todo = notify[n].todo
          /\ j.channels = notify[n].channels /\ j.item \in j.todo /\ j.item # NoItem
          /\ j.flight = IF "push" \in notify[n].channels THEN subs ELSE {}
    BY <1>8, TakeJob
  <2>2. j.flight = subs
    BY <1>2, <2>1 DEF JobServed
  <2>3. \A e \in Endpoints \ j.flight : Served(j.item, e)
    BY <2>2 DEF Served
  <2>4. JobServed(j)
    BY <1>2, <2>1, <2>3 DEF JobServed
  <2> QED
    BY <1>3, <1>4, <2>1, <2>4
<1>9. ASSUME NEW n \in NotifyJobs, NEW d \in Endpoints, Answer(n, d) PROVE NobodyMissed'
  <2>1. PICK j \in JobType :
          /\ Touches(n, j) /\ Orderly(j)
          /\ notify[n].at = "running" /\ notify[n].item \in notify[n].todo \cap Items
          /\ notify[n].item # NoItem /\ d \in notify[n].flight
          /\ j.at = "running" /\ j.items = notify[n].items /\ j.todo = notify[n].todo
          /\ j.channels = notify[n].channels /\ j.item = notify[n].item
          /\ j.flight = notify[n].flight \ {d}
    BY <1>9, AnswerJob
  <2>2. Served(j.item, d)'
    <3>1. CASE d \in gone
      BY <1>1, <3>1 DEF Served
    <3>2. CASE d \notin gone
      <4>1. Reached(n, d)
        BY <1>1, <1>9, <3>2 DEF Answer
      <4>2. /\ delivered[<<j.item, d>>] \in Nat
            /\ delivered'[<<j.item, d>>] = delivered[<<j.item, d>>] + 1
        BY <2>1, <4>1 DEF Reached, JobsTyped
      <4> QED
        BY <4>2 DEF Served
    <3> QED
      BY <3>1, <3>2
  <2>3. /\ j.channels = {"push", "mail"}
        /\ \A i \in j.items \ j.todo, e \in Endpoints : Served(i, e)'
        /\ \A e \in Endpoints \ j.flight : Served(j.item, e)'
    BY <1>1, <1>2, <2>1, <2>2 DEF JobServed, JobType
  <2>4. JobServed(j)'
    BY <2>3 DEF JobServed
  <2> QED
    BY <1>4, <2>1, <2>4
<1>10. ASSUME NEW n \in NotifyJobs, Finish(n) PROVE NobodyMissed'
  <2>1. PICK j \in JobType :
           /\ Touches(n, j) /\ Orderly(j)
           /\ notify[n].at = "running" /\ notify[n].item \in notify[n].todo
           /\ notify[n].item # NoItem /\ notify[n].flight = {}
           /\ \/ j.at = "free" /\ notify[n].todo = {notify[n].item}
              \/ /\ j.at = "running" /\ j.items = notify[n].items
                 /\ j.todo = notify[n].todo \ {notify[n].item}
                 /\ j.item = NoItem /\ j.channels = notify[n].channels
    BY <1>10, FinishJob
  <2>2. JobServed(j)
    BY <1>2, <2>1 DEF JobServed
  <2> QED
    BY <1>3, <1>4, <2>1, <2>2
<1>11. \A n \in NotifyJobs : ~Stall(n)
  BY <1>1 DEF Stall
<1> QED
  BY <1>5, <1>6, <1>7, <1>8, <1>9, <1>10, <1>11 DEF Next, RunStep, JobStep, FetchFails, Lose,
     Login, Diff, Save, vars, delivery, Publish, Subscribe, Unsubscribe, ChangeSettings

\* When a notify job ends, each of its items has reached each device that is subscribed
\* and lives: a gone device or its rejection keeps nothing from the others.
THEOREM DevicesServed == Spec => AllDevicesServed
<1> DEFINE Serves ==
      moves' = 0 =>
        \A n \in NotifyJobs : notify[n].at = "running" /\ notify'[n].at = "free" =>
          \A i \in notify[n].items, e \in subs \ gone : delivered[<<i, e>>] > 0
<1>1. IInv /\ JobsTyped /\ NobodyMissed /\ [Next]_vars => [Serves]_vars
  <2> SUFFICES ASSUME IInv, JobsTyped, NobodyMissed, Next, moves' = 0, NEW n \in NotifyJobs,
                      notify[n].at = "running", notify'[n].at = "free",
                      NEW i \in notify[n].items, NEW e \in subs \ gone
               PROVE  delivered[<<i, e>>] > 0
    OBVIOUS
  <2>1. moves = 0 /\ ~Move
    BY CalmStep
  <2>2. e \in Endpoints /\ JobServed(notify[n])
    BY <2>1 DEF JobsTyped, NobodyMissed
  <2>3. CASE Finish(n)
    <3>1. /\ notify[n].item \in notify[n].todo /\ notify[n].item # NoItem
          /\ notify[n].flight = {} /\ notify[n].todo = {notify[n].item}
      BY <2>3, FinishJob, TouchedJobs
    <3>2. Served(i, e)
      BY <2>2, <3>1 DEF JobServed
    <3> QED
      BY <3>2 DEF Served
  <2>4. ASSUME NEW m \in NotifyJobs, m # n, JobStep(m) PROVE FALSE
    BY <2>4, BeginJob, TakeJob, AnswerJob, FinishJob, TouchedJobs DEF JobStep
  <2>5. ~Begin(n) /\ ~Take(n) /\ \A d \in Endpoints : ~Answer(n, d)
    BY BeginJob, TakeJob, AnswerJob, TouchedJobs
  <2>6. ASSUME NEW r \in Runs, NEW m \in NotifyJobs, Enqueue(r, m) PROVE FALSE
    BY <2>6, EnqueueJob, TouchedJobs
  <2>7. \A m \in NotifyJobs : ~Stall(m)
    BY <2>1 DEF Stall
  <2>8. notify' # notify
    OBVIOUS
  <2> QED
    BY <2>3, <2>4, <2>5, <2>6, <2>7, <2>8 DEF Next, RunStep, JobStep, FetchFails, Lose, Login, Diff,
       Save, delivery, Publish, Subscribe, Unsubscribe, ChangeSettings
<1> QED
  BY InitIInv, NextIInv, InitJobs, NextJobs, InitMissed, NextMissed, <1>1, PTL
     DEF Spec, AllDevicesServed
===============================================================================
