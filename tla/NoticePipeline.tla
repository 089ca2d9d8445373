---------------------------- MODULE NoticePipeline ----------------------------
(***************************************************************************)
(* From the portal to the devices of one user, for one target: runs of the *)
(* scrape job (or of the CIT notifications sync, which has no assignments) *)
(* fetch a page, save what is new and queue a notify job for it; notify    *)
(* jobs push each item to every subscription and mail it.                  *)
(*                                                                         *)
(* Runs of one user overlap: every round queues new jobs, and a stalled    *)
(* job is started again.  A source the user does not want is a user        *)
(* without channels.                                                       *)
(***************************************************************************)
EXTENDS Integers, FiniteSets

CONSTANTS
  Notices, Assignments,   \* items, by their externalId
  Doublable,              \* notices the portal may show twice on a page
  Runs,                   \* contexts of concurrent scrape jobs
  NotifyJobs,             \* notify jobs that can exist at once
  Endpoints,              \* devices of the user
  Mortal,                 \* those whose browser may have dropped the endpoint
  MaxMoves                \* bound on faults and on what the user and the clock do

ASSUME NoticeAssumption ==
  /\ Notices \cap Assignments = {} /\ Doublable \subseteq Notices
  /\ Mortal \subseteq Endpoints
  /\ "none" \notin Notices \cup Assignments
  /\ IsFiniteSet(NotifyJobs)
  /\ MaxMoves \in Nat

VARIABLES
  published,   \* items the portal shows
  doubled,     \* notices it shows twice; the adapters do not remove doubles
  saved,       \* items in the tables Notification and Assignment
  run,         \* per context: the scrape job
  queued,      \* history: how many notify jobs an item was put into
  lost,        \* history: items whose run ended between saving and queueing
  notify,      \* the notify jobs
  subs,        \* table PushSubscription
  gone,        \* endpoints that answer 410 or 404, for ever
  settings,    \* what the user allows: channels, and whether the hours are quiet
  delivered,   \* history: pushes of an item that reached an endpoint
  repeats,     \* history: starts of a notify job after the first
  moves

pipeline == <<published, doubled, saved, run, queued, lost>>
delivery == <<notify, subs, gone, settings, delivered, repeats>>
vars == <<pipeline, delivery, moves>>

Items == Notices \cup Assignments
NoItem == "none"
Free == [at |-> "free", items |-> {}, todo |-> {}, channels |-> {}, item |-> NoItem, flight |-> {}]
IdleRun == [at |-> "idle", kind |-> "notice", new |-> {}]

Move == moves < MaxMoves /\ moves' = moves + 1

\* What is saved was published; what is under way in a job belongs to it.
TypeOK ==
  /\ saved \subseteq published /\ published \subseteq Items
  /\ doubled \subseteq Notices
  /\ \A r \in Runs :
       /\ run[r].at \in {"idle", "diff", "save", "queue"}
       /\ run[r].kind \in {"notice", "assignment"} /\ run[r].new \subseteq published
       /\ run[r].at = "queue" => run[r].new # {} /\ run[r].new \subseteq saved
  /\ queued \in [Items -> Nat] /\ delivered \in [Items \X Endpoints -> Nat]
  /\ lost \subseteq saved
  /\ \A n \in NotifyJobs :
       /\ notify[n].at \in {"free", "queued", "running"}
       /\ notify[n].todo \subseteq notify[n].items
       /\ notify[n].item \in notify[n].todo \cup {NoItem}
       /\ notify[n].flight \subseteq Endpoints
       /\ notify[n].flight # {} => notify[n].item # NoItem
  /\ subs \subseteq Endpoints /\ gone \subseteq Mortal
  /\ settings \in [channels : SUBSET {"push", "mail"}, quiet : BOOLEAN]
  /\ repeats \in 0..MaxMoves /\ moves \in 0..MaxMoves

Init ==
  /\ published = {} /\ saved = {} /\ lost = {} /\ subs = Endpoints
  /\ gone \in SUBSET Mortal
  /\ doubled \in SUBSET Doublable
  /\ run = [r \in Runs |-> IdleRun]
  /\ notify = [n \in NotifyJobs |-> Free]
  /\ queued = [i \in Items |-> 0]
  /\ delivered = [x \in Items \X Endpoints |-> 0]
  /\ settings = [channels |-> {"push", "mail"}, quiet |-> FALSE]
  /\ repeats = 0 /\ moves = 0

-------------------------------------------------------------------------------
(* The scrape job: diffAndSave, then diffAndSaveAssignments                *)

Publish(i) ==
  /\ i \notin published
  /\ published' = published \cup {i}
  /\ UNCHANGED <<doubled, saved, run, queued, lost, delivery, moves>>

Page(kind) == published \cap (IF kind = "notice" THEN Notices ELSE Assignments)

\* After the notices the assignments are fetched, and after them the run is over.
Onward(j) ==
  IF j.kind = "notice" THEN [at |-> "diff", kind |-> "assignment", new |-> {}]
                       ELSE IdleRun

\* The portal is healthy, there are credentials, and the login works; otherwise, as with
\* an empty portal, the run ends as it began.
Login(r) ==
  /\ run[r].at = "idle" /\ published # {}
  /\ run' = [run EXCEPT ![r].at = "diff"]
  /\ UNCHANGED <<published, doubled, saved, queued, lost, delivery, moves>>

\* The portal does not answer with the page: the job fails, and its assignments wait
\* for the next round.
FetchFails(r) ==
  /\ run[r].at = "diff" /\ Move
  /\ run' = [run EXCEPT ![r] = IdleRun]
  /\ UNCHANGED <<published, doubled, saved, queued, lost, delivery>>

\* Mutation: nothing on a page is new as soon as one of its items is known.
DiffStoppingAtKnown(r) ==
  /\ run[r].at = "diff"
  /\ LET page == Page(run[r].kind)
     IN run' = [run EXCEPT ![r] = IF page = {} \/ page \cap saved # {} THEN Onward(@)
                                  ELSE [@ EXCEPT !.at = "save", !.new = page]]
  /\ UNCHANGED <<published, doubled, saved, queued, lost, delivery, moves>>

\* The page is fetched; its externalIds that are not in the table are new.  What is
\* published between fetch and query might as well be published later.
Diff(r) ==
  /\ run[r].at = "diff"
  /\ LET new == Page(run[r].kind) \ saved
     IN run' = [run EXCEPT ![r] = IF new = {} THEN Onward(@)
                                  ELSE [@ EXCEPT !.at = "save", !.new = new]]
  /\ UNCHANGED <<published, doubled, saved, queued, lost, delivery, moves>>

\* A unique index holds an item of the batch, or the batch holds one item twice.
Clashes(r) == run[r].kind = "notice" /\ run[r].new \cap (saved \cup doubled) # {}

\* Mutation: duplicates of notices are skipped as well, and all are returned as new.
SaveSkippingDuplicates(r) ==
  /\ run[r].at = "save"
  /\ saved' = saved \cup run[r].new
  /\ run' = [run EXCEPT ![r].at = "queue"]
  /\ UNCHANGED <<published, doubled, queued, lost, delivery, moves>>

\* Mutation: a batch that clashes is given up for good, as if it were saved.
SaveForgettingBatch(r) ==
  /\ run[r].at = "save"
  /\ saved' = saved \cup run[r].new
  /\ run' = [run EXCEPT ![r] = IF Clashes(r) THEN Onward(@) ELSE [@ EXCEPT !.at = "queue"]]
  /\ UNCHANGED <<published, doubled, queued, lost, delivery, moves>>

\* createMany: for notices all or nothing, and a violation fails the job; for
\* assignments duplicates are skipped, and all are returned as new.
Save(r) ==
  /\ run[r].at = "save"
  /\ IF Clashes(r)
     THEN run' = [run EXCEPT ![r] = IdleRun] /\ UNCHANGED saved
     ELSE run' = [run EXCEPT ![r].at = "queue"] /\ saved' = saved \cup run[r].new
  /\ UNCHANGED <<published, doubled, queued, lost, delivery, moves>>

\* notifyQueue.add.
Enqueue(r, n) ==
  /\ run[r].at = "queue" /\ notify[n].at = "free"
  /\ notify' = [notify EXCEPT ![n] = [Free EXCEPT !.at = "queued", !.items = run[r].new]]
  /\ queued' = [i \in Items |-> queued[i] + IF i \in run[r].new THEN 1 ELSE 0]
  /\ run' = [run EXCEPT ![r] = Onward(@)]
  /\ UNCHANGED <<published, doubled, saved, lost, subs, gone, settings, delivered, repeats, moves>>

\* The worker dies, or the queue refuses the job; only here it matters.
Lose(r) ==
  /\ run[r].at = "queue" /\ Move
  /\ lost' = lost \cup run[r].new
  /\ run' = [run EXCEPT ![r] = IdleRun]
  /\ UNCHANGED <<published, doubled, saved, queued, delivery>>

-------------------------------------------------------------------------------
(* The notify job                                                          *)

\* Settings are read once per job; in quiet hours the job ends, and nothing is sent later.
Begin(n) ==
  /\ notify[n].at = "queued"
  /\ notify' = [notify EXCEPT ![n] =
       IF settings.quiet THEN Free
       ELSE [@ EXCEPT !.at = "running", !.todo = notify[n].items, !.channels = settings.channels]]
  /\ UNCHANGED <<pipeline, subs, gone, settings, delivered, repeats, moves>>

\* The next item, in the order of the list; sendPushToUser reads the subscriptions.
Take(n) ==
  /\ notify[n].at = "running" /\ notify[n].item = NoItem
  /\ notify' = [notify EXCEPT ![n] =
       [@ EXCEPT !.item = CHOOSE i \in notify[n].todo : TRUE,
                 !.flight = IF "push" \in notify[n].channels THEN subs ELSE {}]]
  /\ UNCHANGED <<pipeline, subs, gone, settings, delivered, repeats, moves>>

\* The push of the item in hand reached e.
Reached(n, e) == delivered' = [delivered EXCEPT ![<<notify[n].item, e>>] = @ + 1]

\* Mutation: a subscription is removed after any error.
AnswerRemovingAll(n, e) ==
  /\ e \in notify[n].flight
  /\ \/ e \in gone /\ subs' = subs \ {e} /\ UNCHANGED <<delivered, moves>>
     \/ e \notin gone /\ Reached(n, e) /\ UNCHANGED <<subs, moves>>
     \/ e \notin gone /\ Move /\ subs' = subs \ {e} /\ UNCHANGED delivered
  /\ notify' = [notify EXCEPT ![n].flight = @ \ {e}]
  /\ UNCHANGED <<pipeline, gone, settings, repeats>>

\* Mutation: the first rejection ends the job, as with Promise.all and no catch.
AnswerGivingUp(n, e) ==
  /\ e \in notify[n].flight
  /\ IF e \in gone
     THEN /\ notify' = [notify EXCEPT ![n] = Free]
          /\ subs' = subs \ {e} /\ UNCHANGED delivered
     ELSE /\ notify' = [notify EXCEPT ![n].flight = @ \ {e}]
          /\ Reached(n, e) /\ UNCHANGED subs
  /\ UNCHANGED <<pipeline, gone, settings, repeats, moves>>

\* One endpoint answers: gone, whereupon its subscription is deleted; taken; or an
\* error, that is counted and forgotten.
Answer(n, e) ==
  /\ e \in notify[n].flight
  /\ \/ e \in gone /\ subs' = subs \ {e} /\ UNCHANGED <<delivered, moves>>
     \/ e \notin gone /\ Reached(n, e) /\ UNCHANGED <<subs, moves>>
     \/ e \notin gone /\ Move /\ UNCHANGED <<subs, delivered>>
  /\ notify' = [notify EXCEPT ![n].flight = @ \ {e}]
  /\ UNCHANGED <<pipeline, gone, settings, repeats>>

ItemDone(j) ==
  IF j.todo = {j.item} THEN Free ELSE [j EXCEPT !.todo = @ \ {j.item}, !.item = NoItem]

\* Mutation: a mail that fails fails the job, which is tried again.
FinishRethrowing(n) ==
  /\ notify[n].item # NoItem /\ notify[n].flight = {}
  /\ \/ notify' = [notify EXCEPT ![n] = ItemDone(@)] /\ UNCHANGED moves
     \/ /\ "mail" \in notify[n].channels /\ Move
        /\ notify' = [notify EXCEPT ![n] = [Free EXCEPT !.at = "queued", !.items = notify[n].items]]
  /\ UNCHANGED <<pipeline, subs, gone, settings, delivered, repeats>>

\* All endpoints have answered and the mail is sent or has failed, which is caught.
Finish(n) ==
  /\ notify[n].item # NoItem /\ notify[n].flight = {}
  /\ notify' = [notify EXCEPT ![n] = ItemDone(@)]
  /\ UNCHANGED <<pipeline, subs, gone, settings, delivered, repeats, moves>>

\* The worker dies; the job stalls and starts from its first item.
Stall(n) ==
  /\ notify[n].at = "running" /\ Move
  /\ notify' = [notify EXCEPT ![n] = [Free EXCEPT !.at = "queued", !.items = notify[n].items]]
  /\ repeats' = repeats + 1
  /\ UNCHANGED <<pipeline, subs, gone, settings, delivered>>

-------------------------------------------------------------------------------
(* The user                                                                *)

\* POST and DELETE of /api/push/subscribe; a gone endpoint is never subscribed again,
\* so this needs no bound: what can be subscribed was unsubscribed before.
Subscribe(e) ==
  /\ e \notin subs \cup gone
  /\ subs' = subs \cup {e}
  /\ UNCHANGED <<pipeline, notify, gone, settings, delivered, repeats, moves>>

Unsubscribe(e) ==
  /\ e \in subs /\ Move
  /\ subs' = subs \ {e}
  /\ UNCHANGED <<pipeline, notify, gone, settings, delivered, repeats>>

\* PUT /api/settings, or quiet hours that begin or end.
ChangeSettings(new) ==
  /\ new # settings /\ Move
  /\ settings' = new
  /\ UNCHANGED <<pipeline, notify, subs, gone, delivered, repeats>>

RunStep(r) == Login(r) \/ Diff(r) \/ Save(r) \/ \E n \in NotifyJobs : Enqueue(r, n)
JobStep(n) ==
  \/ Begin(n) \/ Take(n) \/ Finish(n)
  \/ \E e \in Endpoints : Answer(n, e)

Next ==
  \/ \E i \in Items : Publish(i)
  \/ \E r \in Runs : RunStep(r) \/ FetchFails(r) \/ Lose(r)
  \/ \E n \in NotifyJobs : JobStep(n) \/ Stall(n)
  \/ \E e \in Endpoints : Subscribe(e) \/ Unsubscribe(e)
  \/ \E ch \in SUBSET {"push", "mail"}, q \in BOOLEAN :
       ChangeSettings([channels |-> ch, quiet |-> q])

Spec == Init /\ [][Next]_vars

\* Rounds are repeated and workers take their steps.
Fairness ==
  /\ \A r \in Runs : WF_vars(RunStep(r))
  /\ \A n \in NotifyJobs : WF_vars(JobStep(n))
FairSpec == Spec /\ Fairness

-------------------------------------------------------------------------------
(* Properties                                                              *)

\* Overlapping runs put a notice into one notify job at most: the unique index, and
\* that a batch is saved as a whole or not at all, decide which run announces it.
NoticeQueuedOnce == \A i \in Notices : queued[i] <= 1

\* What is in the table was announced, or a run is about to, or it died in between.
SavedIsQueued ==
  \A i \in saved :
    \/ queued[i] > 0 \/ i \in lost
    \/ \E r \in Runs : run[r].at = "queue" /\ i \in run[r].new

\* A batch that is lost to a concurrent run is not lost for good: everything the portal
\* shows comes to be saved, as long as no notice that is shown twice blocks the saving.
PublishedIsSaved == <>[](published \subseteq saved \/ doubled \cap published # {})

\* The worker removes no subscription of a device that lives: neither an error of the
\* push service nor a concurrent change by the user makes it do so.
LiveSubscriptionKept == [][notify' # notify => subs \ subs' \subseteq gone]_vars

\* A device gets an item at most once for each time it was queued or its job started
\* anew: a failing mail or endpoint repeats nothing for the others.
DeliveredAsQueued ==
  \A i \in Items, e \in Endpoints : delivered[<<i, e>>] <= queued[i] + repeats

\* When a notify job ends, each of its items has reached each living device that is
\* subscribed: devices that are gone keep nothing from the others.
AllDevicesServed ==
  [][moves' = 0 =>
       \A n \in NotifyJobs : notify[n].at = "running" /\ notify'[n].at = "free" =>
         \A i \in notify[n].items, e \in subs \ gone : delivered[<<i, e>>] > 0]_vars
===============================================================================
