# ChibaTechPortal in TLA+

This directory specifies the part of ChibaTechPortal whose correctness is hard to
test: the actors that share a database, a Redis queue and the university's
attendance system, and that may crash, overtake each other or be run twice.
Modules are checked with TLC on small instances; the theorems hold for every value
of the constants and are checked by TLAPS.

    tlc -config submit_once.cfg MCAttendanceJob.tla     # any .cfg of this directory
    tlapm AttendanceJobProofs.tla                       # or any other *Proofs.tla

## 1. The system

ChibaTechPortal is a Next.js application (`apps/web`), a worker process
(`apps/worker`), a Prisma schema with a token store (`packages/db`) and pure code
shared by both (`packages/shared`). They meet in PostgreSQL and in BullMQ queues on
Redis.

| component | keeps | does | talks to |
|---|---|---|---|
| attendance worker (`jobs/attendance-job.ts`) | `attendance_logs`, `attendance_audit_logs` | guards a job, claims its row, audits, calls the adapter, saves and notifies; three jobs at a time | BullMQ, PostgreSQL, adapter, notify queue |
| confirm submit API | none | checks the same guard, enqueues `confirm-user-row-date` | PostgreSQL, BullMQ |
| manual API | `attendance_logs` (method `manual`) | records a block row by row | PostgreSQL |
| QR session API | `attendance_qr_sessions` | upserts the session of a room and day | PostgreSQL |
| attendance settings API | `users.attendanceSettings` | sets the mode; `auto` needs the developer code | PostgreSQL |
| scheduler (`jobs/scheduler.ts`) | none | every minute enqueues `auto-user-row-date` five minutes before a class, reminders; scrape jobs every 15 minutes | PostgreSQL, BullMQ |
| attendance adapter | cookies of one call | logs in, opens the room page, posts the form | attendance system |
| attendance client (`confirm-flow.tsx`, `qr-reader.tsx`) | phase of the screen | scan, validate, submit | APIs |
| refresh tokens (`refresh-token-store.ts`, `api/auth/refresh`, `lib/auth.ts`) | `refresh_tokens`, cookie | issue, rotate, detect reuse, revoke | PostgreSQL |
| rate limiters | counters per key | fixed windows, in memory or in Redis | Redis |
| scrape pipeline and diff engine | `notifications`, `assignments` | saves what is new, enqueues it for notification | CIT portal, manaba, PostgreSQL, notify queue |
| notification delivery | `push_subscriptions` | filters by settings and quiet hours, pushes, mails, drops dead subscriptions | push services, mail |
| timetable synchronisation and API | `timetables` | replaces scraped rows, edits by hand | PostgreSQL |
| service worker (`public/sw.js`) | caches | cache strategies, push display | browser |
| CIT portal scraper (`scrapers/cit-portal`) | cookie jar and ViewState of one call | SSO login with a one-time code; timetable, board, search of syllabi | CIT portal, Keycloak |
| parsers | none | extract rows, notices, syllabi from HTML | called by the scrapers |
| pages, presentation, cryptography, headers | none | stateless | |

What makes each of them correct:

* **Attendance.** No submission leaves the worker twice for one user, row, date and
  method; every submission is audited before it leaves; a success row is true and
  final; a block that has a success is not submitted again; every job settles and
  every claimed row gets a result; the student is told what happened.
* **Refresh tokens.** A token is redeemed at most once; after a detected reuse or a
  sign-out no token of the family (or user) is valid.
* **Rate limiters.** Never more than the limit in a window; a window always ends.
* **Scheduler.** Every row that is due and wanted is queued, once; one scan of the QR
  code is enough for a block of classes.
* **Attendance pages.** Cameras stop, a preview is sent once, what the pages show is
  what the server stored, however answers are delayed, reordered or lost.
* **Scrape and notify.** A notice is announced once, what is saved is announced, each
  living device is served, and none loses its subscription.
* **Timetable.** Overlapping synchronisations bring the timetable to what the portal
  shows, touch no row the user added, and delete only what the portal no longer has; a
  class gets no syllabus but one looked up for a name it has had.
* **Portal login.** Every synchronisation ends; a code is refused only because a rival
  got in with that very code, and what was refused is not posted again; every course is
  answered, though others fail.

The hard behaviours are listed as `hazards` in `PROJECT.json`, each at its line
with the properties that cover it.

## 2. The modules

| module | models | proofs | instances |
|---|---|---|---|
| `SubmissionLedger` | what the attendance worker promises | | |
| `AttendanceJob` | worker slots, queue, web handlers, faults; implements the ledger | `AttendanceJobProofs` | `MCAttendanceJob` |
| `TokenRotation` | what refresh tokens promise | | |
| `RefreshToken` | browsers, handlers, both token stores; implements the rotation | `RefreshTokenProofs` | `MCRefreshToken` |
| `FixedWindow` | what a rate limiter promises | | |
| `RateLimiter` | one key of both limiters; implements the window | `RateLimiterProofs` | `MCRateLimiter` |
| `AttendanceRules` | the pure functions of `packages/shared` about time, rooms, blocks, settings and the two guards | | |
| `AttendanceScheduler` | the minute tick of several processes, with scans, settings and the queue; extends the rules | `AttendanceSchedulerProofs` | `MCAttendanceScheduler` |
| `AttendancePages` | the browser pages and the handlers they call; extends the rules | `AttendancePagesProofs` | `MCAttendancePages` |
| `NoticePipeline` | scrape runs, notify queue, delivery, subscriptions | `NoticePipelineProofs` | `MCNoticePipeline` |
| `TimetableSync` | everyone who writes the timetable of a user | `TimetableSyncProofs` | `MCTimetableSync` |
| `PortalSso` | the three portal synchronisations and their logins | `PortalSsoProofs` | `MCPortalSso` |

The components meet as the code makes them meet: `AttendanceScheduler` and
`AttendancePages` compose the rules with the actors that apply them on both sides of
the wire, `AttendanceJob` takes the jobs both of them queue, `NoticePipeline` takes what
a login as in `PortalSso` fetched, and `TimetableSync` the pages `PortalSso` returns. Each
interface is small (a job key, a set of items, a page) and is the environment of the
module behind it.

### AttendanceJob

One student, one class date. A submission key is `<<row, method>>`; it is at once
the BullMQ job id and the unique key of `attendance_logs`.

| variable | stands for |
|---|---|
| `dryRun` | `ATTENDANCE_AUTO_DRY_RUN`, fixed for a deployment |
| `clock` | the minutes that matter, as ticks; `Window[r]` are the ticks at which the guards admit row r |
| `mode` | `users.attendanceSettings.mode` (`autoUnlocked` is written with it) |
| `session` | `attendance_qr_sessions` by room |
| `log`, `audit` | `attendance_logs`; the keys that have a `pre_attempt` row in `attendance_audit_logs` |
| `marking` | rows a manual request has still to write |
| `jobs`, `stalled` | the BullMQ state of each job id |
| `pc`, `cur`, `out`, `throws`, `owns` | per slot: the next await of `processAttendanceJob`, its locals, whether it holds the job lock |
| `attended`, `posts` | the attendance system: registered rows, registrations caused per key |
| `told` | the last message sent to the student |
| `mishaps` | how many faults have happened (bounded) |

The worker is cut at every await that reads or writes shared state:
`Take` (parse, row, settings, `now`), `Check` (the other guards, health check, dry
run), `ClaimCreate`/`ClaimFind`/`ClaimPrior`/`ClaimReclaim` (the four statements of
`claimAttendanceSubmit`), `PreAttempt`, `OpenPage` and `PostForm` (`adapter.attend`
before and after the registration), `SaveUpdate`/`SaveCreate`/`SaveRetry` (the three
statements of `saveLog`), `Notify`, `Finish`. Between any two of them the other
slots, `Submit`, `ScheduleAuto`, `ScanQr`, `SetMode`, the manual request and the
queue may act. `Crash` kills all slots of the process; `Fault` lets a database or
Redis call throw where the code does not catch it, `CreateFault` where it does;
`LoseLock` lets BullMQ consider a running job stalled; `Redeliver` is the stalled
check (once redelivered, then failed) and `EvictCompleted` the end of
`removeOnComplete: 100`.

Abstractions, and why they are sound for the properties:

* A web handler or a scheduler row is one step: the worker repeats every check, so
  what a handler read earlier adds only jobs that are rejected. The exception is the
  manual loop, which writes several rows and is split.
* The guard's reads of success logs and session are one step with the health check;
  the step from there to the claim, where they are stale, is modelled.
* The credentials branch is absent: the credentials API never clears them, and
  handler and scheduler require them.
* Audit phases other than `pre_attempt` are never read back.
* A session may expire at any time, which includes its 150 minutes.
* Job data is valid and the row of a job exists: for a row the user has deleted (no log
  refers to it then) a run writes an audit entry nobody reads and returns, and data of
  another form fails the job before anything is read.
* The room of a row, of its QR code and of the job is one value here; the formats that
  `attendanceRoomMatches` reconciles are in `AttendanceRules`.
* `OpenPage` may find the form of a row that is already registered unless
  `PageReflects`: nothing in the code depends on the page.

`LockLoss`, `PageReflects` and `PromptRuns` are constants so that a property can say
which of them it needs.

### RefreshToken

Any number of users, browsers and concurrent requests; a token is the value that
`randomUUID` returns, and its row is found by it (the hash is a bijection here).

| variable | stands for |
|---|---|
| `store` | which of `PrismaRefreshTokenStore` and `InMemoryRefreshTokenStore` is in use |
| `rows` | `refresh_tokens`: absent, live or used |
| `familyOf`, `ownerOf`, `deviceOf`, `parentOf` | of each token ever issued: family, user, browser, predecessor; they outlive the row |
| `expired` | tokens whose `expiresAt` has passed |
| `jar`, `session` | per browser: the refresh cookie, the user of the Auth.js session |
| `pc`, `kind`, `dev`, `raw`, `late`, `who`, `new` | per request: next await, handler, browser, token presented, what its clock said, user, token of the answer |
| `redeemed`, `suspect` | history for the properties |

`POST /api/auth/refresh` is `Refresh` (the cookie leaves the browser, the handler reads
the clock), `Mark` (the conditional `updateMany`), then `Load` and `Save` for the
winner, `Classify` and `Revoke` for the loser, and `Answer` when the browser applies
the `Set-Cookie`. `MarkInMemory` is the whole `markUsedAtomically` of the other store,
which has no await. `SignIn` and `SignOut`/`RevokeUser` are the events of Auth.js.
`Abort` stands for a rejected await, a dead process and a lost answer; `Expire`,
`DropCookie` and `EndSession` for time.

Abstractions:

* The old and the new name of the cookie are one value. A refresh or a sign-in sets the
  new one only and leaves an old one where it is, but the new one is read first and
  lives longer, and both are cleared together, so an old one beside it is never read.
* Origin and rate limit checks of the handler only reject, before any state is read.
* A sign-in is one step: nothing reads the row before the browser has the answer.
* Tokens expire in the order of their family, seven days after their issue. The
  browser's clock may be behind, so an expired cookie may still be sent.
* `TokensLeft` keeps a token for every request that may have to issue one.

### RateLimiter

One key; `check` of `RedisRateLimiter` is `Incr` and, for the request that found 1,
`SetExpiry`; `check` of `InMemoryRateLimiter` is `CheckInMemory`. `Tick` is time,
`Reset`, `Crash` (the process or the call fails between INCR and EXPIRE) and `Restart`
are what may come between. `ttl` is the time the counter has left, `granted` the
requests allowed in its life, `recent[i]` those allowed in this tick and the `i` before
it, for any stretch up to `Window` ticks. The count is not followed above the limit by
more than one, and the TTL that a check reads to fill `resetAt` is left out: nothing
depends on it.

### AttendanceRules

Operators, no state: Japanese and device time (`Parts`, `HostParts`), the two tables of
periods (`PeriodStart` of the guards, `TargetStart` of the page), `InWindow`,
`ResolveTarget`, `RoomMatches` with the fold of Tsudanuma's three digits, `ParseQr`,
`BlockRowIds`, `NormalizeSettings`, `VerifyDevCode`, `ConfirmGuard` and `AutoGuard` in
the order of their early returns. A room is its symbols and whether they are written
plainly: `normalizeRoom` drops the spelling, and everything else compares letter by
letter, which is where the code's comparisons differ.

### AttendanceScheduler

| variable | stands for |
|---|---|
| `now` | the current minute, an index into the moments that matter |
| `settings`, `creds`, `since` | `attendanceSettings` and `encryptedCitCreds` of each student, and when they were last changed |
| `session` | `attendance_qr_sessions`: row, creation, expiry by student and room |
| `due` | processes whose timer has yet to fire in this minute |
| `run` | per process and kind (job or reminder): the minute it noted, the rows left, those wanted |
| `jobs`, `added`, `failed` | the job ids the queue knows; how often each was added; those that failed |

`Fire` is the timer, `Read` the `findMany` with the students' settings, `Consider` one
turn of the loop with its session lookup and `queue.add`, `AddFails`, `Restart` and
`FailJob` the mishaps, `Scan` is `POST qr-validate` over `ConfirmGuard`, `ChangeSettings`
and `RegisterCreds` the two PUTs. `Tick` passes to the next moment once runs are over;
a timer that has not fired by then has missed its minute. A run takes far less than
the time between two moments. Reminders are taken as enabled, and completed jobs stay
known (`removeOnComplete: 100` is not reached within one minute).

### AttendancePages

One browser, the page with mode form and confirm flow, and the page with the manual
list. `step`, `preview`, `reader`, `form` and `list` are the React states of the
components of the same names; `starting` and `live` are cameras, by session; `posts`,
`puts` and `marks` are requests that were sent, `Arrive*` the handler (which may never
run), `Answer*` what the page does with the answer and `Lose*` a fetch that rejects.
Answers come in any order and, as the code captures nothing to recognise them by, are
shown on what is open by then. `redone` and `unsure` remember the two situations in
which the page cannot know: a preview that was left while its submission was under way,
and a lost answer to a mode change. A page is opened again only when nothing of it is
under way: what arrives at an unmounted component is discarded. (A camera session that
starts after its reader is gone still hands what it saw to the flow, as the code does; in
the model also to a flow that was mounted again in between, which the code discards.)
`Stored` ranges over the
shapes of `users.attendanceSettings` that `normalizeAttendanceSettings` tells apart, and
over no others.

### NoticePipeline

| variable | stands for |
|---|---|
| `published`, `doubled` | items the portal shows; notices it shows twice |
| `saved` | `notifications` and `assignments` by externalId |
| `run` | per context: the scrape job (login, diff, save, queue; notices, then assignments) |
| `notify` | notify jobs: items, channels, item in hand, pushes not yet answered |
| `subs`, `gone` | `push_subscriptions`; endpoints that answer 410 or 404 |
| `settings` | channels the user allows, and whether it is quiet |
| `queued`, `lost`, `delivered`, `repeats` | history for the properties |

`Login`, `Diff`, `Save`, `Enqueue` are the awaits of `processScrapeJob` that touch shared
state; `Begin`, `Take`, `Answer`, `Finish` those of the notify job. `FetchFails`, `Lose` and
`Stall` are faults. Page and query are one step (`Diff`): what is published between them
might as well be published later. The two tables differ: `createMany` of notices is all
or nothing, that of assignments skips duplicates and still returns all as new, so an
assignment may be announced by two overlapping runs. Quiet hours drop a job, they do
not defer it. `Mortal` restricts which endpoints may be gone, `Doublable` which notices
may be doubled; `Subscribe` needs no bound, as it only undoes an `Unsubscribe`. The CIT
notifications sync runs the same steps with externalIds of its own, so it is another
target and does not compete for a row.

### TimetableSync

`rows` is `timetables` by slot (weekday and period, a unique index), each row with its
identity, name, `source`, syllabus link, and whether an attendance log refers to it;
`run` is the synchronisation of each caller (page fetched, entries parsed, rows read,
slots to write), `linker` the syllabus sync with the identities it read, `portal` the page;
`had` remembers the names the row of a slot has had.
`Fetch` and `Read` are the awaits before the first write, `Update`, `Create` and `Prune`
the writes, in the order of the code (rows without an entry last) but in any order among
the slots; a write that finds its row gone, its slot taken or its row logged throws and
ends the run. `Link` is one `updateMany`. `Put`, `Delete` and `LogAttendance` come from the
user and the attendance worker, `PortalChanges` and `Crash` from outside. `FetchSyllabi`
finds any set of known syllabi, the empty one included; at present, by the finding below,
the scraper finds none, so nothing is claimed of links that must come about, only of those
that are made. A page is parsed wholly or not at all: one that was rendered in part would
lose its other classes, and nothing in the code could tell.
Numbers of rows that nobody remembers are reused; no query can tell.

### PortalSso

`world` is what does not change in a run (flags, whether the secrets are right), `sync`
the state of each synchronisation: the request under way, the page in hand, its
redirects, the code it generated, the courses left, found and missed, the age of its
ViewState. One action per answer: `Initial`, `Shibboleth`, `Password`, `Select`, `Otp`,
`Saml`, `Autologin`, `Menu`, `Direct`, `Board`, `Open`, `Search`, `Detail`; `Redirect`,
`TooManyRedirects`, `Unexpected`, `SoftFault` and `Fault` for the rest. Any request of any
stage may be redirected up to `MaxHops` times, and any number of requests may fail;
`faults` only counts them, up to a bound. `spent` and `refused` remember who had what
accepted and refused, as pairs of a synchronisation and a code, or 0 for the password.

The identity provider and the portal are external: a code is accepted in its window or
the next one, once, and the portal remembers the last `Keep` views. A miss carries the
ViewState of the answer over if it brought one, a hit that of the detail, or else of the
search, or else the one before. `HeaderSafe` says whether the page of a search form can
be the value of a header, page by page; the pages of the portal cannot (`{FALSE}`), and
`{TRUE, FALSE}` makes what is claimed independent of it. `NextWindow` assumes that
posting a code takes less than the thirty seconds of a window. The early return of
`login` for a first page that is already a timetable is left out: with a fresh cookie jar
no first page is.

## 3. What TLC checks

| run | question | instance | result |
|---|---|---|---|
| `submit_once` | one submission per key, audited, truthful and final success rows, refinement of the ledger | one row, both modes, with and without dry run, one mishap | holds |
| `block_once` | nothing more is sent once a row of the block has a success | two rows, auto, three ticks, one mishap, `PromptRuns` | holds |
| `runs_settle` | every job settles; every claimed row gets a result | one row, confirm, two ticks, lost locks, one mishap, fairness | holds |
| `rotate` | a family is a chain, no false accusation, no revival, refinement of the rotation | both stores, three tokens, two browsers, two requests, one mishap | holds |
| `limiter` | the limit in a window and over any window length; windows end; refinement | both limiters, limit 3, window 3, three requests, two mishaps, fairness | holds |
| `scheduler` | every due row queued, none twice, one scan enough for a block | two processes, a block of three periods and a row of another student, six moments, one change or mishap | holds |
| `pages` | cameras stop, a preview is sent once, pages show what is stored, "sending" ends | a block of two rows, three moments, two time zones, two previews, two requests, two cameras, fairness | holds |
| `notices` | announced once, nothing forgotten, living devices keep their subscription and are served | two runs, two notices, one assignment, one job, two devices, one move, fairness | holds |
| `timetable` | manual rows survive, only vanished classes go, links are earned, the timetable settles | two syncs, two slots, three courses, two moves, fairness | holds |
| `sso` | refused only for a rival, nothing posted again, every course answered, syncs end | three syncs, three windows, two courses, any faults, redirects and circles, fairness | holds |
| `confirm_window` | the page offers a class in the window of the guard | the instance of `pages` on a device in Japan | violated |
| `syllabus_unreachable` | a course with a syllabus gets it when no request fails | the instance of `sso`, pages as they are (`HeaderSafe` is `{FALSE}`) | violated |

The instances of `AttendanceJob` have two slots and the consecutive rows `r1`
(admitted at tick 0) and `r2` (at tick 1) of one class, or `r1` alone.

The type invariants of `AttendanceJob`, `RefreshToken` and `RateLimiter` are proved and so
not repeated in a run; those of `NoticePipeline`, `TimetableSync` and `PortalSso` (`TypeOK`)
state the shape of the records and hold in the instances, and their proof modules prove
the part the theorems need (`Typed`).

The two violations are disagreements between the code and its comments; `findings` in
`PROJECT.json` quotes both sides.

* *Window of the page.* `attendance-target.ts` has a table of periods of its own (9:30,
  11:10, ...) and reads the device's clock; the guards have another (9:00, 10:00, ...)
  and read Japanese time. On a device in Japan the page offers period 1 at 9:25, and the
  server's window for it was 8:53 to 8:57. No offered row can be accepted there.
* *Syllabus search.* `searchSyllabusDetail` passes the HTML of the form as the referer
  of `postAjax`. It has line breaks and Japanese letters, so `new Headers` throws, the
  error is caught, and every course is recorded without a syllabus.

### Boundary configurations

Eight more configurations are kept beside the runs. Each checks a claim that is
stronger than what the code keeps, is violated, and marks how far a property above or
a theorem below reaches.

| configuration | module | stronger claim |
|---|---|---|
| `lock_loss_double` | `MCAttendanceJob` | `AtMostOneSubmission` with lost locks |
| `mode_switch_double` | `MCAttendanceJob` | `RowSubmittedOnce`: one submission per row over both methods |
| `resubmission_dropped` | `MCAttendanceJob` | `AcceptedSubmitRuns`: an accepted request has a job that will run |
| `retry_unanswered` | `MCAttendanceJob` | `FinishedRunHasOutcome`: a run that returns has an outcome |
| `late_save` | `MCRefreshToken` | `RevokedFamilyIsGone`: no token of a revoked family is left |
| `expired_reuse` | `MCRefreshToken` | `ExpiredIsHarmless`: an expired token never has its family revoked |
| `limiter_stuck` | `MCRateLimiter` | `CounterExpires`: a counter has an expiry once no check is under way |
| `hand_edit_lost` | `MCTimetableSync` | `HandEditKept`: no sync overwrites what the user entered |

* *Lost lock.* Run 1 creates the pending row; its lock expires; run 2 of the same job
  finds the row, finds no audit, reclaims it; both write their audit and attend.
* *Mode switch.* A confirm run has passed its guard; the student switches to auto;
  the auto run of the same row has another key and passes its guard too.
* *Dropped resubmission.* A run is skipped and completes; its job id stays taken.
* *Unanswered retry.* attend throws, the job is removed, the student submits again,
  the claim finds the audit and returns without a notice.
* *Late save.* A browser signs out in one tab while another tab refreshes. The refresh
  has read its row; the sign-out deletes the family; the refresh saves a successor in
  it. The loser of two parallel refreshes, which revokes the family, does the same.
* *Expired reuse.* The answer of a refresh is lost; the browser presents the redeemed
  token after it has expired; the Prisma store looks at `used` first and reports a
  reuse. The in-memory store looks at the expiry first.
* *Stuck counter.* INCR created the counter and EXPIRE never arrived: a key that
  reaches the limit stays denied until someone resets it.
* *Lost edit.* PUT leaves the source of a scraped row as it is, so the next
  synchronisation takes the edited row for its own.

### Read, not run

Observations made while modelling that no run states, each visible in a definition:

* The scheduler looks a session up by the room as the timetable spells it
  (`HasSession`), the guards match rooms (`RoomMatches`): a row spelled "731" is never
  queued in auto mode although "7301" was scanned. `submitDisabled` of the page
  compares letter by letter too.
* The scheduler does not look at the class of a session. A session of another class in
  the same room gets a job queued that the worker rejects, with a push of a failure.
* A row of a block that is already attended is skipped, and `notifyUser` pushes the skip
  as a failure.
* A manual success counts as the success of its block, though nothing was submitted.
* A crash between audit and result leaves a pending row for good.
* A late answer is shown on whatever preview is open (`Shown`).
* An item announced in quiet hours is never pushed; a page that shows one notice twice
  blocks the saving of its whole batch (`Clashes`).
* A sign-out whose session has already expired revokes nothing.
* `isActiveHour` gates the scrape jobs by the hour of the host (7 to 22), and no file of
  the repository sets a time zone for the worker; everything about attendance is
  computed in Japanese time.

### Bounds

* `AttendanceJob`: `MaxMishaps` limits crashes, lost locks and failed calls together:
  one is enough for every scenario of the claim's comment (crash after the POST, failed
  audit, failed save). Two slots are enough for any pair of runs to overlap; the
  theorems cover more. `MaxClock` is 0 in `submit_once`, where the question is about
  runs inside a window; `runs_settle` lets the window close under a run, and `block_once`
  has a tick in each window and one after both. `Modes` restricts the mode switches
  where the question does not need them.
* `RefreshToken`: two requests suffice for a winner and a loser, three tokens for a
  family with a predecessor, a head and a late successor, or for two families.
* `RateLimiter`: three requests can all be between INCR and EXPIRE, and a limit and
  window of three keep the ends of a window apart from its middle; two mishaps allow a
  reset and a failure in one behaviour.
* `AttendanceScheduler`: the moments are the reminder (8:50), the first minute of the
  window and the tick of the first row (8:53, 8:55), the ticks of the others (9:55,
  10:55) and 11:30. A block of three is the longest whose last tick the 150 minutes of a
  session reach from the earliest scan (8:53 to 11:23 against 10:55), and the mutant with
  two hours fails by two minutes. `MaxEvents` allows one change or mishap, so each kind
  happens alone and at every point.
* `AttendancePages`: two previews and two requests are needed for an answer that
  arrives at the wrong preview and for requests that overtake each other; two cameras
  for one that starts after its reader is gone. Zone 570 is half an hour ahead of Japan: it
  is the one offset at which an offered row falls into the guard's window, and without
  it no submission would ever be accepted.
* `NoticePipeline`: two runs race for a batch of two notices, so that one item may be
  known and the other new; one move at every point.
* `TimetableSync`: two slots are needed for a run that throws halfway; three numbers
  per slot for the row that is there, the one a run remembers and the one the linker
  does. Two moves are a delete and a put between snapshot and write.
* `PortalSso`: three windows let a code be generated in each and posted in the next.
  With `MaxHops` 2 a redirect is followed and the next one is too many: a circle; the code
  follows twelve. `Keep` 2 lets a ViewState be fresh, old and forgotten, and of two
  courses one is offered. `MaxFaults` is 0 in `sso`, where nothing depends on the count
  (requests fail all the same), and 1 in `syllabus_unreachable`, which asks for a run
  without failures.

Symmetry is used over slots, tokens, browsers, requests and processes, in safety runs
only. Deadlock is checked except where the system may really stop: in `timetable` when
nothing is left to fetch and the moves are used up, in `sso` and `syllabus_unreachable`
when all synchronisations have ended, in `scheduler`, `pages` and `confirm_window` when
the last moment is reached and the bounds are used up; `hand_edit_lost` as `timetable`.

**PromptRuns.** In `block_once` a run ends within the tick it started in. The windows
of two periods are at least 56 minutes apart (`WindowsApart`) and every call of the
adapter times out within a minute, so a run that reaches the next window was stopped by
something else, which a crash models.

### Fairness

* `runs_settle`: a slot that can step does: every await returns, throws or times out.
  The stalled check keeps running. A waiting job is taken again and again if slots keep
  becoming free (strong fairness): BullMQ serves its list in order. Nothing is assumed
  of students, ticks or faults, and the outcome of `attend` is free. `PendingResolves`
  claims nothing once a mishap has happened: a crash between claim and result leaves the
  row pending, which the comment of the claim accepts.
* `limiter`: time passes, and an EXPIRE that was sent arrives or fails.
* `pages`: a fetch resolves or rejects in the end. Nothing is assumed of the student.
* `notices`: rounds are repeated by the scheduler, and the steps of runs and notify jobs
  are taken: a push settles, with an answer or an error.
* `timetable`: each caller is run again and again and its steps are taken. The syllabus
  sync, the user, the portal, logs and crashes are not fair, and the last four are
  bounded. `VanishedRemoved` excepts an empty page, which is never synchronised, and a
  vanished row with a log, whose delete throws every time.
* `sso`: while any request is under way, one is answered somehow, redirected included, or
  `fetch` gives up. It is what the portal answers that is free.

Every property of a passing run has a mutant in `PROJECT.json`: a plausible bug in
one mapped definition that TLC then finds. The mutated forms stand before the
definitions they replace and are marked *Mutation*.

## 4. What is proved

`AttendanceJobProofs` proves, for every set of rows and slots, every block structure
and every bound:

| theorem | statement | assumes |
|---|---|---|
| `TypeCorrect` | `Spec => []TypeOK` | |
| `AuditedSubmissions` | `Spec => []SubmissionIsAudited` | |
| `EarnedSuccesses` | `Spec => []SuccessIsEarned` | |
| `FinalSuccesses` | `Spec => SuccessIsFinal` | |
| `SilentDryRuns` | `Spec => []DryRunSendsNothing` | |
| `SingleSubmission` | `Spec => []AtMostOneSubmission` | `~LockLoss` |
| `ImplementsLedger` | `Spec => Ledger!LedgerSpec` | `~LockLoss` |
| `ClosedBlocks` | `Spec => NoSubmissionAfterSuccess` | `OneRunPerWindow` |

They rest on `BlockAssumption`, `TimeAssumption` and `ConfigAssumption`. TLC evaluates
all assumptions in every run.

The argument has two invariants. `IInv` needs nothing of the queue. It says that the
audit of a key exists once a slot is at the adapter (`AuditFirst`) and that an
outcome `"success"` is known only after the attendance system showed one
(`OutcomeEarned`); neither `SubmissionIsAudited` nor `SuccessIsEarned` is inductive
without these facts about the slots that are still running. `SuccessIsFinal` follows
from the guards of the five steps that write a log row. `SilentDryRuns` needs to know
where an auto run of a dry run can be (`SkippedRuns`): never between claim and POST, and
never with an outcome other than skipped.

`EInv` adds what holds while a job is in one slot at a time (`OneRunPerKey`).
`AtMostOneSubmission` alone is not inductive: a second run must be stopped before it
posts. `FreshClaim` carries this from the claim to the POST (a slot between claim and
audit has a key without an audit, a slot at the adapter has a key without a POST),
and `ClaimedRow` says that an audited key always has a row, so that the create of a
later claim must fail. The invariants are preserved action by action; the steps of
web, scheduler and queue are dispatched together by `QuietSteps`. `EInv` also gives
every step of the refinement: `PreAttempt` is `Open`, a registering `PostForm` is
`Send`, every change of a row is `Record`, all else stutters. `lock_loss_double`
shows that the assumption `~LockLoss` cannot be dropped.

`ClosedBlocks` is about a stale read: the guard looks for a success in the block, and the
form is posted several awaits later. `BlockStillOpen` says that what it saw is still
true from the claim to the POST. Only another run with a success to save could falsify
it, and `RunsInWindow` rules that run out: each is in the window and the mode it was
admitted in, so two of one block have one row, one method, one job and, by
`OneRunPerKey`, one slot. `OneRunPerWindow` collects what this takes: `~LockLoss`,
`PromptRuns`, one mode (`mode_switch_double` shows why) and windows of a block that do
not overlap. The last, and `BlockAssumption`, are proved of the rules themselves, as
`WindowsApart` and `BlocksPartition` below.

`RefreshTokenProofs` proves, for every set of tokens, users, browsers and requests, and
for both stores:

| theorem | statement |
|---|---|
| `TokensTyped` | `Spec => []TypeOK` |
| `SingleHead` | `Spec => []OneLivePerFamily` |
| `NeverAccused` | `Spec => []NoFalseAlarm` |
| `EveryLossExplained` | `Spec => []LossHasReason` |
| `NoRevival` | `Spec => ExtinctStaysExtinct` |
| `ImplementsRotation` | `Spec => RotationImplemented` |

from `TokenAssumption` alone. `OneLivePerFamily` is not inductive: a request that has
redeemed the live token will save another. `ChainInv` counts such a request as the
head of its family (`OneHead`), and says that only redeemed tokens have successors and
that a winner's token has none yet (`Lineage`); the refinement follows from the same
facts. `NoFalseAlarm` is about browsers: `HonestInv` says that a token never leaves
the browser it was issued to (`Home`), that a browser which is not suspect has one
request at a time (`Alone`), and that such a browser holds a used token only while the
answer that replaces it is under way (`Fresh`).

`RateLimiterProofs` proves, for every limit, window and set of requests, and for both
limiters, from `LimitAssumption`:

| theorem | statement |
|---|---|
| `LimiterTyped` | `Spec => []TypeOK` |
| `ImplementsFixedWindow` | `Spec => FixedWindowImplemented` |
| `StretchBounded` | `Spec => []AtMostTwiceTheLimit` |

`Counted` says that the requests allowed in the life of a counter are its value, cut
off at the limit. A stretch of one window may straddle two counters. `Overlap` says how
much it holds: a counter with `ttl` ticks left is `Window - ttl` old, so requests of that
many ticks are its own, and those of a longer stretch are its own and one limit more.
`OneExpiry` (an EXPIRE is under way only while the counter has no lifetime) makes the
age right; it fails once an EXPIRE is lost, which is why the property speaks of
`mishaps = 0`.

`AttendanceSchedulerProofs` proves, for every timetable, any students and processes and any
sequence of moments, from `SchedulerAssumption`:

| theorem | statement | assumes |
|---|---|---|
| `JobsQueuedOnce` | `Spec => []QueuedOnce` | |
| `OneScanServes` | `Spec => []OneScanSuffices` | `ShortBlocks` |
| `RowsQueued` | `Spec => []EveryRowQueued` | `ShortBlocks` |
| `BlocksPartition` | blocks of a timetable are equal or disjoint | |
| `WindowsApart` | windows of two periods are 56 minutes apart | |

`QueuedOnce` is not inductive: a job that was added and is no longer known would be
added again. `JobsKnown` says that this happens to failed jobs only. `ShortBlocks` (at most
three periods) is the case for which the comment of `QR_SESSION_TTL_MS`
(`qr-validate/route.ts:27-31`) claims that one scan is enough. `SessionsScanned` (a session
was scanned in the window of its row and ends 150 minutes later) and `TickInTime` (the
tick of the third row comes 122 minutes after the earliest scan) prove it. `RowsQueued`
follows a wanted row through a tick: until it is queued, every process has it `Ahead`, in a
timer still to fire, a `findMany` still to come or a loop that has not reached it. The
session must not expire under the loop, so it rests on the same two facts; `CoveredBack`
says that no change makes a row of a minute that has begun one that had to be queued.

`AttendancePagesProofs` proves, for every timetable, all QR texts, zones, moments and any
number of previews, requests and cameras, from `PagesAssumption`:

| theorem | statement | assumes |
|---|---|---|
| `SingleCamera` | `Spec => []OneCamera` | |
| `SingleRequests` | `Spec => []OneRequestPerPreview` | |
| `AcceptedSubmissions` | `Spec => []AcceptedIsQueued` | |
| `ShownModes` | `Spec => []ShownModeIsStored` | |
| `MarkedRows` | `Spec => []MarkedIsRecorded` | `WithinAWeek` |

None of the last four is inductive, because the page sees the server only through
requests under way. `UnsentPreview` says that a preview whose button works was not sent.
`PostsKnown` says that an accepted request has a job, and that, while no preview was left
during its submission, the one request under way is of the preview on show. `PutsKnown`
says that a form that is saving has one change under way, and that a change the server
has made is the stored mode. `MarksKnown` says that what is under way marks rows of the
day on show, and that what was made is recorded for the whole block. The list compares
days by weekday, so `MarkedRows` leaves out a page that stays open for a week
(`WithinAWeek`).

`TimetableSyncProofs` proves, for every set of slots, courses and callers and every bound,
from `TimetableAssumption` and `RowAssumption` (no row is the value for "no row"):

| theorem | statement |
|---|---|
| `ManualRowsSurvive` | `Spec => ManualRowKept` |
| `OnlyVanishedGo` | `Spec => OnlyVanishedRemoved` |
| `LinksAreEarned` | `Spec => []LinkIsEarned` |

A run decides on a snapshot and writes later. `SeenIsScraped` carries the decision to
the write: the row a run has in mind is still a scraped row, if it is there at all,
because identities in use are not given out again and nobody turns a scraped row into a
manual one. `Faithful` says that a run has the entries of the page it fetched and
deletes nothing it has not read. The syllabus sync writes by identity too: `SnapshotKnown`
says that the row behind an identity it remembers, if it is still there, has had the name
it was remembered under, again because identities in use are not given out.

`NoticePipelineProofs` proves, for every set of items, runs, jobs and devices and every
bound, from `NoticeAssumption`:

| theorem | statement |
|---|---|
| `NoticesQueuedOnce` | `Spec => []NoticeQueuedOnce` |
| `SavedItemsQueued` | `Spec => []SavedIsQueued` |
| `LiveSubscriptionsKept` | `Spec => LiveSubscriptionKept` |
| `Deliveries` | `Spec => []DeliveredAsQueued` |
| `DevicesServed` | `Spec => AllDevicesServed` |

The key is `OneAnnouncer`: a notice that a run is about to announce is in the table and
was not announced yet, and no second run is about to announce it. The unique index and
the all-or-nothing batch give it in `Save`; for assignments, which skip duplicates, it
does not hold.

The delivery side counts. `Owing` are the jobs that may still push an item to a device;
`Balanced` says that pushes made and pushes owed together never exceed the times the item
was queued and a job was started anew. A step moves one job between the two sides, so
the proof is about the cardinality of a set that gains or loses one element. `NobodyMissed`
says that whatever a job has already dealt with has reached every device that is not
gone, and that pushes under way are the only exception.

`PortalSsoProofs` proves, for every set of courses, any number of redirects, windows and
faults, and pages that are header values or not, from `PortalAssumption`:

| theorem | statement |
|---|---|
| `RefusalsHaveRivals` | `Spec => []RefusedByRivalOnly` |
| `SecretsSentOnce` | `Spec => []NoSecretRepeated` |
| `CoursesAnswered` | `Spec => []EveryCourseAnswered` |

`CodesFresh` (a code in hand is of this window or the last) and `Unsent` (a synchronisation
that is still entering has had nothing accepted or refused) give the first two: a code
that is not accepted is spent, and not by the one that posts it. `Unsent` holds because no
step leads back to the stages that post secrets. `Accounted` says that no course is ever
dropped between left, found and missed.

Every invariant and every action property of the passing runs is stated by a theorem.
Model-checked only are the liveness properties (`JobsSettle`, `PendingResolves`,
`WindowEnds`, `PublishedIsSaved`, `SubmittingIsAnswered`, `PortalFollowed`,
`VanishedRemoved`, `SyncsEnd`), which need fairness and ENABLED and are
outside the prover's reach, and what the boundary configurations and the two violations
show, which are counterexamples.

The hypotheses of the theorems are not only met in principle: TLC evaluates every
assumption on the constants in each run, and `OneRunPerWindow`, `ShortBlocks` and
`WithinAWeek` on the instances of the properties that need them (in the `MC` modules).

## 5. Not modelled

* *Parsers:* stateless extraction from HTML. The case that matters, a page that parses to
  nothing, is an input of `TimetableSync`.
* *Service worker:* its caches hold public assets only, by an allowlist, and are deleted
  on activation and sign-out; no state of the system depends on them.
* *Registration and login:* one guarded create whose unique violation is the answer; the
  sign-in is `SignIn` of `RefreshToken`.
* *Logs and statistics APIs:* they only read. *Pages and presentation:* rendering of
  data without shared state; the attendance pages are the exception.
* *Ciphers, headers, request guards:* library code, or stateless.
* *Read flag of a notification:* one write that nothing else reads.
* *Attendance adapter:* every outcome with the point at which the POST is registered is
  in `AttendanceJob`; cookies and the extraction of the CSRF token are data.

What could be added: the hypotheses of `ClosedBlocks` other than windows and blocks come
from outside the modules (BullMQ's locks, timeouts of the adapter, a student who keeps to
one mode); a model with real durations could derive `PromptRuns` from the timeouts.
