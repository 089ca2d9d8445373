---------------------------- MODULE AttendancePages ----------------------------
(***************************************************************************)
(* The attendance screens of one student's browser and the API handlers    *)
(* they call.  The page "attendance" holds the mode form and, in confirm   *)
(* mode, the confirm flow: a QR reader that starts and stops the camera, a *)
(* preview of the class the page believes is meant, and the request that   *)
(* submits it.  The page "status" holds the list with which a class is     *)
(* marked by hand.  One page is open at a time.                            *)
(*                                                                         *)
(* A request is under way from its fetch until the answer reaches the page *)
(* or is lost; the handler runs somewhere in between, or never.            *)
(***************************************************************************)
EXTENDS AttendanceRules, FiniteSets

CONSTANTS
  Timetable,    \* the student's timetable, a function from rows
  Texts,        \* bound: what QR codes and typed URLs may say
  Times,        \* bound: the moments visited, a sequence of times
  Zones,        \* time zones the device may be set to
  Stored,       \* bound: attendanceSettings as they may be found
  CodeConfigured, \* is ATTENDANCE_AUTO_DEV_CODE set?
  HasCreds,     \* are credentials of the portal registered?
  Camera,       \* bound: identities of camera sessions that exist at once
  MaxPreviews,  \* bound: previews in a behaviour
  MaxRequests,  \* bound: requests in a behaviour
  None          \* no row, no camera session

Row == DOMAIN Timetable
Block(r) == BlockRowIds(Timetable, r)

ASSUME PagesAssumption ==
  /\ Times \in Seq(Nat) /\ Times # <<>>
  /\ CodeConfigured \in BOOLEAN /\ HasCreds \in BOOLEAN
  /\ MaxPreviews \in Nat /\ MaxRequests \in Nat
  /\ None \notin Row \cup Camera
  /\ Zones \subseteq Int
  /\ Stored \subseteq [shape : {"settings", "null", "old", "broken"},
                     mode : Modes, unlocked : BOOLEAN]
  /\ \A r \in Row : Timetable[r].period \in Nat

VARIABLES
  zone,      \* the time zone of the device
  now,       \* index of the current moment in Times
  settings,  \* users.attendanceSettings, a raw JSON value
  queued,    \* <<row, day>> for which the API accepted a confirm job
  recorded,  \* <<row, day>> with a success row in attendance_logs
  page,      \* the page that is open
  step,      \* FlowStep.kind of the confirm flow; "absent" without the flow
  preview,   \* target, roomId and submit of the preview
  reader,    \* the mounted QR reader: its camera session, and its error
  starting,  \* camera sessions that are starting
  live,      \* camera sessions that are running
  posts,     \* submissions under way
  form,      \* mode, unlocked, code field and saving of the mode form
  puts,      \* mode changes under way
  list,      \* marked rows, and the busy row, of the manual list
  marks,     \* manual records under way
  previews,  \* number of previews so far
  sends,     \* number of submissions so far
  redone,    \* a preview was left while its submission was under way
  unsure,    \* a mode change may have been made without the page knowing
  requests   \* number of requests so far

cameraVars == <<reader, starting, live>>
flowVars == <<step, preview, cameraVars, posts, previews, sends, redone>>
formVars == <<form, puts, unsure>>
listVars == <<list, marks>>
serverVars == <<settings, queued, recorded>>
worldVars == <<zone, now, page>>
vars == <<worldVars, serverVars, flowVars, formVars, listVars, requests>>

Time == Times[now]
Today == Parts(Time).day
StoredMode == NormalizeSettings(settings)

\* getTodayAttendedIds: whole blocks, if one row of them has a success.
AttendedIds(day) == UNION {Block(r) : r \in {q \in Row : <<q, day>> \in recorded}}

NoPreview == [target |-> {}, room |-> None, submit |-> "idle"]
NoReader == [session |-> None, failed |-> FALSE]
FormOf(s) == [mode |-> s.mode, unlocked |-> s.unlocked, open |-> FALSE,
              saving |-> FALSE]

Init ==
  /\ zone \in Zones
  /\ now = 1
  /\ settings \in Stored
  /\ queued = {} /\ recorded = {}
  /\ page = "status"
  /\ step = "absent" /\ preview = NoPreview
  /\ reader = NoReader /\ starting = {} /\ live = {}
  /\ posts = {} /\ puts = {} /\ marks = {}
  /\ form = FormOf(NormalizeSettings(settings))
  /\ list = [marked |-> {}, day |-> Parts(Times[1]).day, busy |-> None]
  /\ previews = 0 /\ sends = 0 /\ requests = 0
  /\ redone = FALSE /\ unsure = FALSE

-------------------------------------------------------------------------------
(* The QR reader.                                                          *)

\* The effect of a mounted reader starts a camera session; which one makes no difference.
StartReader ==
  LET free == Camera \ (starting \cup live)
      c == CHOOSE x \in free : TRUE
  IN /\ free # {}
     /\ reader' = [session |-> c, failed |-> FALSE]
     /\ starting' = starting \cup {c}
     /\ live' = live \ {reader.session}

\* The cleanup of the effect: cancelled, and the controls stopped if there are.
StopReader ==
  /\ reader' = NoReader
  /\ live' = live \ {reader.session}

\* handleQrResult: whatever was on show is replaced.
HandleQr(text) ==
  LET parsed == ParseQr(text) IN
  /\ IF parsed.ok
     THEN /\ previews < MaxPreviews
          /\ step' = "previewing"
          /\ preview' = [target |-> ResolveTarget(Timetable, Time, zone),
                         room |-> parsed.room, submit |-> "idle"]
          /\ previews' = previews + 1
     ELSE /\ step' = "invalid"
          /\ preview' = NoPreview
          /\ UNCHANGED previews
  /\ redone' = (redone \/ preview.submit = "submitting")

\* Mutation: nothing remembers that the session was cancelled.
CameraStartsUncancelled(c) ==
  /\ c \in starting
  /\ starting' = starting \ {c}
  /\ \/ /\ live' = live \cup {c}
        /\ UNCHANGED <<reader, step, preview, previews, redone>>
     \/ \E text \in Texts : HandleQr(text) /\ StopReader
  /\ UNCHANGED <<posts, sends, worldVars, serverVars, formVars, listVars>>

\* decodeFromVideoDevice succeeds; it looks at a first frame before it returns the
\* controls.  A session that was cancelled meanwhile is stopped, but what it saw is
\* still handed to the confirm flow, if that is mounted.
CameraStarts(c) ==
  /\ c \in starting
  /\ starting' = starting \ {c}
  /\ \/ /\ reader' = reader
        /\ live' = IF c = reader.session THEN live \cup {c} ELSE live
        /\ UNCHANGED <<step, preview, previews, redone>>
     \/ /\ step # "absent"
        /\ \E text \in Texts : HandleQr(text) /\ StopReader
  /\ UNCHANGED <<posts, sends, worldVars, serverVars, formVars, listVars>>

\* No permission, no camera, no API: an error, unless cancelled meanwhile.
CameraFails(c) ==
  /\ c \in starting
  /\ starting' = starting \ {c}
  /\ reader' = IF c = reader.session THEN [reader EXCEPT !.failed = TRUE] ELSE reader
  /\ UNCHANGED <<step, preview, live, posts, previews, sends, redone, worldVars,
                 serverVars, formVars, listVars>>

\* The running camera sees a code, or a URL is typed.
ReadQr(text) ==
  /\ step = "scanning"
  /\ HandleQr(text)
  /\ StopReader
  /\ UNCHANGED <<starting, posts, sends, worldVars, serverVars, formVars, listVars>>

Retry ==
  /\ reader.failed
  /\ StartReader
  /\ UNCHANGED <<step, preview, posts, previews, sends, redone, worldVars,
                 serverVars, formVars, listVars>>

-------------------------------------------------------------------------------
(* The confirm flow.                                                       *)

StartScan ==
  /\ step \in {"idle", "invalid"}
  /\ step' = "scanning"
  /\ StartReader
  /\ UNCHANGED <<preview, posts, previews, sends, redone, worldVars, serverVars,
                 formVars, listVars>>

CancelScan ==
  /\ step = "scanning"
  /\ step' = "idle"
  /\ StopReader
  /\ UNCHANGED <<preview, starting, posts, previews, sends, redone, worldVars,
                 serverVars, formVars, listVars>>

Redo ==
  /\ step = "previewing"
  /\ step' = "idle"
  /\ preview' = NoPreview
  /\ redone' = (redone \/ preview.submit = "submitting")
  /\ UNCHANGED <<cameraVars, posts, previews, sends, worldVars, serverVars,
                 formVars, listVars>>

\* submitDisabled, negated; the room is compared letter by letter.
Submittable(states) ==
  /\ step = "previewing"
  /\ Cardinality(preview.target) = 1
  /\ \A r \in preview.target : Timetable[r].room = preview.room
  /\ preview.submit \in states

\* handleSubmit, up to the fetch; the date is the one the device shows.
SendFrom(states) ==
  /\ Submittable(states)
  /\ preview' = [preview EXCEPT !.submit = "submitting"]
  /\ sends' = sends + 1
  /\ \E r \in preview.target :
       posts' = posts \cup {[id |-> sends + 1, row |-> r, room |-> preview.room,
                             day |-> HostParts(Time, zone).day, stage |-> "sent"]}
  /\ UNCHANGED <<step, cameraVars, previews, redone, worldVars, serverVars,
                 formVars, listVars>>
\* Mutation: a failed submission can be sent again from the same preview.
SendAgain == SendFrom({"idle", "failed"})

Send == SendFrom({"idle"})

\* POST /api/attendance/submit arrives: rate limit, guard, mode, queue.
ArriveSubmit(p) ==
  LET verdict == ConfirmGuard(Timetable[p.row], p.room, p.day, Time,
                   \E q \in Block(p.row) : <<q, p.day>> \in recorded, HasCreds)
      Becomes(stage) == posts' = (posts \ {p}) \cup {[p EXCEPT !.stage = stage]}
  IN
  /\ p \in posts /\ p.stage = "sent"
  /\ \/ /\ verdict = "allowed" /\ StoredMode.mode = "confirm"
        /\ queued' = queued \cup {<<p.row, p.day>>}
        /\ Becomes("accepted")
     \/ Becomes("refused") /\ UNCHANGED queued
  /\ UNCHANGED <<settings, recorded, step, preview, cameraVars, previews, sends,
                 redone, worldVars, formVars, listVars>>

\* The page learns how the request p ended; it shows that on whatever preview
\* is on show now.
Shown(p, submit) ==
  /\ posts' = posts \ {p}
  /\ preview' = IF step = "previewing" THEN [preview EXCEPT !.submit = submit]
                ELSE preview
  /\ UNCHANGED <<step, cameraVars, previews, sends, redone, worldVars, serverVars,
                 formVars, listVars>>

\* Mutation: resp.ok is not looked at.
AnswerSubmitAlwaysOk(p) ==
  /\ p \in posts
  /\ p.stage # "sent"
  /\ Shown(p, "accepted")

AnswerSubmit(p) ==
  /\ p \in posts
  /\ \/ p.stage = "accepted" /\ Shown(p, "accepted")
     \/ p.stage = "refused" /\ Shown(p, "failed")

\* Mutation: handleSubmit without its catch.
LoseSubmitSilently(p) ==
  /\ p \in posts
  /\ posts' = posts \ {p}
  /\ UNCHANGED <<step, preview, cameraVars, previews, sends, redone, worldVars,
                 serverVars, formVars, listVars>>

\* The fetch rejects, before or after the handler ran.
LoseSubmit(p) == p \in posts /\ Shown(p, "failed")

\* The worker runs an accepted job and records its success.
Record(r, day) ==
  /\ <<r, day>> \in queued
  /\ recorded' = recorded \cup {<<r, day>>}
  /\ UNCHANGED <<settings, queued, worldVars, flowVars, formVars, listVars>>

-------------------------------------------------------------------------------
(* The mode form.                                                          *)

Put(mode, code) ==
  puts' = puts \cup {[mode |-> mode, code |-> code, stage |-> "sent"]}

\* selectMode of "auto": the code field is opened, nothing is saved.
OpenCode ==
  /\ page = "attendance"
  /\ CodeConfigured /\ ~form.saving
  /\ form.mode # "auto" /\ ~form.open
  /\ form' = [form EXCEPT !.open = TRUE]
  /\ UNCHANGED <<puts, unsure, worldVars, serverVars, flowVars, listVars>>

\* selectMode of another mode: it is saved at once.
Choose(mode) ==
  /\ page = "attendance"
  /\ mode # form.mode
  /\ form' = [form EXCEPT !.saving = TRUE]
  /\ Put(mode, "")
  /\ UNCHANGED <<unsure, worldVars, serverVars, flowVars, listVars>>

\* Mutation: the radio buttons stay enabled while a change is being saved.
SelectModeAnytime(mode) == Choose(mode)

SelectMode(mode) == ~form.saving /\ Choose(mode)

SubmitCode(code) ==
  /\ page = "attendance"
  /\ form.open /\ ~form.unlocked /\ ~form.saving
  /\ form' = [form EXCEPT !.saving = TRUE]
  /\ Put("auto", code)
  /\ UNCHANGED <<unsure, worldVars, serverVars, flowVars, listVars>>

CancelCode ==
  /\ form.open /\ ~form.saving
  /\ form' = [form EXCEPT !.open = FALSE]
  /\ UNCHANGED <<puts, unsure, worldVars, serverVars, flowVars, listVars>>

\* PUT /api/attendance/settings arrives; auto needs the developer code.
ArrivePut(p) ==
  /\ p \in puts /\ p.stage = "sent"
  /\ \/ /\ p.mode = "auto" => VerifyDevCode(CodeConfigured, p.code)
        /\ settings' = [shape |-> "settings", mode |-> p.mode,
                        unlocked |-> p.mode = "auto"]
        /\ puts' = (puts \ {p}) \cup {[p EXCEPT !.stage = "ok"]}
     \/ /\ puts' = (puts \ {p}) \cup {[p EXCEPT !.stage = "refused"]}
        /\ UNCHANGED settings
  /\ UNCHANGED <<queued, recorded, form, unsure, worldVars, flowVars, listVars>>

AnswerPut(p) ==
  /\ p \in puts
  /\ puts' = puts \ {p}
  /\ \/ /\ p.stage = "ok"
        /\ form' = [mode |-> p.mode, unlocked |-> p.mode = "auto",
                    open |-> FALSE, saving |-> FALSE]
     \/ /\ p.stage = "refused"
        /\ form' = [form EXCEPT !.saving = FALSE]
  /\ UNCHANGED <<unsure, worldVars, serverVars, flowVars, listVars>>

LosePut(p) ==
  /\ p \in puts
  /\ puts' = puts \ {p}
  /\ form' = [form EXCEPT !.saving = FALSE]
  /\ unsure' = (unsure \/ p.stage = "ok")
  /\ UNCHANGED <<worldVars, serverVars, flowVars, listVars>>

-------------------------------------------------------------------------------
(* The manual list.                                                        *)

\* getTodayClasses: the rows the list shows, those of the day it was loaded on.
ListedRows == {r \in Row : Timetable[r].dayOfWeek = list.day % 7}

\* mark, up to its fetch: only the last row clicked is remembered as busy.
Mark(r) ==
  /\ page = "status"
  /\ r \in ListedRows
  /\ r \notin list.marked /\ r # list.busy
  /\ list' = [list EXCEPT !.busy = r]
  /\ marks' = marks \cup {[row |-> r, stage |-> "sent"]}
  /\ UNCHANGED <<worldVars, serverVars, flowVars, formVars>>

\* POST /api/attendance/manual arrives: today's class only; the rows of the
\* block are recorded one by one, and a failure leaves the rest unrecorded.
ArriveMark(m) ==
  LET Becomes(stage) == marks' = (marks \ {m}) \cup {[m EXCEPT !.stage = stage]}
  IN
  /\ m \in marks /\ m.stage = "sent"
  /\ \/ /\ Timetable[m.row].dayOfWeek = Parts(Time).dayOfWeek
        /\ \E done \in {{q \in Block(m.row) : Timetable[q].period <= last} : last \in 0..10} :
             /\ recorded' = recorded \cup (done \X {Today})
             /\ Becomes(IF done = Block(m.row) THEN "ok" ELSE "refused")
     \/ Becomes("refused") /\ UNCHANGED recorded
  /\ UNCHANGED <<settings, queued, list, worldVars, flowVars, formVars>>

\* Mutation: the row is marked whatever the answer says.
AnswerMarkAnyway(m) ==
  /\ m \in marks /\ m.stage # "sent"
  /\ marks' = marks \ {m}
  /\ list' = [list EXCEPT !.busy = None, !.marked = @ \cup Block(m.row)]
  /\ UNCHANGED <<worldVars, serverVars, flowVars, formVars>>

\* markedIds: the rows of the block, once all of them are recorded.
AnswerMark(m) ==
  /\ m \in marks /\ m.stage # "sent"
  /\ marks' = marks \ {m}
  /\ list' = [list EXCEPT !.busy = None,
                !.marked = IF m.stage = "ok" THEN @ \cup Block(m.row) ELSE @]
  /\ UNCHANGED <<worldVars, serverVars, flowVars, formVars>>

LoseMark(m) ==
  /\ m \in marks
  /\ marks' = marks \ {m}
  /\ list' = [list EXCEPT !.busy = None]
  /\ UNCHANGED <<worldVars, serverVars, flowVars, formVars>>

-------------------------------------------------------------------------------
(* Pages and time.                                                         *)

\* A page is opened, or loaded again, once nothing it sent is under way.
Open(p) ==
  /\ posts = {} /\ puts = {} /\ marks = {}
  /\ page' = p
  /\ step' = IF p = "attendance" /\ StoredMode.mode = "confirm" THEN "idle"
             ELSE "absent"
  /\ preview' = NoPreview
  /\ StopReader
  /\ form' = FormOf(StoredMode)
  /\ list' = [marked |-> IF p = "status" THEN AttendedIds(Today) ELSE {},
              day |-> Today, busy |-> None]
  /\ redone' = FALSE /\ unsure' = FALSE
  /\ UNCHANGED <<zone, now, serverVars, starting, posts, previews, sends, puts,
                 marks>>

Tick ==
  /\ now < Len(Times)
  /\ now' = now + 1
  /\ UNCHANGED <<zone, page, serverVars, flowVars, formVars, listVars>>

Respond ==
  \/ \E p \in posts : ArriveSubmit(p) \/ AnswerSubmit(p) \/ LoseSubmit(p)
  \/ \E p \in puts : ArrivePut(p) \/ AnswerPut(p) \/ LosePut(p)
  \/ \E m \in marks : ArriveMark(m) \/ AnswerMark(m) \/ LoseMark(m)

Request ==
  /\ requests < MaxRequests
  /\ requests' = requests + 1
  /\ \/ Send
     \/ \E m \in Modes \ {"auto"} : SelectMode(m)
     \/ \E code \in {"right", "wrong"} : SubmitCode(code)
     \/ \E r \in Row : Mark(r)

Next ==
  \/ Request
  \/ /\ \/ \E c \in Camera : CameraStarts(c) \/ CameraFails(c)
        \/ \E text \in Texts : ReadQr(text)
        \/ Retry \/ StartScan \/ CancelScan \/ Redo
        \/ Respond
        \/ \E k \in queued : Record(k[1], k[2])
        \/ OpenCode \/ CancelCode
        \/ \E p \in {"attendance", "status"} : Open(p)
        \/ Tick
     /\ UNCHANGED requests

Spec == Init /\ [][Next]_vars

\* A fetch resolves or rejects in the end: the browser gives up at last.
FairSpec ==
  Spec /\ WF_vars(/\ \E p \in posts : ArriveSubmit(p) \/ AnswerSubmit(p) \/ LoseSubmit(p)
                  /\ UNCHANGED requests)

-------------------------------------------------------------------------------
(* Properties.                                                             *)

\* Only the camera session of the mounted reader runs: however scans are
\* started, cancelled and repeated while cameras are slow to start, none is
\* left on (the cancelled flag and the cleanup of the effect).
OneCamera == live \subseteq {reader.session} \ {None}

\* A preview is submitted at most once: late answers, lost answers and repeated
\* scans never make the button of the same preview work again.
OneRequestPerPreview == sends <= previews

\* A preview that says the submission was accepted has its job, unless a
\* preview was left while its submission was under way: then the late answer is
\* shown on the wrong one.
AcceptedIsQueued ==
  (preview.submit = "accepted" /\ ~redone) =>
    \E r \in preview.target : \E k \in queued : k[1] = r

\* "Sending..." ends: with an answer, or with the message of a network error.
SubmittingIsAnswered == []<>(preview.submit # "submitting")

\* The moments visited lie within a week: no two days with the same name.
\* MarkedIsRecorded rests on it, and so on a page not being open for a week.
WithinAWeek ==
  \A i, j \in DOMAIN Times :
    Parts(Times[i]).dayOfWeek = Parts(Times[j]).dayOfWeek
      => Parts(Times[i]).day = Parts(Times[j]).day

\* A row the list shows as attended is recorded: reloading would show it again,
\* also after failures half-way through a block and answers in another order.
MarkedIsRecorded == list.marked \subseteq AttendedIds(list.day)

\* When nothing is being saved, the form shows the mode that the scheduler and
\* the worker will read, unless an answer was lost.
ShownModeIsStored ==
  (puts = {} /\ ~unsure) =>
    /\ form.mode = StoredMode.mode
    /\ form.unlocked = StoredMode.unlocked

\* What the comment of attendance-target.ts says: the page offers a class in the
\* very window in which the guard admits it.  The code does not keep this: the
\* page has a table of periods of its own.
OfferedInWindow ==
  [][previews' # previews =>
       \A r \in preview'.target : InWindow(Timetable[r], Time)]_vars
===============================================================================
