------------------------- MODULE AttendancePagesProofs -------------------------
(***************************************************************************)
(* What the attendance screens promise for any timetable, any QR codes and *)
(* any number of scans, submissions, mode changes and marks, however late  *)
(* the camera and the answers are.                                         *)
(***************************************************************************)
EXTENDS AttendancePages, TLAPS

Rooms == {None} \cup {text.room : text \in Texts}
Submits == {"idle", "submitting", "accepted", "failed"}

PostType == [id : Nat, row : Row, room : Rooms, day : Int,
             stage : {"sent", "accepted", "refused"}]
Shapes == {"settings", "null", "old", "broken"}
SettingsType == [shape : Shapes, mode : Modes, unlocked : BOOLEAN]
FormType == [mode : Modes, unlocked : BOOLEAN, open : BOOLEAN, saving : BOOLEAN]
PutType == [mode : Modes, code : {"", "right", "wrong"}, stage : {"sent", "ok", "refused"}]
MarkType == [row : Row, stage : {"sent", "ok", "refused"}]

WorldTyped ==
  /\ zone \in Zones
  /\ now \in DOMAIN Times
  /\ settings \in SettingsType
  /\ queued \subseteq Row \X Int
  /\ recorded \subseteq Row \X Int

FlowTyped ==
  /\ step \in {"absent", "idle", "scanning", "invalid", "previewing"}
  /\ preview \in [target : SUBSET Row, room : Rooms, submit : Submits]
  /\ reader \in [session : Camera \cup {None}, failed : BOOLEAN]
  /\ starting \subseteq Camera
  /\ live \subseteq Camera
  /\ posts \subseteq PostType
  /\ previews \in Nat
  /\ sends \in Nat
  /\ redone \in BOOLEAN

FormTyped ==
  /\ form \in FormType
  /\ puts \subseteq PutType
  /\ unsure \in BOOLEAN

ListTyped ==
  /\ list \in [marked : SUBSET Row, day : Int, busy : Row \cup {None}]
  /\ marks \subseteq MarkType

Typed == WorldTyped /\ FlowTyped /\ FormTyped /\ ListTyped

\* A preview that can be submitted has not been.
UnsentPreview == step = "previewing" /\ preview.submit = "idle" => sends < previews

\* What the handler accepted has a job; and while no preview was left during its
\* submission, what is under way is the one submission of the preview on show.
PostsKnown ==
  /\ \A p \in posts : p.stage = "accepted" => <<p.row, p.day>> \in queued
  /\ ~redone =>
       \A p \in posts :
         /\ step = "previewing" /\ preview.submit = "submitting"
         /\ p.row \in preview.target
         /\ \A q \in posts : q = p

\* One mode change is under way while the form is saving, none otherwise; until
\* it is made the form shows the stored mode.
Made(p) == [mode |-> p.mode, unlocked |-> p.mode = "auto"]
PutsKnown ==
  /\ \A p \in puts : form.saving /\ \A q \in puts : q = p
  /\ ~unsure =>
       /\ \A p \in puts : p.stage = "ok" => StoredMode = Made(p)
       /\ (\A p \in puts : p.stage # "ok") =>
            StoredMode = [mode |-> form.mode, unlocked |-> form.unlocked]

\* The records under way are of classes of the day the list shows; those that
\* were made are there in full.
MarksKnown ==
  /\ \E i \in DOMAIN Times : list.day = Parts(Times[i]).day
  /\ \A m \in marks :
       /\ Timetable[m.row].dayOfWeek = list.day % 7
       /\ m.stage = "ok" => Block(m.row) \X {list.day} \subseteq recorded

-------------------------------------------------------------------------------
(* The steps, by the state they touch.                                     *)

CameraStep ==
  \/ \E c \in Camera : CameraStarts(c) \/ CameraFails(c)
  \/ \E text \in Texts : ReadQr(text)
  \/ Retry \/ StartScan \/ CancelScan

SubmitStep ==
  \/ Send \/ Redo
  \/ \E p \in posts : ArriveSubmit(p) \/ AnswerSubmit(p) \/ LoseSubmit(p)

FormStep ==
  \/ \E m \in Modes \ {"auto"} : SelectMode(m)
  \/ \E code \in {"right", "wrong"} : SubmitCode(code)
  \/ OpenCode \/ CancelCode
  \/ \E p \in puts : ArrivePut(p) \/ AnswerPut(p) \/ LosePut(p)

ListStep ==
  \/ \E r \in Row : Mark(r)
  \/ \E m \in marks : ArriveMark(m) \/ AnswerMark(m) \/ LoseMark(m)

OpenStep == \E p \in {"attendance", "status"} : Open(p)

RecordStep == \E k \in queued : Record(k[1], k[2])

QuietStep == Tick \/ UNCHANGED vars

LEMMA Steps ==
  [Next]_vars => \/ CameraStep \/ SubmitStep \/ FormStep \/ ListStep
                 \/ OpenStep \/ RecordStep \/ QuietStep
BY DEF Next, Request, Respond, CameraStep, SubmitStep, FormStep, ListStep, OpenStep,
       RecordStep, QuietStep

\* A step leaves alone what is not its own.
LEMMA Frames ==
  /\ CameraStep => UNCHANGED <<worldVars, serverVars, posts, sends, formVars, listVars>>
  /\ SubmitStep =>
       UNCHANGED <<worldVars, settings, recorded, cameraVars, previews, formVars, listVars>>
  /\ FormStep => UNCHANGED <<worldVars, queued, recorded, flowVars, listVars>>
  /\ ListStep => UNCHANGED <<worldVars, settings, queued, flowVars, formVars>>
  /\ OpenStep => UNCHANGED <<zone, now, serverVars, starting, posts, previews, sends, puts, marks>>
  /\ RecordStep => UNCHANGED <<worldVars, settings, queued, flowVars, formVars, listVars>>
  /\ QuietStep => UNCHANGED <<zone, page, serverVars, flowVars, formVars, listVars>>
<1>1. CameraStep => UNCHANGED <<worldVars, serverVars, posts, sends, formVars, listVars>>
  BY DEF CameraStep, CameraStarts, CameraFails, ReadQr, Retry, StartScan, CancelScan
<1>2. SubmitStep =>
        UNCHANGED <<worldVars, settings, recorded, cameraVars, previews, formVars, listVars>>
  BY DEF SubmitStep, Send, SendFrom, Redo, ArriveSubmit, AnswerSubmit, LoseSubmit, Shown,
         serverVars
<1>3. FormStep => UNCHANGED <<worldVars, queued, recorded, flowVars, listVars>>
  BY DEF FormStep, SelectMode, Choose, SubmitCode, OpenCode, CancelCode, ArrivePut,
         AnswerPut, LosePut, serverVars
<1>4. ListStep => UNCHANGED <<worldVars, settings, queued, flowVars, formVars>>
  BY DEF ListStep, Mark, ArriveMark, AnswerMark, LoseMark, serverVars
<1>5. OpenStep =>
        UNCHANGED <<zone, now, serverVars, starting, posts, previews, sends, puts, marks>>
  BY DEF OpenStep, Open
<1>6. RecordStep => UNCHANGED <<worldVars, settings, queued, flowVars, formVars, listVars>>
  BY DEF RecordStep, Record
<1>7. QuietStep => UNCHANGED <<zone, page, serverVars, flowVars, formVars, listVars>>
  BY DEF QuietStep, Tick, vars, worldVars
<1> QED
  BY <1>1, <1>2, <1>3, <1>4, <1>5, <1>6, <1>7

-------------------------------------------------------------------------------
(* Types.                                                                  *)

LEMMA NormalizedTyped ==
  ASSUME NEW s \in SettingsType
  PROVE  NormalizeSettings(s) \in [mode : Modes, unlocked : BOOLEAN]
<1> DEFINE unlocked == s.mode = "auto" /\ s.unlocked
<1>1. \/ NormalizeSettings(s) = [mode |-> s.mode, unlocked |-> unlocked]
      \/ NormalizeSettings(s) = [mode |-> "confirm", unlocked |-> FALSE]
  BY DEF NormalizeSettings, SettingsType
<1>2. unlocked \in BOOLEAN /\ s.mode \in Modes /\ "confirm" \in Modes
  BY DEF Modes, SettingsType
<1> HIDE DEF unlocked
<1>3. \A m \in Modes, u \in BOOLEAN :
        [mode |-> m, unlocked |-> u] \in [mode : Modes, unlocked : BOOLEAN]
  OBVIOUS
<1> QED
  BY <1>1, <1>2, <1>3

\* A preview, of whatever text, has its target among the rows.
LEMMA QrTyped ==
  ASSUME NEW text \in Texts, FlowTyped, HandleQr(text)
  PROVE  /\ step' \in {"absent", "idle", "scanning", "invalid", "previewing"}
         /\ preview' \in [target : SUBSET Row, room : Rooms, submit : Submits]
         /\ previews' \in Nat
         /\ redone' \in BOOLEAN
<1>1. ParseQr(text).ok => ParseQr(text).room = text.room
  BY DEF ParseQr
<1>2. ResolveTarget(Timetable, Time, zone) \subseteq Row
  BY DEF ResolveTarget, Row
<1>3. text.room \in Rooms /\ None \in Rooms
  BY DEF Rooms
<1> QED
  BY <1>1, <1>2, <1>3 DEF HandleQr, FlowTyped, NoPreview, Submits

LEMMA CameraTyped ==
  ASSUME FlowTyped, CameraStep
  PROVE  FlowTyped'
<1>1. posts' = posts /\ sends' = sends
  BY Frames
<1>2. ASSUME StartReader
      PROVE  /\ reader' \in [session : Camera \cup {None}, failed : BOOLEAN]
             /\ starting' \subseteq Camera /\ live' \subseteq Camera
  <2> DEFINE c == CHOOSE x \in Camera \ (starting \cup live) : TRUE
  <2>1. c \in Camera
    BY <1>2 DEF StartReader
  <2> QED
    BY <1>2, <2>1 DEF StartReader, FlowTyped
<1>3. ASSUME StopReader
      PROVE  /\ reader' \in [session : Camera \cup {None}, failed : BOOLEAN]
             /\ live' \subseteq Camera
  BY <1>3 DEF StopReader, NoReader, FlowTyped
<1>4. ASSUME NEW c \in Camera, CameraStarts(c) PROVE FlowTyped'
  <2>1. starting' \subseteq Camera
    BY <1>4 DEF CameraStarts, FlowTyped
  <2>2. CASE UNCHANGED <<reader, step, preview, previews, redone>>
             /\ live' = IF c = reader.session THEN live \cup {c} ELSE live
    BY <1>1, <2>1, <2>2 DEF FlowTyped
  <2>3. CASE \E text \in Texts : HandleQr(text) /\ StopReader
    BY <1>1, <1>3, <2>1, <2>3, QrTyped DEF FlowTyped
  <2> QED
    BY <1>4, <2>2, <2>3 DEF CameraStarts
<1>5. ASSUME NEW c \in Camera, CameraFails(c) PROVE FlowTyped'
  BY <1>1, <1>5 DEF CameraFails, FlowTyped
<1>6. ASSUME NEW text \in Texts, ReadQr(text) PROVE FlowTyped'
  BY <1>1, <1>3, <1>6, QrTyped DEF ReadQr, FlowTyped
<1>7. CASE Retry
  BY <1>1, <1>2, <1>7 DEF Retry, FlowTyped
<1>8. CASE StartScan
  BY <1>1, <1>2, <1>8 DEF StartScan, FlowTyped
<1>9. CASE CancelScan
  BY <1>1, <1>3, <1>9 DEF CancelScan, FlowTyped
<1> QED
  BY <1>4, <1>5, <1>6, <1>7, <1>8, <1>9 DEF CameraStep

LEMMA SubmitTyped ==
  ASSUME Typed, SubmitStep
  PROVE  FlowTyped' /\ queued' \subseteq Row \X Int
<1> USE DEF Typed
<1>1. UNCHANGED <<worldVars, settings, recorded, cameraVars, previews, formVars, listVars>>
  BY Frames
<1>2. CASE Send
  <2>1. /\ queued' = queued /\ step' = step /\ redone' = redone
        /\ sends' = sends + 1
        /\ preview' = [preview EXCEPT !.submit = "submitting"]
    BY <1>2 DEF Send, SendFrom, serverVars
  <2>2. PICK r \in preview.target :
          posts' = posts \cup {[id |-> sends + 1, row |-> r, room |-> preview.room,
                                day |-> HostParts(Time, zone).day, stage |-> "sent"]}
    BY <1>2 DEF Send, SendFrom
  <2>3. HostParts(Time, zone).day \in Int
    BY PagesAssumption DEF HostParts, Parts, Time, Japan, WorldTyped
  <2>4. posts' \subseteq PostType
    BY <2>2, <2>3 DEF FlowTyped, PostType
  <2>5. preview' \in [target : SUBSET Row, room : Rooms, submit : Submits]
    BY <2>1 DEF FlowTyped, Submits
  <2> QED
    BY <1>1, <2>1, <2>4, <2>5 DEF FlowTyped, cameraVars, WorldTyped
<1>3. CASE Redo
  BY <1>1, <1>3 DEF Redo, FlowTyped, cameraVars, serverVars, NoPreview, Rooms, Submits, WorldTyped
<1>4. ASSUME NEW p \in posts, ArriveSubmit(p) PROVE FlowTyped' /\ queued' \subseteq Row \X Int
  <2>1. p \in PostType
    BY DEF FlowTyped
  <2>2. \A stage \in {"accepted", "refused"} : [p EXCEPT !.stage = stage] \in PostType
    BY <2>1 DEF PostType
  <2>3. \E stage \in {"accepted", "refused"} :
          posts' = (posts \ {p}) \cup {[p EXCEPT !.stage = stage]}
    BY <1>4 DEF ArriveSubmit
  <2>4. posts' \subseteq PostType
    BY <2>2, <2>3 DEF FlowTyped
  <2>5. queued' = queued \/ queued' = queued \cup {<<p.row, p.day>>}
    BY <1>4 DEF ArriveSubmit
  <2>6. queued' \subseteq Row \X Int
    BY <2>1, <2>5 DEF WorldTyped, PostType
  <2> QED
    BY <1>1, <1>4, <2>4, <2>6 DEF ArriveSubmit, FlowTyped, cameraVars
<1>5. ASSUME NEW p \in posts, NEW submit \in Submits, Shown(p, submit)
      PROVE  FlowTyped' /\ queued' \subseteq Row \X Int
  BY <1>1, <1>5 DEF Shown, FlowTyped, cameraVars, serverVars, WorldTyped, Submits
<1>6. ASSUME NEW p \in posts, AnswerSubmit(p) \/ LoseSubmit(p)
      PROVE  FlowTyped' /\ queued' \subseteq Row \X Int
  BY <1>5, <1>6 DEF AnswerSubmit, LoseSubmit, Submits
<1> QED
  BY <1>2, <1>3, <1>4, <1>6 DEF SubmitStep

LEMMA FormStepTyped ==
  ASSUME Typed, FormStep
  PROVE  FormTyped' /\ settings' \in SettingsType
<1> USE DEF Typed
<1>1. ASSUME NEW m \in Modes \ {"auto"}, SelectMode(m)
      PROVE  FormTyped' /\ settings' = settings
  <2>1. [mode |-> m, code |-> "", stage |-> "sent"] \in PutType
    BY DEF PutType
  <2> QED
    BY <1>1, <2>1 DEF SelectMode, Choose, Put, FormTyped, FormType, serverVars
<1>2. ASSUME NEW code \in {"right", "wrong"}, SubmitCode(code)
      PROVE  FormTyped' /\ settings' = settings
  <2>1. [mode |-> "auto", code |-> code, stage |-> "sent"] \in PutType
    BY DEF PutType, Modes
  <2> QED
    BY <1>2, <2>1 DEF SubmitCode, Put, FormTyped, FormType, serverVars
<1>3. CASE OpenCode \/ CancelCode
  BY <1>3 DEF OpenCode, CancelCode, FormTyped, FormType, WorldTyped, serverVars
<1>4. ASSUME NEW p \in puts, ArrivePut(p)
      PROVE  FormTyped' /\ settings' \in SettingsType
  <2>1. p \in PutType
    BY DEF FormTyped
  <2>2. \A stage \in {"ok", "refused"} : [p EXCEPT !.stage = stage] \in PutType
    BY <2>1 DEF PutType
  <2>3. \E stage \in {"ok", "refused"} :
          puts' = (puts \ {p}) \cup {[p EXCEPT !.stage = stage]}
    BY <1>4 DEF ArrivePut
  <2>4. puts' \subseteq PutType
    BY <2>2, <2>3 DEF FormTyped
  <2> DEFINE auto == p.mode = "auto"
  <2>5. \/ settings' = settings
        \/ settings' = [shape |-> "settings", mode |-> p.mode, unlocked |-> auto]
    BY <1>4 DEF ArrivePut
  <2>6. p.mode \in Modes /\ auto \in BOOLEAN
    BY <2>1 DEF PutType
  <2> HIDE DEF auto
  <2>7. [shape |-> "settings", mode |-> p.mode, unlocked |-> auto] \in SettingsType
    <3>1. ASSUME NEW s \in Shapes, NEW m \in Modes, NEW u \in BOOLEAN
          PROVE  [shape |-> s, mode |-> m, unlocked |-> u] \in SettingsType
      BY DEF SettingsType
    <3>2. "settings" \in Shapes
      BY DEF Shapes
    <3> QED
      BY <2>6, <3>1, <3>2
  <2>8. settings' \in SettingsType
    BY <2>5, <2>6, <2>7 DEF WorldTyped
  <2> QED
    BY <1>4, <2>4, <2>8 DEF ArrivePut, FormTyped
<1>5. ASSUME NEW p \in puts, AnswerPut(p) \/ LosePut(p)
      PROVE  FormTyped' /\ settings' = settings
  <2>1. p \in PutType
    BY DEF FormTyped
  <2> DEFINE auto == p.mode = "auto"
  <2>2. p.mode \in Modes /\ auto \in BOOLEAN /\ (unsure \/ p.stage = "ok") \in BOOLEAN
    BY <2>1 DEF PutType
  <2>3. CASE AnswerPut(p)
    <3>1. \/ form' = [mode |-> p.mode, unlocked |-> auto, open |-> FALSE, saving |-> FALSE]
          \/ form' = [form EXCEPT !.saving = FALSE]
      BY <2>3 DEF AnswerPut
    <3> HIDE DEF auto
    <3>2. \A m \in Modes, u \in BOOLEAN :
            [mode |-> m, unlocked |-> u, open |-> FALSE, saving |-> FALSE] \in FormType
      BY DEF FormType
    <3>3. [form EXCEPT !.saving = FALSE] \in FormType
      BY DEF FormTyped, FormType
    <3>4. form' \in FormType
      BY <2>2, <3>1, <3>2, <3>3
    <3> QED
      BY <2>3, <3>4 DEF AnswerPut, FormTyped, FormType, serverVars
  <2>4. CASE LosePut(p)
    BY <2>2, <2>4 DEF LosePut, FormTyped, FormType, serverVars
  <2> QED
    BY <1>5, <2>3, <2>4
<1> QED
  BY <1>1, <1>2, <1>3, <1>4, <1>5 DEF FormStep, WorldTyped

LEMMA ListStepTyped ==
  ASSUME Typed, ListStep
  PROVE  ListTyped' /\ recorded' \subseteq Row \X Int
<1> USE DEF Typed
<1>1. \A r \in Row : Block(r) \subseteq Row
  BY DEF Block, BlockRowIds, Row
<1>2. ASSUME NEW r \in Row, Mark(r) PROVE ListTyped' /\ recorded' = recorded
  BY <1>2 DEF Mark, ListTyped, MarkType, serverVars
<1>3. ASSUME NEW m \in marks, ArriveMark(m) PROVE ListTyped' /\ recorded' \subseteq Row \X Int
  <2>1. m \in MarkType
    BY DEF ListTyped
  <2>2. marks' \subseteq MarkType
    BY <1>3, <2>1 DEF ArriveMark, ListTyped, MarkType
  <2>3. Today \in Int
    BY PagesAssumption DEF Today, Parts, Time, WorldTyped
  <2>4. recorded' \subseteq Row \X Int
    BY <1>1, <1>3, <2>1, <2>3 DEF ArriveMark, MarkType, WorldTyped
  <2> QED
    BY <1>3, <2>2, <2>4 DEF ArriveMark, ListTyped
<1>4. ASSUME NEW m \in marks, AnswerMark(m) \/ LoseMark(m)
      PROVE  ListTyped' /\ recorded' = recorded
  <2>1. m.row \in Row
    BY DEF ListTyped, MarkType
  <2> QED
    BY <1>1, <1>4, <2>1 DEF AnswerMark, LoseMark, ListTyped, serverVars
<1> QED
  BY <1>2, <1>3, <1>4 DEF ListStep, WorldTyped

LEMMA InitTyped == Init => Typed
<1> SUFFICES ASSUME Init PROVE Typed
  OBVIOUS
<1>1. settings \in SettingsType
  BY PagesAssumption DEF Init, SettingsType, Shapes
<1>2. Times[1] \in Nat /\ 1 \in DOMAIN Times
  BY PagesAssumption
<1>3. Parts(Times[1]).day \in Int
  BY <1>2 DEF Parts
<1>4. WorldTyped
  BY <1>1, <1>2 DEF Init, WorldTyped
<1>5. FlowTyped
  BY DEF Init, FlowTyped, NoPreview, NoReader, Rooms, Submits
<1>6. NormalizeSettings(settings) \in [mode : Modes, unlocked : BOOLEAN]
  BY <1>1, NormalizedTyped
<1>7. FormTyped
  BY <1>6 DEF Init, FormTyped, FormType, FormOf
<1>8. ListTyped
  BY <1>3 DEF Init, ListTyped
<1> QED
  BY <1>4, <1>5, <1>7, <1>8 DEF Typed

LEMMA NextTyped == Typed /\ [Next]_vars => Typed'
<1> SUFFICES ASSUME Typed, [Next]_vars PROVE Typed'
  OBVIOUS
<1> USE Frames DEF Typed
<1>1. CASE CameraStep
  BY <1>1, CameraTyped DEF WorldTyped, FormTyped, ListTyped, worldVars, serverVars, formVars,
     listVars
<1>2. CASE SubmitStep
  BY <1>2, SubmitTyped DEF WorldTyped, FormTyped, ListTyped, worldVars, formVars, listVars
<1>3. CASE FormStep
  BY <1>3, FormStepTyped DEF WorldTyped, FlowTyped, ListTyped, worldVars, flowVars,
     cameraVars, listVars
<1>4. CASE ListStep
  BY <1>4, ListStepTyped DEF WorldTyped, FlowTyped, FormTyped, worldVars, flowVars,
     cameraVars, formVars
<1>5. CASE OpenStep
  <2>1. PICK p \in {"attendance", "status"} : Open(p)
    BY <1>5 DEF OpenStep
  <2>2. WorldTyped'
    BY <1>5 DEF WorldTyped, serverVars
  <2>3. FlowTyped'
    BY <1>5, <2>1 DEF Open, StopReader, NoReader, NoPreview, FlowTyped, Rooms, Submits
  <2>4. FormTyped'
    BY <1>5, <2>1, NormalizedTyped DEF Open, StoredMode, FormOf, FormTyped, FormType, WorldTyped
  <2>5. Today \in Int
    BY PagesAssumption DEF Today, Parts, Time, WorldTyped
  <2>6. AttendedIds(Today) \subseteq Row
    BY DEF AttendedIds, Block, BlockRowIds, Row
  <2>7. list' \in [marked : SUBSET Row, day : Int, busy : Row \cup {None}]
    BY <2>1, <2>5, <2>6 DEF Open
  <2> QED
    BY <1>5, <2>2, <2>3, <2>4, <2>7 DEF ListTyped
<1>6. CASE RecordStep
  <2>1. PICK k \in queued : Record(k[1], k[2])
    BY <1>6 DEF RecordStep
  <2>2. recorded' \subseteq Row \X Int
    BY <2>1 DEF Record, WorldTyped
  <2> QED
    BY <1>6, <2>2 DEF WorldTyped, FlowTyped, FormTyped, ListTyped, worldVars, flowVars,
       cameraVars, formVars, listVars
<1>7. CASE QuietStep
  <2>1. now' \in DOMAIN Times
    <3>1. CASE Tick
      BY <3>1, PagesAssumption DEF Tick, WorldTyped
    <3>2. CASE UNCHANGED vars
      BY <3>2 DEF vars, worldVars, WorldTyped
    <3> QED
      BY <1>7, <3>1, <3>2 DEF QuietStep
  <2> QED
    BY <1>7, <2>1 DEF WorldTyped, FlowTyped, FormTyped, ListTyped, serverVars, flowVars,
       cameraVars, formVars, listVars
<1> QED
  BY <1>1, <1>2, <1>3, <1>4, <1>5, <1>6, <1>7, Steps

LEMMA AlwaysTyped == Spec => []Typed
BY InitTyped, NextTyped, PTL DEF Spec

-------------------------------------------------------------------------------
(* The camera and the previews.                                            *)

\* The start of a reader, like its end, leaves no camera running.
LEMMA CameraSingle ==
  ASSUME Typed, OneCamera, CameraStep
  PROVE  OneCamera'
<1>1. ASSUME StartReader \/ StopReader PROVE OneCamera'
  BY <1>1 DEF StartReader, StopReader, OneCamera
<1>2. ASSUME NEW c \in Camera, CameraStarts(c) PROVE OneCamera'
  BY <1>1, <1>2, PagesAssumption DEF CameraStarts, OneCamera
<1>3. ASSUME NEW c \in Camera, CameraFails(c) PROVE OneCamera'
  BY <1>3 DEF CameraFails, OneCamera, Typed, FlowTyped
<1> QED
  BY <1>1, <1>2, <1>3 DEF CameraStep, ReadQr, Retry, StartScan, CancelScan

LEMMA InitFlow == Init => OneCamera /\ OneRequestPerPreview /\ UnsentPreview
BY DEF Init, OneCamera, OneRequestPerPreview, UnsentPreview

LEMMA NextCamera ==
  ASSUME Typed, OneCamera, [Next]_vars
  PROVE  OneCamera'
<1>1. CASE OpenStep
  BY <1>1 DEF OpenStep, Open, StopReader, OneCamera
<1>2. CASE ~OpenStep /\ ~CameraStep
  BY <1>2, Steps, Frames DEF flowVars, cameraVars, OneCamera
<1> QED
  BY <1>1, <1>2, CameraSingle

LEMMA NextPreview ==
  ASSUME Typed, OneRequestPerPreview, UnsentPreview, [Next]_vars
  PROVE  OneRequestPerPreview' /\ UnsentPreview'
<1> USE DEF OneRequestPerPreview, UnsentPreview, Typed, FlowTyped
<1>1. ASSUME NEW text \in Texts, HandleQr(text), UNCHANGED sends
      PROVE  OneRequestPerPreview' /\ UnsentPreview'
  BY <1>1 DEF HandleQr
<1>2. CASE CameraStep
  <2>1. sends' = sends
    BY <1>2, Frames
  <2>2. ASSUME NEW c \in Camera, CameraStarts(c)
        PROVE  OneRequestPerPreview' /\ UnsentPreview'
    BY <1>1, <2>1, <2>2 DEF CameraStarts
  <2>3. ASSUME NEW c \in Camera, CameraFails(c)
        PROVE  OneRequestPerPreview' /\ UnsentPreview'
    BY <2>3 DEF CameraFails
  <2>4. ASSUME NEW text \in Texts, ReadQr(text)
        PROVE  OneRequestPerPreview' /\ UnsentPreview'
    BY <1>1, <2>1, <2>4 DEF ReadQr
  <2>5. CASE Retry \/ StartScan \/ CancelScan
    BY <2>5 DEF Retry, StartScan, CancelScan
  <2> QED
    BY <1>2, <2>2, <2>3, <2>4, <2>5 DEF CameraStep
<1>3. CASE SubmitStep
  <2>1. CASE Send
    BY <2>1 DEF Send, SendFrom, Submittable
  <2>2. CASE Redo
    BY <2>2 DEF Redo
  <2>3. ASSUME NEW p \in posts, ArriveSubmit(p)
        PROVE  OneRequestPerPreview' /\ UnsentPreview'
    BY <2>3 DEF ArriveSubmit
  <2>4. ASSUME NEW p \in posts, NEW submit \in Submits \ {"idle"}, Shown(p, submit)
        PROVE  OneRequestPerPreview' /\ UnsentPreview'
    BY <2>4 DEF Shown
  <2>5. ASSUME NEW p \in posts, AnswerSubmit(p) \/ LoseSubmit(p)
        PROVE  OneRequestPerPreview' /\ UnsentPreview'
    BY <2>4, <2>5 DEF AnswerSubmit, LoseSubmit, Submits
  <2> QED
    BY <1>3, <2>1, <2>2, <2>3, <2>5 DEF SubmitStep
<1>4. CASE OpenStep
  BY <1>4 DEF OpenStep, Open, NoPreview
<1>5. CASE ~CameraStep /\ ~SubmitStep /\ ~OpenStep
  BY <1>5, Steps, Frames DEF flowVars
<1> QED
  BY <1>2, <1>3, <1>4, <1>5

\* Only the camera session of the mounted reader runs, however scans are started,
\* cancelled and repeated while cameras are slow to start.
THEOREM SingleCamera == Spec => []OneCamera
BY AlwaysTyped, InitFlow, NextCamera, PTL DEF Spec

\* No preview is submitted twice, whatever is answered, lost or scanned meanwhile.
THEOREM SingleRequests == Spec => []OneRequestPerPreview
BY AlwaysTyped, InitFlow, NextPreview, PTL DEF Spec

-------------------------------------------------------------------------------
(* Accepted submissions.                                                   *)

AcceptedInv == PostsKnown /\ AcceptedIsQueued

LEMMA InitAccepted == Init => AcceptedInv
BY DEF Init, AcceptedInv, PostsKnown, AcceptedIsQueued, NoPreview

\* A step that leaves the submissions and the queue alone, and the preview too
\* unless it notes that a submission was under way.
LEMMA PostsKept ==
  ASSUME Typed, AcceptedInv, UNCHANGED <<posts, queued>>,
         \/ UNCHANGED <<step, preview, redone>>
         \/ /\ preview.submit = "submitting" => redone'
            /\ redone => redone'
            /\ preview'.submit = "idle"
         \/ step # "previewing" /\ step' # "previewing" /\ UNCHANGED <<preview, redone>>
  PROVE  AcceptedInv'
BY DEF AcceptedInv, PostsKnown, AcceptedIsQueued

LEMMA NextAccepted ==
  ASSUME Typed, AcceptedInv, [Next]_vars
  PROVE  AcceptedInv'
<1>1. ASSUME NEW text \in Texts, HandleQr(text), UNCHANGED <<posts, queued>>
      PROVE  AcceptedInv'
  <2>1. preview'.submit = "idle"
    BY <1>1 DEF HandleQr, NoPreview
  <2>2. (preview.submit = "submitting" => redone') /\ (redone => redone')
    BY <1>1 DEF HandleQr
  <2> QED
    BY <1>1, <2>1, <2>2, PostsKept
<1>2. CASE CameraStep
  <2>1. UNCHANGED <<posts, queued>>
    BY <1>2, Frames DEF serverVars
  <2>2. ASSUME NEW c \in Camera, CameraStarts(c) PROVE AcceptedInv'
    BY <1>1, <2>1, <2>2, PostsKept DEF CameraStarts
  <2>3. ASSUME NEW c \in Camera, CameraFails(c) PROVE AcceptedInv'
    BY <2>1, <2>3, PostsKept DEF CameraFails
  <2>4. ASSUME NEW text \in Texts, ReadQr(text) PROVE AcceptedInv'
    BY <1>1, <2>1, <2>4 DEF ReadQr
  <2>5. CASE Retry \/ StartScan \/ CancelScan
    BY <2>1, <2>5, PostsKept DEF Retry, StartScan, CancelScan
  <2> QED
    BY <1>2, <2>2, <2>3, <2>4, <2>5 DEF CameraStep
<1>3. CASE Send
  <2>1. PICK r \in preview.target :
          posts' = posts \cup {[id |-> sends + 1, row |-> r, room |-> preview.room,
                                day |-> HostParts(Time, zone).day, stage |-> "sent"]}
    BY <1>3 DEF Send, SendFrom
  <2>2. /\ step = "previewing" /\ preview.submit = "idle"
        /\ UNCHANGED <<step, redone, queued>>
        /\ preview' = [preview EXCEPT !.submit = "submitting"]
    BY <1>3 DEF Send, SendFrom, Submittable, serverVars
  <2>3. ~redone => posts = {}
    BY <2>2 DEF AcceptedInv, PostsKnown
  <2> QED
    BY <2>1, <2>2, <2>3 DEF AcceptedInv, PostsKnown, AcceptedIsQueued, Typed, FlowTyped
<1>4. CASE Redo
  BY <1>4, PostsKept DEF Redo, NoPreview, serverVars, Typed, FlowTyped
<1>5. ASSUME NEW p \in posts, ArriveSubmit(p) PROVE AcceptedInv'
  <2>1. /\ UNCHANGED <<step, preview, redone>>
        /\ \/ queued' = queued \cup {<<p.row, p.day>>}
           \/ posts' = (posts \ {p}) \cup {[p EXCEPT !.stage = "refused"]} /\ queued' = queued
        /\ \E stage \in {"accepted", "refused"} :
             posts' = (posts \ {p}) \cup {[p EXCEPT !.stage = stage]}
    BY <1>5 DEF ArriveSubmit
  <2>2. p \in PostType
    BY DEF Typed, FlowTyped
  <2>3. \A stage \in {"accepted", "refused"} :
          LET q == [p EXCEPT !.stage = stage] IN
          q.row = p.row /\ q.day = p.day /\ q.stage = stage
    BY <2>2 DEF PostType
  <2>4. queued \subseteq queued'
    BY <2>1
  <2>5. AcceptedIsQueued'
    BY <2>1, <2>4 DEF AcceptedInv, AcceptedIsQueued
  <2>6. \A q \in posts' : q.stage = "accepted" => <<q.row, q.day>> \in queued'
    BY <2>1, <2>3, <2>4 DEF AcceptedInv, PostsKnown
  <2>7. ~redone => posts = {p}
    BY DEF AcceptedInv, PostsKnown
  <2>8. PostsKnown'
    BY <2>1, <2>3, <2>6, <2>7 DEF AcceptedInv, PostsKnown
  <2> QED
    BY <2>5, <2>8 DEF AcceptedInv
<1>6. ASSUME NEW p \in posts, AnswerSubmit(p) \/ LoseSubmit(p) PROVE AcceptedInv'
  <2>1. /\ posts' = posts \ {p} /\ UNCHANGED <<step, redone, queued>>
        /\ preview' = preview \/ preview'.target = preview.target
        /\ preview'.submit = "accepted" =>
             p.stage = "accepted" \/ preview.submit = "accepted"
    BY <1>6 DEF AnswerSubmit, LoseSubmit, Shown, serverVars, Typed, FlowTyped
  <2>2. ~redone => posts' = {} /\ p.row \in preview.target
    BY <2>1 DEF AcceptedInv, PostsKnown
  <2>3. p.stage = "accepted" => <<p.row, p.day>> \in queued
    BY DEF AcceptedInv, PostsKnown
  <2> QED
    BY <2>1, <2>2, <2>3 DEF AcceptedInv, PostsKnown, AcceptedIsQueued
<1>7. CASE OpenStep
  BY <1>7, Frames DEF OpenStep, Open, serverVars, NoPreview, AcceptedInv, PostsKnown,
     AcceptedIsQueued
<1>8. CASE FormStep \/ ListStep \/ RecordStep \/ QuietStep
  BY <1>8, Frames, PostsKept DEF flowVars, serverVars
<1> QED
  BY <1>2, <1>3, <1>4, <1>5, <1>6, <1>7, <1>8, Steps DEF SubmitStep

\* A preview that says its submission was accepted has a job for its class,
\* unless a preview was left while its submission was under way.
THEOREM AcceptedSubmissions == Spec => []AcceptedIsQueued
<1>1. AcceptedInv => AcceptedIsQueued
  BY DEF AcceptedInv
<1> QED
  BY AlwaysTyped, InitAccepted, NextAccepted, <1>1, PTL DEF Spec

-------------------------------------------------------------------------------
(* The mode form.                                                          *)

FormInv == PutsKnown /\ ShownModeIsStored

\* With no change under way the two say the same.
LEMMA PutsSuffice == Typed /\ PutsKnown => ShownModeIsStored
<1> SUFFICES ASSUME Typed, PutsKnown, puts = {}, ~unsure
             PROVE  form.mode = StoredMode.mode /\ form.unlocked = StoredMode.unlocked
  BY DEF ShownModeIsStored
<1>1. StoredMode = [mode |-> form.mode, unlocked |-> form.unlocked]
  BY DEF PutsKnown
<1> QED
  BY <1>1

LEMMA NormalizedMade ==
  ASSUME NEW p
  PROVE  NormalizeSettings([shape |-> "settings", mode |-> p.mode, unlocked |-> p.mode = "auto"])
           = Made(p)
BY DEF NormalizeSettings, Made

\* A form that is loaded shows what is stored.
LEMMA FormLoaded ==
  ASSUME NEW s \in [mode : Modes, unlocked : BOOLEAN]
  PROVE  s = [mode |-> FormOf(s).mode, unlocked |-> FormOf(s).unlocked]
BY DEF FormOf

LEMMA InitPuts == Init => PutsKnown
<1> SUFFICES ASSUME Init PROVE PutsKnown
  OBVIOUS
<1>1. StoredMode \in [mode : Modes, unlocked : BOOLEAN]
  BY InitTyped, NormalizedTyped DEF Typed, WorldTyped, StoredMode
<1>2. form = FormOf(StoredMode) /\ puts = {}
  BY DEF Init, StoredMode
<1> QED
  BY <1>1, <1>2, FormLoaded DEF PutsKnown

LEMMA NextPuts ==
  ASSUME Typed, PutsKnown, [Next]_vars
  PROVE  PutsKnown'
<1> USE DEF Typed, FormTyped, FormType
<1>1. ASSUME NEW put \in PutType, put.stage = "sent", ~form.saving, UNCHANGED <<unsure, settings>>,
             puts' = puts \cup {put}, form' = [form EXCEPT !.saving = TRUE]
      PROVE  PutsKnown'
  BY <1>1 DEF PutsKnown, StoredMode
<1>2. ASSUME NEW m \in Modes \ {"auto"}, SelectMode(m) PROVE PutsKnown'
  <2>1. [mode |-> m, code |-> "", stage |-> "sent"] \in PutType
    BY DEF PutType
  <2> QED
    BY <1>1, <1>2, <2>1 DEF SelectMode, Choose, Put, serverVars
<1>3. ASSUME NEW code \in {"right", "wrong"}, SubmitCode(code) PROVE PutsKnown'
  <2>1. [mode |-> "auto", code |-> code, stage |-> "sent"] \in PutType
    BY DEF PutType, Modes
  <2> QED
    BY <1>1, <1>3, <2>1 DEF SubmitCode, Put, serverVars
<1>4. CASE OpenCode \/ CancelCode
  BY <1>4 DEF OpenCode, CancelCode, PutsKnown, StoredMode, serverVars
<1>5. ASSUME NEW p \in puts, ArrivePut(p) PROVE PutsKnown'
  <2>1. puts = {p} /\ form.saving /\ form' = form /\ unsure' = unsure
    BY <1>5 DEF PutsKnown, ArrivePut
  <2>2. ~unsure => StoredMode = [mode |-> form.mode, unlocked |-> form.unlocked]
    BY <1>5, <2>1 DEF PutsKnown, ArrivePut
  <2>3. \A stage \in {"ok", "refused"} :
          /\ [p EXCEPT !.stage = stage].stage = stage
          /\ [p EXCEPT !.stage = stage].mode = p.mode
    BY DEF PutType
  <2>4. CASE /\ settings' = [shape |-> "settings", mode |-> p.mode, unlocked |-> p.mode = "auto"]
             /\ puts' = (puts \ {p}) \cup {[p EXCEPT !.stage = "ok"]}
    <3>1. puts' = {[p EXCEPT !.stage = "ok"]}
      BY <2>1, <2>4
    <3>2. StoredMode' = Made(p)
      BY <2>4, NormalizedMade DEF StoredMode
    <3>3. Made([p EXCEPT !.stage = "ok"]) = Made(p)
      BY <2>3 DEF Made
    <3> QED
      BY <2>1, <2>3, <3>1, <3>2, <3>3 DEF PutsKnown
  <2>5. CASE /\ puts' = (puts \ {p}) \cup {[p EXCEPT !.stage = "refused"]}
             /\ settings' = settings
    <3>1. puts' = {[p EXCEPT !.stage = "refused"]}
      BY <2>1, <2>5
    <3> QED
      BY <2>1, <2>2, <2>3, <2>5, <3>1 DEF PutsKnown, StoredMode
  <2> QED
    BY <1>5, <2>4, <2>5 DEF ArrivePut
<1>6. ASSUME NEW p \in puts, AnswerPut(p) PROVE PutsKnown'
  <2>1. puts = {p} /\ puts' = {} /\ unsure' = unsure /\ settings' = settings
    BY <1>6 DEF PutsKnown, AnswerPut, serverVars
  <2>2. CASE p.stage = "ok"
    BY <1>6, <2>1, <2>2 DEF AnswerPut, PutsKnown, StoredMode, Made
  <2>3. CASE p.stage = "refused"
    BY <1>6, <2>1, <2>3 DEF AnswerPut, PutsKnown, StoredMode
  <2> QED
    BY <1>6, <2>2, <2>3 DEF AnswerPut
<1>7. ASSUME NEW p \in puts, LosePut(p) PROVE PutsKnown'
  <2>1. puts = {p} /\ puts' = {} /\ settings' = settings
    BY <1>7 DEF PutsKnown, LosePut, serverVars
  <2>2. CASE p.stage = "ok"
    BY <1>7, <2>1, <2>2 DEF LosePut, PutsKnown
  <2>3. CASE p.stage # "ok"
    BY <1>7, <2>1, <2>3 DEF LosePut, PutsKnown, StoredMode
  <2> QED
    BY <2>2, <2>3
<1>8. CASE OpenStep
  <2>1. StoredMode \in [mode : Modes, unlocked : BOOLEAN]
    BY NormalizedTyped DEF WorldTyped, StoredMode
  <2>2. puts' = {} /\ form' = FormOf(StoredMode) /\ StoredMode' = StoredMode
    BY <1>8, Frames DEF OpenStep, Open, serverVars, StoredMode
  <2> QED
    BY <2>1, <2>2, FormLoaded DEF PutsKnown
<1>9. CASE CameraStep \/ SubmitStep \/ ListStep \/ RecordStep \/ QuietStep
  BY <1>9, Frames DEF formVars, serverVars, PutsKnown, StoredMode
<1> QED
  BY <1>2, <1>3, <1>4, <1>5, <1>6, <1>7, <1>8, <1>9, Steps DEF FormStep

\* When nothing is being saved, the form shows the stored mode, unless the answer
\* to a change that was made got lost.
THEOREM ShownModes == Spec => []ShownModeIsStored
BY AlwaysTyped, InitPuts, NextPuts, PutsSuffice, PTL DEF Spec

-------------------------------------------------------------------------------
(* The manual list.                                                        *)

ListInv == MarksKnown /\ MarkedIsRecorded

LEMMA InOwnBlock == \A r \in Row : r \in Block(r)
<1> SUFFICES ASSUME NEW r \in Row PROVE r \in Block(r)
  OBVIOUS
<1>1. Timetable[r].period \in Nat
  BY PagesAssumption
<1> QED
  BY <1>1 DEF Block, BlockRowIds, Row

\* What is recorded in full counts as attended, also later.
LEMMA RecordedIsAttended ==
  ASSUME NEW rows \in SUBSET Row, NEW day, rows \X {day} \subseteq recorded
  PROVE  rows \subseteq AttendedIds(day)
BY InOwnBlock DEF AttendedIds

LEMMA AttendedStays ==
  ASSUME NEW day, recorded \subseteq recorded'
  PROVE  AttendedIds(day) \subseteq AttendedIds(day)'
BY DEF AttendedIds

LEMMA InitList == Init => ListInv
BY PagesAssumption DEF Init, ListInv, MarksKnown, MarkedIsRecorded

\* The list and its requests are left alone, and nothing recorded is lost.
LEMMA ListKept ==
  ASSUME Typed, ListInv, UNCHANGED listVars, recorded \subseteq recorded'
  PROVE  ListInv'
<1>1. AttendedIds(list.day) \subseteq AttendedIds(list.day)'
  BY AttendedStays DEF listVars, AttendedIds
<1>2. MarksKnown'
  BY DEF listVars, ListInv, MarksKnown
<1>3. MarkedIsRecorded'
  BY <1>1 DEF listVars, ListInv, MarkedIsRecorded, AttendedIds
<1> QED
  BY <1>2, <1>3 DEF ListInv

LEMMA NextList ==
  ASSUME WithinAWeek, Typed, ListInv, [Next]_vars
  PROVE  ListInv'
<1> USE DEF Typed, ListTyped
<1>1. ASSUME NEW r \in Row, Mark(r) PROVE ListInv'
  <2>1. /\ list' = [list EXCEPT !.busy = r] /\ recorded' = recorded
        /\ marks' = marks \cup {[row |-> r, stage |-> "sent"]}
        /\ Timetable[r].dayOfWeek = list.day % 7
    BY <1>1 DEF Mark, ListedRows, serverVars
  <2>2. list'.day = list.day /\ list'.marked = list.marked
    BY <2>1
  <2> QED
    BY <2>1, <2>2 DEF ListInv, MarksKnown, MarkedIsRecorded, AttendedIds
<1>2. ASSUME NEW m \in marks, ArriveMark(m) PROVE ListInv'
  <2>1. m \in MarkType
    OBVIOUS
  <2>2. \A stage \in {"ok", "refused"} :
          /\ [m EXCEPT !.stage = stage].stage = stage
          /\ [m EXCEPT !.stage = stage].row = m.row
    BY <2>1 DEF MarkType
  <2>3. list' = list
    BY <1>2 DEF ArriveMark
  <2>4. recorded \subseteq recorded'
    BY <1>2 DEF ArriveMark
  <2>5. MarkedIsRecorded'
    BY <2>3, <2>4, AttendedStays DEF ListInv, MarkedIsRecorded, AttendedIds
  <2>6. CASE marks' = (marks \ {m}) \cup {[m EXCEPT !.stage = "refused"]}
    <3> DEFINE refused == [m EXCEPT !.stage = "refused"]
    <3>1. refused.stage # "ok" /\ refused.row = m.row
      BY <2>2
    <3> HIDE DEF refused
    <3>2. MarksKnown'
      BY <2>3, <2>4, <2>6, <3>1 DEF ListInv, MarksKnown, refused
    <3> QED
      BY <2>5, <3>2 DEF ListInv
  <2>7. CASE /\ marks' = (marks \ {m}) \cup {[m EXCEPT !.stage = "ok"]}
             /\ Timetable[m.row].dayOfWeek = Parts(Time).dayOfWeek
             /\ recorded' = recorded \cup (Block(m.row) \X {Today})
    <3>1. PICK i \in DOMAIN Times : list.day = Parts(Times[i]).day
      BY DEF ListInv, MarksKnown
    <3>2. Parts(Times[i]).dayOfWeek = Parts(Time).dayOfWeek
      BY <2>7, <3>1 DEF ListInv, MarksKnown, Parts
    <3>3. Today = list.day
      BY <3>1, <3>2 DEF WithinAWeek, Today, Time, WorldTyped
    <3> QED
      BY <2>2, <2>3, <2>4, <2>5, <2>7, <3>3 DEF ListInv, MarksKnown
  <2> QED
    BY <1>2, <2>6, <2>7 DEF ArriveMark
<1>3. ASSUME NEW m \in marks, AnswerMark(m) PROVE ListInv'
  <2>1. /\ list'.day = list.day /\ recorded' = recorded /\ marks' = marks \ {m}
        /\ list'.marked = IF m.stage = "ok" THEN list.marked \cup Block(m.row) ELSE list.marked
    BY <1>3 DEF AnswerMark, serverVars
  <2>2. m.row \in Row
    BY DEF MarkType
  <2>3. Block(m.row) \subseteq Row
    BY DEF Block, BlockRowIds, Row
  <2>4. m.stage = "ok" => Block(m.row) \subseteq AttendedIds(list.day)
    BY <2>3, RecordedIsAttended DEF ListInv, MarksKnown
  <2>5. MarkedIsRecorded'
    BY <2>1, <2>4 DEF ListInv, MarkedIsRecorded, AttendedIds
  <2>6. MarksKnown'
    BY <2>1 DEF ListInv, MarksKnown
  <2> QED
    BY <2>5, <2>6 DEF ListInv
<1>4. ASSUME NEW m \in marks, LoseMark(m) PROVE ListInv'
  <2>1. list'.day = list.day /\ recorded' = recorded /\ marks' = marks \ {m}
        /\ list'.marked = list.marked
    BY <1>4 DEF LoseMark, serverVars
  <2> QED
    BY <2>1 DEF ListInv, MarksKnown, MarkedIsRecorded, AttendedIds
<1>5. CASE OpenStep
  <2>1. PICK p \in {"attendance", "status"} : Open(p)
    BY <1>5 DEF OpenStep
  <2>2. /\ marks' = {} /\ recorded' = recorded
        /\ list'.day = Today
        /\ list'.marked \subseteq AttendedIds(Today)
    BY <2>1 DEF Open, serverVars
  <2>3. MarksKnown'
    BY <2>2 DEF MarksKnown, Today, Time, WorldTyped
  <2>4. MarkedIsRecorded'
    BY <2>2 DEF MarkedIsRecorded, AttendedIds
  <2> QED
    BY <2>3, <2>4 DEF ListInv
<1>6. CASE CameraStep \/ SubmitStep \/ FormStep \/ QuietStep
  BY <1>6, Frames, ListKept DEF listVars, serverVars
<1>7. CASE RecordStep
  BY <1>7, Frames, ListKept DEF RecordStep, Record
<1> QED
  BY <1>1, <1>2, <1>3, <1>4, <1>5, <1>6, <1>7, Steps DEF ListStep

\* A row the list shows as attended is recorded, however marks fail half-way
\* through a block, get lost or are answered in another order.  A page that stays
\* open for a week and more is left out: its list is of another day by then.
THEOREM MarkedRows ==
  ASSUME WithinAWeek
  PROVE  Spec => []MarkedIsRecorded
<1>1. ListInv => MarkedIsRecorded
  BY DEF ListInv
<1>2. Typed /\ ListInv /\ [Next]_vars => ListInv'
  BY NextList
<1> QED
  BY AlwaysTyped, InitList, <1>1, <1>2, PTL DEF Spec
===============================================================================
