---------------------------- MODULE AttendanceRules ----------------------------
(***************************************************************************)
(* The rules about time, rooms, blocks and settings that the attendance    *)
(* components share: the pure functions of packages/shared.                *)
(*                                                                         *)
(* A time is a number of minutes since a Sunday midnight in Japan.  A zone *)
(* is the offset of a host in minutes east of UTC.  A timetable is a       *)
(* function from rows to [dayOfWeek, period, className, room].  A room is  *)
(* [code, spelling]: the symbols of its name and how they are written      *)
(* ("plain", or "styled": full-width, lower case, with blanks or with a    *)
(* suffix such as "lecture room").  A symbol outside the letters and       *)
(* digits of a room id is "kanji".                                         *)
(***************************************************************************)
EXTENDS Integers, Sequences

Japan == 540
Lead == 5        \* ATTENDANCE_LEAD_MINUTES
Tolerance == 2   \* ATTENDANCE_WINDOW_TOLERANCE_MINUTES

Modes == {"manual", "confirm", "auto"}

-------------------------------------------------------------------------------
(* Time.                                                                   *)

\* getJstParts; also what getDay, getHours and getMinutes of a host read.
Parts(t) ==
  [day |-> t \div 1440, dayOfWeek |-> (t \div 1440) % 7, minute |-> t % 1440]
HostParts(t, zone) == Parts(t + zone - Japan)

\* PERIOD_START_TIMES of attendance-schedule.ts: ten periods of an hour.
PeriodStart == [p \in 1..10 |-> 60 * (8 + p)]

\* PERIOD_START_TIMES of attendance-target.ts, which the page uses.
TargetStart == <<570, 670, 790, 890, 990, 1090>>

Near(minute, start) == minute \in (start - Lead - Tolerance)..(start - Lead + Tolerance)

\* isInAttendanceWindow of the two guards: Japanese time, whatever the host.
InWindow(row, t) ==
  /\ Parts(t).dayOfWeek = row.dayOfWeek
  /\ row.period \in DOMAIN PeriodStart
  /\ Near(Parts(t).minute, PeriodStart[row.period])

\* resolveAttendanceTarget: the rows whose window, by the page's own table and
\* the device's own clock, is now.  None, one or several.
ResolveTarget(timetable, t, zone) ==
  {r \in DOMAIN timetable :
     /\ HostParts(t, zone).dayOfWeek = timetable[r].dayOfWeek
     /\ timetable[r].period \in DOMAIN TargetStart
     /\ Near(HostParts(t, zone).minute, TargetStart[timetable[r].period])}

-------------------------------------------------------------------------------
(* Rooms and QR codes.                                                     *)

Digits == {"0", "1", "2", "3", "4", "5", "6", "7", "8", "9"}

\* "731" in the timetable of the Tsudanuma campus is "7301" in its QR code.
Folds(code, qrCode) ==
  /\ Len(code) = 3
  /\ code[1] = "7"
  /\ {code[2], code[3]} \subseteq Digits
  /\ qrCode = <<code[1], code[2], "0", code[3]>>

\* normalizeRoom: the spelling is dropped.  An empty code is an empty room.
NormalizeRoom(room) == room.code

\* attendanceRoomMatches.
RoomMatches(room, qrRoom) ==
  LET code == NormalizeRoom(room)
      qrCode == NormalizeRoom(qrRoom)
  IN /\ code # <<>> /\ qrCode # <<>>
     /\ code = qrCode \/ Folds(code, qrCode)

\* roomIdSchema.
IsRoomId(room) ==
  /\ room.spelling = "plain"
  /\ Len(room.code) \in 1..32
  /\ \A i \in DOMAIN room.code : room.code[i] # "kanji"

\* parseAttendanceQrUrl of a text [url, https, cit, path, room].
ParseQr(text) ==
  LET Reject(reason) == [ok |-> FALSE, reason |-> reason] IN
  IF ~text.url THEN Reject("invalid_url")
  ELSE IF ~text.https THEN Reject("unsupported_protocol")
  ELSE IF ~text.cit THEN Reject("host_not_allowed")
  ELSE IF ~text.path THEN Reject("unsupported_path")
  ELSE IF ~IsRoomId(text.room) THEN Reject("invalid_room_id")
  ELSE [ok |-> TRUE, room |-> text.room]

-------------------------------------------------------------------------------
(* Blocks, settings and the guards.                                        *)

\* blockRowIds: the rows of the day with r's class name whose periods reach
\* r's without a gap.
BlockRowIds(timetable, r) ==
  LET SameName == {q \in DOMAIN timetable :
                     /\ timetable[q].dayOfWeek = timetable[r].dayOfWeek
                     /\ timetable[q].className = timetable[r].className}
      Between(a, b) == (a..b) \cup (b..a)
  IN {q \in SameName :
        \A p \in Between(timetable[q].period, timetable[r].period) :
          \E s \in SameName : timetable[s].period = p}

\* normalizeAttendanceSettings of a JSON value [shape, mode, unlocked]; the
\* shape is "settings", or anything else ("null", the "old" autoAttend, "broken").
NormalizeSettings(raw) ==
  IF raw.shape = "settings"
  THEN [mode |-> raw.mode, unlocked |-> raw.mode = "auto" /\ raw.unlocked]
  ELSE [mode |-> "confirm", unlocked |-> FALSE]

\* verifyAutoDevCode: no code is right while none is configured.
VerifyDevCode(configured, code) == configured /\ code = "right"

\* evaluateConfirmSubmitGuard, for a row of the student who asks.
ConfirmGuard(row, room, day, t, done, hasCreds) ==
  IF ~RoomMatches(row.room, room) THEN "room_mismatch"
  ELSE IF day # Parts(t).day THEN "class_date_mismatch"
  ELSE IF ~InWindow(row, t) THEN "outside_time_window"
  ELSE IF done THEN "already_submitted"
  ELSE IF ~hasCreds THEN "credentials_not_registered"
  ELSE "allowed"

\* evaluateAttendanceAutoGuard, for an auto job of a row of its student.
AutoGuard(row, room, t, settings, sessionValid, done, reachable) ==
  IF ~settings.unlocked THEN "disabled by server policy"
  ELSE IF settings.mode # "auto" THEN "auto not enabled"
  ELSE IF ~RoomMatches(row.room, room) THEN "room mismatch"
  ELSE IF ~InWindow(row, t) THEN "outside window"
  ELSE IF ~sessionValid THEN "no session"
  ELSE IF done THEN "already submitted"
  ELSE IF ~reachable THEN "not reachable"
  ELSE "allowed"
===============================================================================
