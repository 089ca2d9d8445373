--------------------------- MODULE MCAttendancePages ---------------------------
(***************************************************************************)
(* Small instances of AttendancePages: a block of two rows on a Monday.     *)
(***************************************************************************)
EXTENDS AttendancePages, TLC

CONSTANTS early, late

Plain(code) == [code |-> code, spelling |-> "plain"]
Room5304 == Plain(<<"5", "3", "0", "4">>)
Room7301 == Plain(<<"7", "3", "0", "1">>)

Monday(period, className, room) ==
  [dayOfWeek |-> 1, period |-> period, className |-> className, room |-> room]

Classes ==
  early :> Monday(1, "theory", Room5304) @@
  late :> Monday(2, "theory", Room5304)

Code(room) == [url |-> TRUE, https |-> TRUE, cit |-> TRUE, path |-> TRUE, room |-> room]
Codes == {Code(Room5304), Code(Room7301),
          [Code(Room5304) EXCEPT !.https = FALSE]}

At(day, hour, minute) == 1440 * day + 60 * hour + minute

\* The guard's window of "early", the page's window of "early" on a device set to
\* Japan (the first moment is that window on a device at UTC+9:30), and the next
\* day.
MondayTimes == <<At(1, 8, 55), At(1, 9, 25), At(2, 0, 10)>>

ASSUME WithinAWeek

\* No settings yet: they read as confirm mode.
Fresh == {[shape |-> "null", mode |-> "manual", unlocked |-> FALSE]}
===============================================================================
