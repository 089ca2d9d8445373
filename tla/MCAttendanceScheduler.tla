------------------------- MODULE MCAttendanceScheduler -------------------------
(***************************************************************************)
(* A small instance of AttendanceScheduler: one student with a block of    *)
(* three periods, one with a class in the first of them whose room the     *)
(* timetable spells otherwise than the QR code.                            *)
(***************************************************************************)
EXTENDS AttendanceScheduler, TLC

CONSTANTS first, second, third, other, ann, bob

Plain(code) == [code |-> code, spelling |-> "plain"]
Room5304 == Plain(<<"5", "3", "0", "4">>)
Room7301 == Plain(<<"7", "3", "0", "1">>)
Room731 == [code |-> <<"7", "3", "1">>, spelling |-> "styled"]

Monday(user, period, className, room) ==
  [user |-> user, dayOfWeek |-> 1, period |-> period, className |-> className,
   room |-> room]

Classes ==
  first :> Monday(ann, 1, "theory", Room5304) @@
  second :> Monday(ann, 2, "theory", Room5304) @@
  third :> Monday(ann, 3, "theory", Room5304) @@
  other :> Monday(bob, 1, "practice", Room731)

Codes == {Room5304, Room7301}

At(hour, minute) == 1440 + 60 * hour + minute

\* Reminder, first minute of the window and tick of the first row; the ticks of
\* the others; the end.
MondayTimes == <<At(8, 50), At(8, 53), At(8, 55), At(9, 55), At(10, 55), At(11, 30)>>

ASSUME ShortBlocks

\* Processes are alike.
AlikeProcesses == Permutations(Process)
===============================================================================
