---------------------------- MODULE MCAttendanceJob ----------------------------
(***************************************************************************)
(* Small instances of AttendanceJob: one class of one or two consecutive   *)
(* rows in room 7301, two worker slots.  Row r1 is admitted at tick 0, r2  *)
(* at tick 1, neither at tick 2.                                           *)
(***************************************************************************)
EXTENDS AttendanceJobProofs, TLC

CONSTANTS r1, r2, w1, w2

OneRow == {r1}
TwoRows == {r1, r2}
TwoSlots == {w1, w2}

MCBlock == [r \in Row |-> Row]
MCRoomOf == [r \in Row |-> "7301"]
MCWindow == [r \in Row |-> IF r = r1 THEN {0} ELSE {1}]
MCLeadTick == [r \in Row |-> IF r = r1 THEN 0 ELSE 1]

\* The days on which runs are prompt are the days ClosedBlocks is about.
ASSUME PromptRuns => OneRunPerWindow

\* Slots are interchangeable.
SlotSymmetry == Permutations(Slot)
================================================================================
