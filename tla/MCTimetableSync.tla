--------------------------- MODULE MCTimetableSync ---------------------------
(***************************************************************************)
(* Small instances of TimetableSync.                                       *)
(***************************************************************************)
EXTENDS TimetableSync

CONSTANTS early, late, algebra, optics, lab, scrape, cit

TwoSlots == {early, late}
OneEditable == {early}
ThreeCourses == {algebra, optics, lab}

\* The lab has no syllabus.
TwoCourses == {algebra, optics}
BothOrLab == [s \in TwoSlots |-> IF s = early THEN TwoCourses ELSE {lab}]
BothCallers == {scrape, cit}
FewIds == 1..3
===============================================================================
