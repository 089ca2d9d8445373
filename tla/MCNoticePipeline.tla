--------------------------- MODULE MCNoticePipeline ---------------------------
(***************************************************************************)
(* Small instances of NoticePipeline.                                      *)
(***************************************************************************)
EXTENDS NoticePipeline

CONSTANTS exam, room, report, r1, r2, job1, phone, laptop

TwoNotices == {exam, room}
OneDoublable == {exam}
OneAssignment == {report}
TwoRuns == {r1, r2}
OneJob == {job1}
TwoEndpoints == {phone, laptop}
OneMortal == {phone}
===============================================================================
