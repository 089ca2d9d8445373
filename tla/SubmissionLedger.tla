--------------------------- MODULE SubmissionLedger ---------------------------
(***************************************************************************)
(* What the attendance worker promises about external submissions, free of *)
(* queues, slots and crashes.  The promise is the comment above            *)
(* claimAttendanceSubmit (attendance-job.ts): a submission key is tried at *)
(* most once, the try is on record before anything leaves the worker, and  *)
(* a success row is final.                                                 *)
(***************************************************************************)
EXTENDS Naturals

CONSTANTS SubmitKey,  \* the (row, method) pairs a worker may submit for
          LogKey      \* every key of attendance_logs; contains SubmitKey

VARIABLES tried,      \* the keys whose one try is on record
          sent,       \* sent[k]: POSTs the attendance system registered for k
          log         \* log[k]: status of the attendance_logs row, or "none"

ledgerVars == <<tried, sent, log>>

LedgerInit ==
  /\ tried = {}
  /\ sent = [k \in SubmitKey |-> 0]
  /\ log = [k \in LogKey |-> "none"]

\* The one try of k is put on record; nothing has been sent for k before.
Open(k) ==
  /\ k \notin tried
  /\ sent[k] = 0
  /\ tried' = tried \cup {k}
  /\ UNCHANGED <<sent, log>>

\* The attendance system registers the submission of an opened try, once.
Send(k) ==
  /\ k \in tried
  /\ sent[k] = 0
  /\ sent' = [sent EXCEPT ![k] = 1]
  /\ UNCHANGED <<tried, log>>

\* A row takes a new status.  It never leaves "success", and a worker's row
\* reaches "success" only after its try was opened.
Record(k, status) ==
  /\ log[k] # "success"
  /\ (status = "success" /\ k \in SubmitKey) => k \in tried
  /\ log' = [log EXCEPT ![k] = status]
  /\ UNCHANGED <<tried, sent>>

LedgerNext ==
  \/ \E k \in SubmitKey : Open(k) \/ Send(k)
  \/ \E k \in LogKey, status \in {"pending", "skipped", "failed", "success"} :
       Record(k, status)

LedgerSpec == LedgerInit /\ [][LedgerNext]_ledgerVars
===============================================================================
