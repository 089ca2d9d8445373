---------------------------- MODULE TimetableSync ----------------------------
(***************************************************************************)
(* The timetable of one user and everyone who writes it: syncTimetable,    *)
(* run by the scrape job and by the CIT timetable sync, at once if it      *)
(* happens; the syllabus sync, which links rows to syllabi; the user, with *)
(* PUT and DELETE; and the attendance worker, whose log keeps a row alive. *)
(*                                                                         *)
(* A slot is a weekday and a period.  The identity of a row is its slot    *)
(* and a number that tells it from earlier rows of the slot; numbers that  *)
(* nobody remembers are reused, which no query can tell.  Room and classId *)
(* follow the name and are left out.                                       *)
(***************************************************************************)
EXTENDS Integers, FiniteSets

CONSTANTS
  Slots,       \* (dayOfWeek, period)
  Editable,    \* the slots PUT accepts: periods 1 to 6
  Courses,     \* class names
  Offered,     \* the classes the portal may show, per slot
  Known,       \* class names whose syllabus may be found
  Runs,        \* contexts that call syncTimetable
  Ids,         \* numbers of the rows of a slot
  MaxMoves,    \* bound on the steps of the user, the portal, logs and crashes
  NoCourse, NoRow

ASSUME TimetableAssumption ==
  /\ Editable \subseteq Slots
  /\ Known \subseteq Courses
  /\ Offered \in [Slots -> SUBSET Courses]
  /\ MaxMoves \in Nat
  /\ NoCourse \notin Courses

VARIABLES
  portal,      \* what the portal's timetable page says: slot -> course
  rows,        \* the table: slot -> row, as (userId, day, period) is unique
  run,         \* per context: how far its syncTimetable is
  linker,      \* the syllabus sync: its snapshot and the courses left
  hand,        \* history: slots whose class the user entered last
  had,         \* history: the names the row of a slot has had
  moves

tableVars == <<rows, had>>
vars == <<portal, tableVars, run, linker, hand, moves>>

Pages == {p \in [Slots -> Courses \cup {NoCourse}] :
            \A s \in Slots : p[s] \in Offered[s] \cup {NoCourse}}
Row == [id : Ids, name : Courses, source : {"manual", "scraped"},
        syllabus : Courses \cup {NoCourse}, logged : BOOLEAN]

NoPage == [s \in Slots |-> NoCourse]
NoRows == [s \in Slots |-> NoRow]
Idle == [at |-> "idle", page |-> NoPage, entries |-> NoPage,
         seen |-> NoRows, todo |-> {}]
NotLinking == [on |-> FALSE, ids |-> [c \in Courses |-> {}], todo |-> {}]

ASSUME RowAssumption == NoRow \notin Row \cup [id : Ids, source : {"manual", "scraped"}]

\* What the run knows of a row: select { id, source }.
Seen(row) == IF row = NoRow THEN NoRow ELSE [id |-> row.id, source |-> row.source]

Present == {s \in Slots : rows[s] # NoRow}

Remembered(s) ==
  {rows[t].id : t \in Present \cap {s}}
    \cup {run[r].seen[s].id : r \in {q \in Runs : run[q].seen[s] # NoRow}}
    \cup {i \in Ids : \E c \in Courses : <<s, i>> \in linker.ids[c]}

\* The number of the next row of s; Ids has one left in all but the smallest instances.
HasFresh(s) == Ids \ Remembered(s) # {}
Fresh(s) == CHOOSE i \in Ids : i \notin Remembered(s)

\* A run that got past the fetch has entries.
TypeOK ==
  /\ portal \in Pages
  /\ \A s \in Present : rows[s] \in Row
  /\ \A r \in Runs :
       /\ run[r].at \in {"idle", "read", "write"}
       /\ run[r].entries \in Pages
       /\ run[r].at = "read" => run[r].entries # NoPage
       /\ run[r].todo \subseteq Slots
       /\ run[r].at = "write" <=> run[r].todo # {}
  /\ linker.todo \subseteq Courses
  /\ hand \subseteq Present
  /\ had \in [Slots -> SUBSET Courses]
  /\ moves \in 0..MaxMoves

Init ==
  /\ portal \in Pages
  /\ rows = NoRows
  /\ run = [r \in Runs |-> Idle]
  /\ linker = NotLinking
  /\ hand = {}
  /\ had = [s \in Slots |-> {}]
  /\ moves = 0

\* The table becomes `table`.
Write(table) ==
  /\ rows' = table
  /\ had' = [s \in Slots |-> IF table[s] = NoRow THEN {} ELSE had[s] \cup {table[s].name}]

Move == moves < MaxMoves /\ moves' = moves + 1

-------------------------------------------------------------------------------
(* syncTimetable and its callers                                           *)

\* Mutation: the sync goes on with a page that shows no entry.
FetchUngated(r) ==
  /\ run[r].at = "idle"
  /\ \E entries \in {portal, NoPage} :
       run' = [run EXCEPT ![r] = [Idle EXCEPT !.at = "read", !.page = portal,
                                              !.entries = entries]]
  /\ UNCHANGED <<portal, tableVars, linker, hand, moves>>

\* The page is fetched and parsed, wholly or not at all.  When no entry is found, because
\* the page was not rendered or there is none, nothing is synchronised.
Fetch(r) ==
  /\ run[r].at = "idle"
  /\ portal # NoPage
  /\ run' = [run EXCEPT ![r] = [at |-> "read", page |-> portal, entries |-> portal,
                               seen |-> NoRows, todo |-> {}]]
  /\ UNCHANGED <<portal, tableVars, linker, hand, moves>>

\* Mutation: rows that vanished from the page are left.
PlanWithoutPrune(entries, seen) ==
  {s \in Slots : entries[s] # NoCourse
                   /\ (seen[s] = NoRow \/ seen[s].source = "scraped")}

\* What the run will do: create or update the entries whose slot is free or scraped,
\* then delete the scraped rows without an entry.
Plan(entries, seen) ==
  {s \in Slots : IF seen[s] = NoRow THEN entries[s] # NoCourse
                                    ELSE seen[s].source = "scraped"}

\* The existing rows are read once, before all writes.
Read(r) ==
  /\ run[r].at = "read"
  /\ LET seen == [s \in Slots |-> Seen(rows[s])]
         todo == Plan(run[r].entries, seen)
     IN run' = [run EXCEPT ![r] =
                  IF todo = {} THEN Idle
                  ELSE [at |-> "write", page |-> run[r].page, entries |-> run[r].entries,
                        seen |-> [s \in Slots |-> IF s \in todo THEN seen[s] ELSE NoRow],
                        todo |-> todo]]
  /\ UNCHANGED <<portal, tableVars, linker, hand, moves>>

\* The run after it is done with s, and after a query of it threw.
DoneWith(r, s) ==
  run' = [run EXCEPT ![r] =
            IF run[r].todo = {s} THEN Idle
            ELSE [at |-> "write", page |-> [run[r].page EXCEPT ![s] = NoCourse],
                  entries |-> [run[r].entries EXCEPT ![s] = NoCourse],
                  seen |-> [run[r].seen EXCEPT ![s] = NoRow],
                  todo |-> run[r].todo \ {s}]]
Throw(r) == run' = [run EXCEPT ![r] = Idle]

\* Mutation: the row is addressed by its slot, and not by the identity read.
AnyRowThere(r, s) == rows[s] # NoRow

\* The row of s is the one the run has read.
StillThere(r, s) == rows[s] # NoRow /\ rows[s].id = run[r].seen[s].id

Writing(r, s) == s \in run[r].todo /\ run[r].entries[s] # NoCourse

\* Mutation: the class name of an existing row is left alone.
UpdateSourceOnly(r, s) ==
  /\ Writing(r, s) /\ run[r].seen[s] # NoRow
  /\ IF StillThere(r, s)
     THEN Write([rows EXCEPT ![s].source = "scraped"]) /\ DoneWith(r, s)
     ELSE Throw(r) /\ UNCHANGED tableVars
  /\ UNCHANGED <<portal, linker, hand, moves>>

\* A scraped row is updated, by identity; the update of a row that is gone throws.
Update(r, s) ==
  /\ Writing(r, s) /\ run[r].seen[s] # NoRow
  /\ IF StillThere(r, s)
     THEN /\ Write([rows EXCEPT ![s] = [@ EXCEPT !.name = run[r].entries[s],
                                                !.source = "scraped"]])
          /\ hand' = hand \ {s}
          /\ DoneWith(r, s)
     ELSE Throw(r) /\ UNCHANGED <<tableVars, hand>>
  /\ UNCHANGED <<portal, linker, moves>>

NewRow(s, name, source) ==
  [id |-> Fresh(s), name |-> name, source |-> source, syllabus |-> NoCourse, logged |-> FALSE]

\* A slot that was free gets a row; one that was taken since then throws.
Create(r, s) ==
  /\ Writing(r, s) /\ run[r].seen[s] = NoRow /\ HasFresh(s)
  /\ IF rows[s] = NoRow
     THEN Write([rows EXCEPT ![s] = NewRow(s, run[r].entries[s], "scraped")]) /\ DoneWith(r, s)
     ELSE Throw(r) /\ UNCHANGED tableVars
  /\ UNCHANGED <<portal, linker, hand, moves>>

\* When all entries are written, rows that vanished are deleted; the delete of a row
\* that is gone, or that attendance_logs refers to, throws.
Prune(r, s) ==
  /\ s \in run[r].todo
  /\ \A t \in run[r].todo : ~Writing(r, t)
  /\ IF StillThere(r, s) /\ ~rows[s].logged
     THEN Write([rows EXCEPT ![s] = NoRow]) /\ hand' = hand \ {s} /\ DoneWith(r, s)
     ELSE Throw(r) /\ UNCHANGED <<tableVars, hand>>
  /\ UNCHANGED <<portal, linker, moves>>

\* The worker dies; before the first write that is as if the run had not begun.
Crash(r) ==
  /\ run[r].at = "write" /\ Move
  /\ Throw(r)
  /\ UNCHANGED <<portal, tableVars, linker, hand>>

-------------------------------------------------------------------------------
(* The syllabus sync                                                       *)

\* Rows are grouped by course and the syllabi found are fetched, in one login; a
\* course whose syllabus is not found, or does not parse, is skipped.  What is found is
\* for the scraper to say, which for now finds nothing (PortalSso): no property needs
\* that anything is found.
FetchSyllabi(found) ==
  /\ ~linker.on /\ Present # {}
  /\ LET named(c) == {<<s, rows[s].id>> : s \in {t \in Present : rows[t].name = c}}
         todo == {c \in found : named(c) # {}}
     IN /\ todo # {}
        /\ linker' = [on |-> TRUE, todo |-> todo,
                      ids |-> [c \in Courses |-> IF c \in todo THEN named(c) ELSE {}]]
  /\ UNCHANGED <<portal, tableVars, run, hand, moves>>

LinkRows(c, linked) ==
  /\ c \in linker.todo
  /\ Write([s \in Slots |-> IF s \in linked THEN [rows[s] EXCEPT !.syllabus = c] ELSE rows[s]])
  /\ linker' = IF linker.todo = {c} THEN NotLinking
               ELSE [linker EXCEPT !.todo = @ \ {c}, !.ids[c] = {}]
  /\ UNCHANGED <<portal, run, hand, moves>>

\* Mutation: the rows are addressed by their slots, and not by the identities read.
LinkBySlot(c) ==
  LinkRows(c, {s \in Present : \E i \in Ids : <<s, i>> \in linker.ids[c]})

\* updateMany links the rows read under the course that are still there, whatever
\* they are named by now.
Link(c) == LinkRows(c, {s \in Present : <<s, rows[s].id>> \in linker.ids[c]})

-------------------------------------------------------------------------------
(* The user, the attendance worker and the portal                          *)

\* PUT: an existing row keeps its source and its syllabus, a new one is manual.
Put(s, c) ==
  /\ s \in Editable /\ (rows[s] = NoRow => HasFresh(s)) /\ Move
  /\ Write([rows EXCEPT ![s] = IF @ = NoRow THEN NewRow(s, c, "manual")
                               ELSE [@ EXCEPT !.name = c]])
  /\ hand' = hand \cup {s}
  /\ UNCHANGED <<portal, run, linker>>

\* DELETE: refused by the database when the row has attendance logs.
Delete(s) ==
  /\ rows[s] # NoRow /\ ~rows[s].logged /\ Move
  /\ Write([rows EXCEPT ![s] = NoRow])
  /\ hand' = hand \ {s}
  /\ UNCHANGED <<portal, run, linker>>

\* A row of attendance_logs is written for the class.
LogAttendance(s) ==
  /\ rows[s] # NoRow /\ ~rows[s].logged /\ Move
  /\ Write([rows EXCEPT ![s].logged = TRUE])
  /\ UNCHANGED <<portal, run, linker, hand>>

PortalChanges ==
  /\ Move
  /\ portal' \in Pages \ {portal}
  /\ UNCHANGED <<tableVars, run, linker, hand>>

SyncStep(r) ==
  Fetch(r) \/ Read(r) \/ \E s \in Slots : Update(r, s) \/ Create(r, s) \/ Prune(r, s)

Next ==
  \/ \E r \in Runs : SyncStep(r) \/ Crash(r)
  \/ \E found \in SUBSET Known : FetchSyllabi(found)
  \/ \E c \in Courses : Link(c)
  \/ \E s \in Slots : Delete(s) \/ LogAttendance(s) \/ \E c \in Courses : Put(s, c)
  \/ PortalChanges

Spec == Init /\ [][Next]_vars

\* The syncs of the timetable are repeated and their steps taken.
Fairness == \A r \in Runs : WF_vars(SyncStep(r))
FairSpec == Spec /\ Fairness

-------------------------------------------------------------------------------
(* Properties                                                              *)

\* No sync renames or deletes a class the user added, though it decides on a snapshot
\* and the user edits between the snapshot and the write ("manual" is protected).
ManualRowKept ==
  [][moves' = moves =>
       \A s \in Present : rows[s].source = "manual" =>
         /\ rows'[s] # NoRow
         /\ rows'[s].source = "manual" /\ rows'[s].name = rows[s].name]_vars

\* A sync deletes a class only if a page of the portal really was without it: a page
\* that failed to render never empties the timetable.
OnlyVanishedRemoved ==
  [][moves' = moves =>
       \A s \in Present : rows'[s] = NoRow =>
         \E r \in Runs : s \in run[r].todo /\ run[r].page[s] = NoCourse]_vars

\* The timetable comes to show what the portal shows, manual rows excepted, despite
\* crashes, concurrent syncs that write an older page, and syncs that throw.
PortalFollowed ==
  <>[](\A s \in Slots : portal[s] # NoCourse =>
         /\ rows[s] # NoRow
         /\ rows[s].source = "scraped" => rows[s].name = portal[s])

\* Classes that vanished from the page go, unless one of them has attendance logs
\* (its delete throws and ends the run) or the page is empty.
Vanished(s) == rows[s] # NoRow /\ rows[s].source = "scraped" /\ portal[s] = NoCourse
VanishedRemoved ==
  <>[](\/ portal = NoPage
       \/ \E s \in Slots : Vanished(s) /\ rows[s].logged
       \/ \A s \in Slots : ~Vanished(s))

\* A class is only ever linked to the syllabus of a course whose name it has had itself,
\* though the syllabus sync links by a snapshot that is minutes old, and meanwhile rows
\* are deleted and their slots taken by other classes.
LinkIsEarned == \A s \in Present : rows[s].syllabus \in had[s] \cup {NoCourse}

\* What the user entered by hand is not overwritten by a sync (header of
\* timetable-sync.ts, comment at the source column).
HandEditKept ==
  [][moves' = moves =>
       \A s \in hand : rows'[s] # NoRow /\ rows'[s].name = rows[s].name]_vars
===============================================================================
