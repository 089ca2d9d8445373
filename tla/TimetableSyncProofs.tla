-------------------------- MODULE TimetableSyncProofs --------------------------
(***************************************************************************)
(* What no synchronisation does to a timetable, for any slots, courses,    *)
(* numbers of concurrent synchronisations and steps of the user.           *)
(***************************************************************************)
EXTENDS TimetableSync, TLAPS

\* A run keeps the snapshot of scraped rows only, as manual ones are not its business.
Snapshot == [id : Ids, source : {"scraped"}]
Context == [at : {"idle", "read", "write"},
            page : [Slots -> Courses \cup {NoCourse}],
            entries : [Slots -> Courses \cup {NoCourse}],
            seen : [Slots -> Snapshot \cup {NoRow}],
            todo : SUBSET Slots]

Typed ==
  /\ rows \in [Slots -> Row \cup {NoRow}]
  /\ run \in [Runs -> Context]
  /\ portal \in [Slots -> Courses \cup {NoCourse}]
  /\ moves \in Nat

\* A run synchronises the page it fetched, and deletes nothing it has not read.
Faithful ==
  \A r \in Runs :
    /\ run[r].entries = run[r].page
    /\ \A s \in run[r].todo : run[r].entries[s] = NoCourse => run[r].seen[s] # NoRow

\* The row a run has in mind was scraped when it was read, and as its identity is not
\* used again and no one turns a scraped row into a manual one, it still is.
SeenIsScraped ==
  \A r \in Runs, s \in Slots :
    run[r].seen[s] # NoRow /\ rows[s] # NoRow /\ rows[s].id = run[r].seen[s].id
      => rows[s].source = "scraped"

IInv == Typed /\ Faithful /\ SeenIsScraped

-------------------------------------------------------------------------------
LEMMA IdleTyped == Idle \in Context
BY DEF Idle, Context, NoPage, NoRows

LEMMA InitIInv == Init => IInv
<1> SUFFICES ASSUME Init PROVE IInv
  OBVIOUS
<1>1. Typed
  BY IdleTyped DEF Init, Typed, Pages, NoRows
<1>2. Faithful /\ SeenIsScraped
  BY DEF Init, Faithful, SeenIsScraped, Idle, NoPage, NoRows
<1> QED
  BY <1>1, <1>2 DEF IInv

\* A run that throws or crashes forgets everything.
LEMMA ThrowKeeps ==
  ASSUME NEW r \in Runs, IInv, Throw(r)
  PROVE  /\ run' \in [Runs -> Context]
         /\ Faithful'
         /\ \A q \in Runs, s \in Slots : run'[q].seen[s] # NoRow => run'[q].seen[s] = run[q].seen[s]
BY IdleTyped DEF IInv, Typed, Faithful, Throw, Idle, NoRows, NoPage

\* What a run still has in mind after a slot is done with, it had in mind before.
LEMMA DoneKeeps ==
  ASSUME NEW r \in Runs, NEW s \in Slots, IInv, DoneWith(r, s)
  PROVE  /\ run' \in [Runs -> Context]
         /\ Faithful'
         /\ \A q \in Runs, t \in Slots : run'[q].seen[t] # NoRow => run'[q].seen[t] = run[q].seen[t]
<1> DEFINE next == IF run[r].todo = {s} THEN Idle
                   ELSE [at |-> "write", page |-> [run[r].page EXCEPT ![s] = NoCourse],
                         entries |-> [run[r].entries EXCEPT ![s] = NoCourse],
                         seen |-> [run[r].seen EXCEPT ![s] = NoRow],
                         todo |-> run[r].todo \ {s}]
<1>1. run[r] \in Context /\ run' = [run EXCEPT ![r] = next]
  BY DEF IInv, Typed, DoneWith
<1>2. next \in Context
  BY <1>1, IdleTyped DEF Context
<1>3. /\ next.entries = next.page
      /\ \A t \in next.todo : next.entries[t] = NoCourse => next.seen[t] # NoRow
      /\ \A t \in Slots : next.seen[t] # NoRow => next.seen[t] = run[r].seen[t]
  <2>1. CASE run[r].todo = {s}
    BY <2>1 DEF Idle, NoPage, NoRows
  <2>2. CASE run[r].todo # {s}
    BY <1>1, <2>2 DEF IInv, Faithful, Context
  <2> QED
    BY <2>1, <2>2
<1> HIDE DEF next
<1> QED
  BY <1>1, <1>2, <1>3 DEF IInv, Typed, Faithful

\* A change of the rows keeps the invariant if the scraped rows that runs have in mind
\* stay scraped, and new rows have new identities.
LEMMA RowsChange ==
  ASSUME NEW s \in Slots, NEW row \in Row \cup {NoRow}, IInv,
         rows' = [rows EXCEPT ![s] = row],
         \/ row = NoRow
         \/ row.source = "scraped"
         \/ rows[s] # NoRow /\ row.id = rows[s].id /\ row.source = rows[s].source
         \/ \A q \in Runs : run[q].seen[s] # NoRow => row.id # run[q].seen[s].id,
         \A q \in Runs, t \in Slots : run'[q].seen[t] # NoRow => run'[q].seen[t] = run[q].seen[t]
  PROVE  SeenIsScraped'
BY DEF IInv, Typed, SeenIsScraped

\* The identity of a new row is known to no run.
LEMMA FreshIsNew ==
  ASSUME NEW s \in Slots, HasFresh(s)
  PROVE  /\ Fresh(s) \in Ids
         /\ \A q \in Runs : run[q].seen[s] # NoRow => Fresh(s) # run[q].seen[s].id
<1>1. Fresh(s) \in Ids /\ Fresh(s) \notin Remembered(s)
  BY DEF HasFresh, Fresh
<1> QED
  BY <1>1 DEF Remembered

LEMMA NewRowTyped ==
  ASSUME NEW s \in Slots, HasFresh(s), NEW c \in Courses, NEW src \in {"manual", "scraped"}
  PROVE  NewRow(s, c, src) \in Row
BY FreshIsNew DEF NewRow, Row

-------------------------------------------------------------------------------
(* Steps                                                                   *)

LEMMA FetchIInv ==
  ASSUME NEW r \in Runs, IInv, Fetch(r)
  PROVE  IInv'
<1> DEFINE next == [at |-> "read", page |-> portal, entries |-> portal,
                    seen |-> NoRows, todo |-> {}]
<1>1. next \in Context /\ next.entries = next.page /\ next.todo = {}
      /\ \A s \in Slots : next.seen[s] = NoRow
  BY DEF IInv, Typed, Context, Idle, NoPage, NoRows
<1>2. run' = [run EXCEPT ![r] = next] /\ UNCHANGED <<portal, rows, moves>>
  BY DEF Fetch, tableVars
<1> HIDE DEF next
<1> QED
  BY <1>1, <1>2 DEF IInv, Typed, Faithful, SeenIsScraped

LEMMA ReadIInv ==
  ASSUME NEW r \in Runs, IInv, Read(r)
  PROVE  IInv'
<1> DEFINE seen == [s \in Slots |-> Seen(rows[s])]
           todo == Plan(run[r].entries, seen)
           kept == [s \in Slots |-> IF s \in todo THEN seen[s] ELSE NoRow]
           next == IF todo = {} THEN Idle
                   ELSE [at |-> "write", page |-> run[r].page, entries |-> run[r].entries,
                         seen |-> kept, todo |-> todo]
<1>1. run' = [run EXCEPT ![r] = next] /\ UNCHANGED <<portal, rows, moves>>
  BY DEF Read, tableVars
<1>2. run[r] \in Context /\ run[r].entries = run[r].page
  BY DEF IInv, Typed, Faithful
<1>3. todo \subseteq Slots
  BY DEF Plan
<1>4. \A s \in Slots :
        /\ kept[s] \in Snapshot \cup {NoRow}
        /\ kept[s] # NoRow => rows[s] # NoRow /\ rows[s].source = "scraped"
        /\ s \in todo /\ run[r].entries[s] = NoCourse => kept[s] # NoRow
  <2> TAKE s \in Slots
  <2>1. CASE rows[s] = NoRow
    BY <2>1 DEF Seen, Plan
  <2>2. CASE rows[s] # NoRow
    <3>1. rows[s] \in Row
      BY <2>2 DEF IInv, Typed
    <3>2. seen[s] = [id |-> rows[s].id, source |-> rows[s].source]
      BY <2>2 DEF Seen
    <3>3. seen[s] # NoRow /\ seen[s].source = rows[s].source
      BY <3>1, <3>2, RowAssumption DEF Row
    <3>4. s \in todo <=> rows[s].source = "scraped"
      BY <3>3 DEF Plan
    <3> QED
      BY <2>2, <3>1, <3>2, <3>3, <3>4 DEF Row, Snapshot
  <2> QED
    BY <2>1, <2>2
<1>5. kept \in [Slots -> Snapshot \cup {NoRow}]
  BY <1>4
<1> HIDE DEF todo, kept
<1>6. next \in Context
  BY <1>2, <1>3, <1>5, IdleTyped DEF Context
<1>7. /\ next.entries = next.page
      /\ \A s \in next.todo : next.entries[s] = NoCourse => next.seen[s] # NoRow
      /\ \A s \in Slots : next.seen[s] # NoRow => rows[s].source = "scraped"
  <2>1. CASE todo = {}
    BY <2>1 DEF Idle, NoPage, NoRows
  <2>2. CASE todo # {}
    BY <1>2, <1>3, <1>4, <2>2 DEF Context
  <2> QED
    BY <2>1, <2>2
<1> HIDE DEF next
<1> QED
  BY <1>1, <1>6, <1>7 DEF IInv, Typed, Faithful, SeenIsScraped

LEMMA UpdateIInv ==
  ASSUME NEW r \in Runs, NEW s \in Slots, IInv, Update(r, s)
  PROVE  IInv'
<1>1. CASE StillThere(r, s)
  <2> DEFINE row == [rows[s] EXCEPT !.name = run[r].entries[s], !.source = "scraped"]
  <2>1. rows[s] \in Row /\ run[r].entries[s] \in Courses
    BY <1>1 DEF StillThere, IInv, Typed, Context, Update, Writing
  <2>2. rows' = [rows EXCEPT ![s] = row] /\ DoneWith(r, s) /\ UNCHANGED <<portal, moves>>
    BY <1>1 DEF Update, Write, tableVars
  <2>3. row \in Row /\ row.source = "scraped"
    BY <2>1 DEF Row
  <2> HIDE DEF row
  <2> QED
    BY <2>2, <2>3, DoneKeeps, RowsChange DEF IInv, Typed
<1>2. CASE ~StillThere(r, s)
  BY <1>2, ThrowKeeps DEF Update, IInv, Typed, SeenIsScraped, Write, tableVars
<1> QED
  BY <1>1, <1>2

LEMMA CreateIInv ==
  ASSUME NEW r \in Runs, NEW s \in Slots, IInv, Create(r, s)
  PROVE  IInv'
<1>1. CASE rows[s] = NoRow
  <2> DEFINE row == NewRow(s, run[r].entries[s], "scraped")
  <2>1. run[r].entries[s] \in Courses
    BY DEF IInv, Typed, Context, Create, Writing
  <2>2. rows' = [rows EXCEPT ![s] = row] /\ DoneWith(r, s) /\ UNCHANGED <<portal, moves>>
    BY <1>1 DEF Create, Write, tableVars
  <2>3. row \in Row /\ row.source = "scraped"
    BY <2>1, NewRowTyped DEF Create, NewRow
  <2> HIDE DEF row
  <2> QED
    BY <2>2, <2>3, DoneKeeps, RowsChange DEF IInv, Typed
<1>2. CASE rows[s] # NoRow
  BY <1>2, ThrowKeeps DEF Create, IInv, Typed, SeenIsScraped, Write, tableVars
<1> QED
  BY <1>1, <1>2

LEMMA PruneIInv ==
  ASSUME NEW r \in Runs, NEW s \in Slots, IInv, Prune(r, s)
  PROVE  IInv'
<1>1. CASE StillThere(r, s) /\ ~rows[s].logged
  BY <1>1, DoneKeeps, RowsChange DEF Prune, IInv, Typed, Write, tableVars
<1>2. CASE ~(StillThere(r, s) /\ ~rows[s].logged)
  BY <1>2, ThrowKeeps DEF Prune, IInv, Typed, SeenIsScraped, Write, tableVars
<1> QED
  BY <1>1, <1>2

LEMMA LinkIInv ==
  ASSUME NEW c \in Courses, IInv, Link(c)
  PROVE  /\ IInv'
         /\ \A s \in Slots : rows[s] # NoRow => /\ rows'[s] # NoRow
                                                /\ rows'[s].source = rows[s].source
                                                /\ rows'[s].name = rows[s].name
<1>1. /\ rows' \in [Slots -> Row \cup {NoRow}]
      /\ \A s \in Slots : IF rows[s] = NoRow THEN rows'[s] = NoRow
           ELSE rows'[s] \in Row /\ rows'[s].id = rows[s].id
                /\ rows'[s].source = rows[s].source /\ rows'[s].name = rows[s].name
  BY DEF Link, LinkRows, Present, Write, IInv, Typed, Row
<1>2. UNCHANGED <<run, portal, moves>>
  BY DEF Link, LinkRows, Present, Write
<1> QED
  BY <1>1, <1>2, RowAssumption DEF IInv, Typed, Faithful, SeenIsScraped

\* Steps of the user, a log or the portal: one row of a slot changes, or none.
LEMMA MoveIInv ==
  ASSUME NEW s \in Slots, IInv, UNCHANGED <<run, portal>>,
         moves' = moves + 1, NEW row \in Row \cup {NoRow},
         rows' = [rows EXCEPT ![s] = row],
         \/ row = NoRow
         \/ rows[s] # NoRow /\ row.id = rows[s].id /\ row.source = rows[s].source
         \/ \A q \in Runs : run[q].seen[s] # NoRow => row.id # run[q].seen[s].id
  PROVE  IInv'
<1>1. SeenIsScraped'
  BY RowsChange
<1>2. Typed' /\ Faithful'
  BY DEF IInv, Typed, Faithful
<1> QED
  BY <1>1, <1>2 DEF IInv

LEMMA PutIInv ==
  ASSUME NEW s \in Slots, NEW c \in Courses, IInv, Put(s, c)
  PROVE  IInv' /\ moves' # moves
<1>1. UNCHANGED <<run, portal>> /\ moves' = moves + 1 /\ moves' # moves
  BY DEF Put, Move, IInv, Typed
<1>2. CASE rows[s] = NoRow
  <2> DEFINE row == NewRow(s, c, "manual")
  <2>1. row \in Row /\ \A q \in Runs : run[q].seen[s] # NoRow => row.id # run[q].seen[s].id
    BY <1>2, NewRowTyped, FreshIsNew DEF Put, NewRow
  <2>2. rows' = [rows EXCEPT ![s] = row]
    BY <1>2 DEF Put, Write, tableVars
  <2> HIDE DEF row
  <2> QED
    BY <1>1, <2>1, <2>2, MoveIInv
<1>3. CASE rows[s] # NoRow
  <2> DEFINE row == [rows[s] EXCEPT !.name = c]
  <2>1. row \in Row /\ row.id = rows[s].id /\ row.source = rows[s].source
    BY <1>3 DEF IInv, Typed, Row
  <2>2. rows' = [rows EXCEPT ![s] = row]
    BY <1>3 DEF Put, Write, tableVars
  <2> HIDE DEF row
  <2> QED
    BY <1>1, <1>3, <2>1, <2>2, MoveIInv
<1> QED
  BY <1>2, <1>3

LEMMA DeleteIInv ==
  ASSUME NEW s \in Slots, IInv, Delete(s)
  PROVE  IInv' /\ moves' # moves
<1>1. UNCHANGED <<run, portal>> /\ moves' = moves + 1 /\ moves' # moves
  BY DEF Delete, Move, IInv, Typed
<1> QED
  BY <1>1, MoveIInv DEF Delete, Write, tableVars

LEMMA LogIInv ==
  ASSUME NEW s \in Slots, IInv, LogAttendance(s)
  PROVE  IInv' /\ moves' # moves
<1> DEFINE row == [rows[s] EXCEPT !.logged = TRUE]
<1>1. UNCHANGED <<run, portal>> /\ moves' = moves + 1 /\ moves' # moves
  BY DEF LogAttendance, Move, IInv, Typed
<1>2. rows[s] # NoRow /\ row \in Row /\ row.id = rows[s].id /\ row.source = rows[s].source
  BY DEF LogAttendance, IInv, Typed, Row
<1>3. rows' = [rows EXCEPT ![s] = row]
  BY DEF LogAttendance, Write, tableVars
<1> HIDE DEF row
<1> QED
  BY <1>1, <1>2, <1>3, MoveIInv

LEMMA PortalIInv ==
  ASSUME IInv, PortalChanges
  PROVE  IInv' /\ moves' # moves
BY DEF PortalChanges, Move, IInv, Typed, Faithful, SeenIsScraped, Pages, tableVars

LEMMA CrashIInv ==
  ASSUME NEW r \in Runs, IInv, Crash(r)
  PROVE  IInv' /\ moves' # moves
BY ThrowKeeps DEF Crash, Move, IInv, Typed, SeenIsScraped, tableVars

LEMMA NextIInv == IInv /\ [Next]_vars => IInv'
<1> SUFFICES ASSUME IInv, [Next]_vars PROVE IInv'
  OBVIOUS
<1>1. ASSUME NEW r \in Runs, SyncStep(r) PROVE IInv'
  BY <1>1, FetchIInv, ReadIInv, UpdateIInv, CreateIInv, PruneIInv DEF SyncStep
<1>2. ASSUME NEW r \in Runs, Crash(r) PROVE IInv'
  BY <1>2, CrashIInv
<1>3. ASSUME NEW found \in SUBSET Known, FetchSyllabi(found) PROVE IInv'
  BY <1>3 DEF FetchSyllabi, IInv, Typed, Faithful, SeenIsScraped, tableVars
<1>4. ASSUME NEW c \in Courses, Link(c) PROVE IInv'
  BY <1>4, LinkIInv
<1>5. ASSUME NEW s \in Slots, Delete(s) \/ LogAttendance(s) \/ \E c \in Courses : Put(s, c)
      PROVE  IInv'
  BY <1>5, DeleteIInv, LogIInv, PutIInv
<1>6. CASE PortalChanges
  BY <1>6, PortalIInv
<1>7. CASE UNCHANGED vars
  BY <1>7 DEF vars, tableVars, IInv, Typed, Faithful, SeenIsScraped
<1> QED
  BY <1>1, <1>2, <1>3, <1>4, <1>5, <1>6, <1>7 DEF Next

-------------------------------------------------------------------------------
(* What follows for a step that is not a move                              *)

\* The two steps that write a row a run has read find a scraped one, or throw.
LEMMA WritesScraped ==
  ASSUME NEW r \in Runs, NEW s \in Slots, IInv, StillThere(r, s), run[r].seen[s] # NoRow
  PROVE  rows[s].source = "scraped"
BY DEF StillThere, IInv, SeenIsScraped

LEMMA PruneReads ==
  ASSUME NEW r \in Runs, NEW s \in Slots, IInv, Prune(r, s)
  PROVE  run[r].seen[s] # NoRow /\ run[r].page[s] = NoCourse
BY DEF Prune, Writing, IInv, Faithful

ManualStep ==
  \A s \in Present : rows[s].source = "manual" =>
    /\ rows'[s] # NoRow
    /\ rows'[s].source = "manual" /\ rows'[s].name = rows[s].name

VanishedStep ==
  \A s \in Present : rows'[s] = NoRow =>
    \E r \in Runs : s \in run[r].todo /\ run[r].page[s] = NoCourse

LEMMA StepKeeps ==
  ASSUME IInv, [Next]_vars, moves' = moves
  PROVE  ManualStep /\ VanishedStep
<1>1. ASSUME UNCHANGED rows PROVE ManualStep /\ VanishedStep
  BY <1>1 DEF ManualStep, VanishedStep, Present
<1>2. ASSUME NEW r \in Runs, SyncStep(r) PROVE ManualStep /\ VanishedStep
  <2>1. CASE Fetch(r) \/ Read(r)
    BY <1>1, <2>1 DEF Fetch, Read, tableVars
  <2>2. ASSUME NEW s \in Slots, Update(r, s) PROVE ManualStep /\ VanishedStep
    <3>1. CASE StillThere(r, s)
      <4>1. run[r].seen[s] # NoRow /\ rows[s].source = "scraped"
        BY <2>2, <3>1, WritesScraped DEF Update
      <4>2. rows[s] \in Row /\ run[r].entries[s] \in Courses
        BY <2>2, <3>1
        DEF Update, Writing, StillThere, IInv, Typed, Context
      <4> DEFINE row == [rows[s] EXCEPT !.name = run[r].entries[s], !.source = "scraped"]
      <4>3. row \in Row
        BY <4>2 DEF Row
      <4>4. rows' = [rows EXCEPT ![s] = row]
        BY <2>2, <3>1 DEF Update, Write, tableVars
      <4> HIDE DEF row
      <4>5. rows'[s] \in Row /\ \A t \in Slots \ {s} : rows'[t] = rows[t]
        BY <4>3, <4>4 DEF IInv, Typed
      <4> QED
        BY <4>1, <4>5, RowAssumption DEF ManualStep, VanishedStep, Present
    <3> QED
      BY <1>1, <2>2, <3>1 DEF Update, Write, tableVars
  <2>3. ASSUME NEW s \in Slots, Create(r, s) PROVE ManualStep /\ VanishedStep
    <3>1. CASE rows[s] = NoRow
      BY <2>3, <3>1 DEF Create, ManualStep, VanishedStep, Present, IInv, Typed, Write, tableVars
    <3> QED
      BY <1>1, <2>3, <3>1 DEF Create, Write, tableVars
  <2>4. ASSUME NEW s \in Slots, Prune(r, s) PROVE ManualStep /\ VanishedStep
    <3>1. CASE StillThere(r, s) /\ ~rows[s].logged
      <4>1. rows[s].source = "scraped" /\ s \in run[r].todo /\ run[r].page[s] = NoCourse
        BY <2>4, <3>1, WritesScraped, PruneReads DEF Prune
      <4>2. \A t \in Slots \ {s} : rows'[t] = rows[t]
        BY <2>4, <3>1 DEF Prune, IInv, Typed, Write, tableVars
      <4> QED
        BY <4>1, <4>2 DEF ManualStep, VanishedStep, Present
    <3> QED
      BY <1>1, <2>4, <3>1 DEF Prune, Write, tableVars
  <2> QED
    BY <1>2, <2>1, <2>2, <2>3, <2>4 DEF SyncStep
<1>3. ASSUME NEW r \in Runs, Crash(r) PROVE FALSE
  BY <1>3, CrashIInv
<1>4. ASSUME NEW found \in SUBSET Known, FetchSyllabi(found) PROVE ManualStep /\ VanishedStep
  BY <1>1, <1>4 DEF FetchSyllabi, tableVars
<1>5. ASSUME NEW c \in Courses, Link(c) PROVE ManualStep /\ VanishedStep
  BY <1>5, LinkIInv DEF ManualStep, VanishedStep, Present
<1>6. ASSUME NEW s \in Slots, Delete(s) \/ LogAttendance(s) \/ \E c \in Courses : Put(s, c)
      PROVE  FALSE
  BY <1>6, DeleteIInv, LogIInv, PutIInv
<1>7. CASE PortalChanges
  BY <1>7, PortalIInv
<1>8. CASE UNCHANGED vars
  BY <1>1, <1>8 DEF vars, tableVars
<1> QED
  BY <1>2, <1>3, <1>4, <1>5, <1>6, <1>7, <1>8 DEF Next

-------------------------------------------------------------------------------
(* What the syllabus sync links                                            *)

LinkerTyped ==
  /\ had \in [Slots -> SUBSET Courses]
  /\ linker.ids \in [Courses -> SUBSET (Slots \X Ids)]

\* A row has had its name; a row of the linker's snapshot that is still there has had
\* the name it was read under, as its identity was not given to another meanwhile.
SnapshotKnown ==
  \A s \in Present :
    /\ rows[s].name \in had[s]
    /\ \A c \in Courses : <<s, rows[s].id>> \in linker.ids[c] => c \in had[s]

LInv == LinkerTyped /\ SnapshotKnown /\ LinkIsEarned

LEMMA InitLInv == Init => LInv
BY DEF Init, LInv, LinkerTyped, SnapshotKnown, LinkIsEarned, Present, NotLinking, NoRows

\* One row is written, and the linker is not involved.
LEMMA WriteLInv ==
  ASSUME NEW s \in Slots, NEW row \in Row \cup {NoRow}, IInv, LInv,
         Write([rows EXCEPT ![s] = row]), UNCHANGED linker,
         \/ row = NoRow
         \/ rows[s] # NoRow /\ row.id = rows[s].id /\ row.syllabus = rows[s].syllabus
         \/ /\ row.syllabus = NoCourse
            /\ \A c \in Courses : <<s, row.id>> \notin linker.ids[c]
  PROVE  LInv'
<1>1. /\ rows' = [rows EXCEPT ![s] = row]
      /\ rows'[s] = row /\ \A t \in Slots \ {s} : rows'[t] = rows[t]
  BY DEF Write, IInv, Typed
<1>2. had' = [t \in Slots |-> IF rows'[t] = NoRow THEN {} ELSE had[t] \cup {rows'[t].name}]
  BY DEF Write
<1>3. \A t \in Slots : rows'[t] # NoRow => rows'[t].name \in Courses
  BY <1>1 DEF IInv, Typed, Row
<1>4. LinkerTyped'
  BY <1>2, <1>3 DEF LInv, LinkerTyped
<1>5. SnapshotKnown' /\ LinkIsEarned'
  BY <1>1, <1>2 DEF LInv, LinkerTyped, SnapshotKnown, LinkIsEarned, Present
<1> QED
  BY <1>4, <1>5 DEF LInv

\* A new row is in no snapshot.
LEMMA FreshIsUnread ==
  ASSUME NEW s \in Slots, HasFresh(s)
  PROVE  \A c \in Courses : <<s, Fresh(s)>> \notin linker.ids[c]
<1>1. Fresh(s) \in Ids /\ Fresh(s) \notin Remembered(s)
  BY DEF HasFresh, Fresh
<1> QED
  BY <1>1 DEF Remembered

LEMMA SyncLInv ==
  ASSUME NEW r \in Runs, IInv, LInv, SyncStep(r)
  PROVE  LInv'
<1>1. ASSUME UNCHANGED <<rows, had, linker>> PROVE LInv'
  BY <1>1 DEF LInv, LinkerTyped, SnapshotKnown, LinkIsEarned, Present
<1>2. CASE Fetch(r) \/ Read(r)
  BY <1>1, <1>2 DEF Fetch, Read, tableVars
<1>3. ASSUME NEW s \in Slots, Update(r, s) PROVE LInv'
  <2>1. CASE StillThere(r, s)
    <3> DEFINE row == [rows[s] EXCEPT !.name = run[r].entries[s], !.source = "scraped"]
    <3>1. rows[s] \in Row /\ run[r].entries[s] \in Courses
      BY <1>3, <2>1 DEF StillThere, IInv, Typed, Context, Update, Writing
    <3>2. Write([rows EXCEPT ![s] = row]) /\ UNCHANGED linker
      BY <1>3, <2>1 DEF Update
    <3>3. row \in Row /\ row.id = rows[s].id /\ row.syllabus = rows[s].syllabus
      BY <3>1 DEF Row
    <3> HIDE DEF row
    <3> QED
      BY <2>1, <3>2, <3>3, WriteLInv DEF StillThere
  <2> QED
    BY <1>1, <1>3, <2>1 DEF Update, tableVars
<1>4. ASSUME NEW s \in Slots, Create(r, s) PROVE LInv'
  <2>1. CASE rows[s] = NoRow
    <3> DEFINE row == NewRow(s, run[r].entries[s], "scraped")
    <3>1. run[r].entries[s] \in Courses /\ HasFresh(s)
      BY <1>4 DEF IInv, Typed, Context, Create, Writing
    <3>2. Write([rows EXCEPT ![s] = row]) /\ UNCHANGED linker
      BY <1>4, <2>1 DEF Create
    <3>3. row \in Row /\ row.id = Fresh(s) /\ row.syllabus = NoCourse
      BY <3>1, NewRowTyped DEF NewRow
    <3> HIDE DEF row
    <3> QED
      BY <3>1, <3>2, <3>3, WriteLInv, FreshIsUnread
  <2> QED
    BY <1>1, <1>4, <2>1 DEF Create, tableVars
<1>5. ASSUME NEW s \in Slots, Prune(r, s) PROVE LInv'
  <2>1. CASE StillThere(r, s) /\ ~rows[s].logged
    BY <1>5, <2>1, WriteLInv DEF Prune
  <2> QED
    BY <1>1, <1>5, <2>1 DEF Prune, tableVars
<1> QED
  BY <1>2, <1>3, <1>4, <1>5 DEF SyncStep

\* The identities of the snapshot are those of rows that have the course's name.
LEMMA FetchLInv ==
  ASSUME NEW found \in SUBSET Known, IInv, LInv, FetchSyllabi(found)
  PROVE  LInv'
<1> DEFINE named(c) == {<<s, rows[s].id>> : s \in {t \in Present : rows[t].name = c}}
           todo == {c \in found : named(c) # {}}
<1>1. /\ UNCHANGED <<rows, had>>
      /\ linker'.ids = [c \in Courses |-> IF c \in todo THEN named(c) ELSE {}]
  BY DEF FetchSyllabi, tableVars
<1>2. \A c \in Courses : linker'.ids[c] \in SUBSET named(c)
  BY <1>1
<1>3. \A c : named(c) \in SUBSET (Slots \X Ids)
  BY DEF IInv, Typed, Present, Row
<1>4. \A c \in Courses, s \in Present :
        <<s, rows[s].id>> \in linker'.ids[c] => rows[s].name = c
  BY <1>2
<1>5. linker'.ids \in [Courses -> SUBSET (Slots \X Ids)]
  <2> HIDE DEF named
  <2> QED
    BY <1>1, <1>3
<1> QED
  BY <1>1, <1>4, <1>5 DEF LInv, LinkerTyped, SnapshotKnown, LinkIsEarned, Present

LEMMA LinkLInv ==
  ASSUME NEW c \in Courses, IInv, LInv, Link(c)
  PROVE  LInv'
<1> DEFINE linked == {s \in Present : <<s, rows[s].id>> \in linker.ids[c]}
<1>1. /\ rows' = [s \in Slots |->
                    IF s \in linked THEN [rows[s] EXCEPT !.syllabus = c] ELSE rows[s]]
      /\ had' = [s \in Slots |-> IF rows'[s] = NoRow THEN {} ELSE had[s] \cup {rows'[s].name}]
  BY DEF Link, LinkRows, Write
<1>2. /\ linker'.ids \in [Courses -> SUBSET (Slots \X Ids)]
      /\ \A b \in Courses : linker'.ids[b] \subseteq linker.ids[b]
  <2>1. CASE linker.todo = {c}
    BY <2>1 DEF Link, LinkRows, NotLinking
  <2>2. CASE linker.todo # {c}
    <3>1. linker'.ids = [linker.ids EXCEPT ![c] = {}]
      BY <2>2 DEF Link, LinkRows
    <3> QED
      BY <3>1 DEF LInv, LinkerTyped
  <2> QED
    BY <2>1, <2>2
<1>3. \A s \in Slots :
        IF rows[s] = NoRow THEN rows'[s] = NoRow
        ELSE /\ rows'[s] \in Row /\ rows'[s].id = rows[s].id /\ rows'[s].name = rows[s].name
             /\ rows'[s].syllabus = IF s \in linked THEN c ELSE rows[s].syllabus
  BY <1>1 DEF IInv, Typed, Row, Present
<1>4. \A s \in Present : s \in linked => c \in had[s]
  BY DEF LInv, SnapshotKnown
<1> HIDE DEF linked
<1>5. \A s \in Slots : rows'[s] # NoRow <=> rows[s] # NoRow
  BY <1>3, RowAssumption
<1>6. Present' = Present
  BY <1>5 DEF Present
<1>7. \A s \in Present : had'[s] = had[s] /\ rows[s].name \in had[s]
  <2> TAKE s \in Present
  <2>1. s \in Slots /\ rows[s] # NoRow /\ rows[s].name \in had[s]
    BY DEF LInv, SnapshotKnown, Present
  <2>2. had'[s] = had[s] \cup {rows[s].name}
    BY <1>1, <1>3, <1>5, <2>1
  <2> QED
    BY <2>1, <2>2
<1>8. LinkerTyped'
  <2>1. \A s \in Slots : rows'[s] # NoRow => rows'[s].name \in Courses
    BY <1>3, <1>5 DEF Row
  <2>2. had' \in [Slots -> SUBSET Courses]
    BY <1>1, <2>1 DEF LInv, LinkerTyped
  <2> QED
    BY <1>2, <2>2 DEF LinkerTyped
<1>9. SnapshotKnown' /\ LinkIsEarned'
  BY <1>2, <1>3, <1>4, <1>6, <1>7 DEF LInv, SnapshotKnown, LinkIsEarned, Present
<1> QED
  BY <1>8, <1>9 DEF LInv

LEMMA MoveLInv ==
  ASSUME NEW s \in Slots, IInv, LInv,
         Delete(s) \/ LogAttendance(s) \/ \E c \in Courses : Put(s, c)
  PROVE  LInv'
<1>1. CASE Delete(s)
  BY <1>1, WriteLInv DEF Delete
<1>2. CASE LogAttendance(s)
  <2> DEFINE row == [rows[s] EXCEPT !.logged = TRUE]
  <2>1. rows[s] # NoRow /\ Write([rows EXCEPT ![s] = row]) /\ UNCHANGED linker
    BY <1>2 DEF LogAttendance
  <2>2. row \in Row /\ row.id = rows[s].id /\ row.syllabus = rows[s].syllabus
    BY <2>1 DEF IInv, Typed, Row
  <2> HIDE DEF row
  <2> QED
    BY <2>1, <2>2, WriteLInv
<1>3. ASSUME NEW c \in Courses, Put(s, c) PROVE LInv'
  <2>1. CASE rows[s] = NoRow
    <3> DEFINE row == NewRow(s, c, "manual")
    <3>1. HasFresh(s) /\ Write([rows EXCEPT ![s] = row]) /\ UNCHANGED linker
      BY <1>3, <2>1 DEF Put
    <3>2. row \in Row /\ row.id = Fresh(s) /\ row.syllabus = NoCourse
      BY <3>1, NewRowTyped DEF NewRow
    <3> HIDE DEF row
    <3> QED
      BY <3>1, <3>2, WriteLInv, FreshIsUnread
  <2>2. CASE rows[s] # NoRow
    <3> DEFINE row == [rows[s] EXCEPT !.name = c]
    <3>1. Write([rows EXCEPT ![s] = row]) /\ UNCHANGED linker
      BY <1>3, <2>2 DEF Put
    <3>2. row \in Row /\ row.id = rows[s].id /\ row.syllabus = rows[s].syllabus
      BY <2>2 DEF IInv, Typed, Row
    <3> HIDE DEF row
    <3> QED
      BY <2>2, <3>1, <3>2, WriteLInv
  <2> QED
    BY <2>1, <2>2
<1> QED
  BY <1>1, <1>2, <1>3

LEMMA NextLInv == IInv /\ LInv /\ [Next]_vars => LInv'
<1> SUFFICES ASSUME IInv, LInv, [Next]_vars PROVE LInv'
  OBVIOUS
<1>1. ASSUME UNCHANGED <<tableVars, linker>> PROVE LInv'
  BY <1>1 DEF tableVars, LInv, LinkerTyped, SnapshotKnown, LinkIsEarned, Present
<1>2. ASSUME NEW r \in Runs, Crash(r) PROVE LInv'
  BY <1>1, <1>2 DEF Crash
<1>3. CASE PortalChanges \/ UNCHANGED vars
  BY <1>1, <1>3 DEF PortalChanges, vars
<1> QED
  BY <1>2, <1>3, SyncLInv, FetchLInv, LinkLInv, MoveLInv DEF Next

-------------------------------------------------------------------------------
(* Theorems                                                                *)

\* syncTimetable decides on a snapshot and writes later, but it never renames, takes
\* over or deletes a row with source "manual", however many runs and edits interleave.
THEOREM ManualRowsSurvive == Spec => ManualRowKept
<1>1. IInv /\ [Next]_vars => [moves' = moves => ManualStep]_vars
  BY StepKeeps
<1> QED
  BY InitIInv, NextIInv, <1>1, PTL DEF Spec, ManualRowKept, ManualStep

\* A row goes only in a run whose own page was without the class: neither an empty page
\* nor another run makes syncTimetable delete anything else.
THEOREM OnlyVanishedGo == Spec => OnlyVanishedRemoved
<1>1. IInv /\ [Next]_vars => [moves' = moves => VanishedStep]_vars
  BY StepKeeps
<1> QED
  BY InitIInv, NextIInv, <1>1, PTL DEF Spec, OnlyVanishedRemoved, VanishedStep

\* updateMany links by the identities read before the fetch: however the timetable is
\* edited and synchronised meanwhile, no row is linked to a course it has never been.
THEOREM LinksAreEarned == Spec => []LinkIsEarned
<1>1. LInv => LinkIsEarned
  BY DEF LInv
<1> QED
  BY InitIInv, NextIInv, InitLInv, NextLInv, <1>1, PTL DEF Spec
===============================================================================
