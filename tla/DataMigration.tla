---------------------------- MODULE DataMigration ----------------------------
(***************************************************************************)
(* DataMigrationService.run of apps/api/src/migrations/                    *)
(* data-migration.service.ts and copyTable of the four drivers: the tables *)
(* of one database copied into another, page by page, while the source is  *)
(* in use.                                                                 *)
(*                                                                         *)
(* A row is a number, its key; row r of a table refers to row r of every   *)
(* table it has a foreign key to.  Reading a page and writing it are two   *)
(* statements on two databases.  MySQL and Postgres commit every batch;    *)
(* SQL Server and Oracle copy a table in one transaction.                  *)
(***************************************************************************)
EXTENDS Naturals, Sequences, FiniteSets, FiniteSetsExt, SequencesExt, TableOrder

CONSTANTS
    Tables,
    Rows,        \* keys of rows, positive numbers
    SourceRows,  \* the source at the start: rows in physical order
    OldRows,     \* rows of the tables that exist on the target
    Jobs,        \* the migrations that may be asked for (see JobOK)
    Batch,       \* BATCH
    MaxWrites    \* bound: changes of the source during the run

\* keys: a primary key of one column (keyset paging), of several (OFFSET
\* paging), or none; existing: tables the target has; privileged: Postgres
\* lets the session turn foreign keys off.
JobOK(j) ==
    /\ j.engine \in {"mysql", "postgres", "sqlserver", "oracle"}
    /\ j.fks \subseteq Tables \X Tables
    /\ j.keys \in [Tables -> {"single", "composite", "none"}]
    /\ j.existing \subseteq Tables
    /\ j.selected \in Seq(Tables) /\ IsInjective(j.selected)
    /\ j.conflict \in {"skip", "upsert", "truncate"}
    /\ {j.privileged, j.createTables, j.skipValidation} \subseteq BOOLEAN
    /\ \A f \in j.fks : Range(SourceRows[f[1]]) \subseteq Range(SourceRows[f[2]])

ASSUME DataMigrationAssumption ==
    /\ IsFiniteSet(Rows) /\ Rows \subseteq Nat \ {0}
    /\ SourceRows \in [Tables -> Seq(Rows)] /\ \A t \in Tables : IsInjective(SourceRows[t])
    /\ OldRows \in [Tables -> SUBSET Rows]
    /\ \A j \in Jobs : JobOK(j)
    /\ Batch \in Nat \ {0} /\ MaxWrites \in Nat

VARIABLES
    job,       \* the request
    blocked,   \* the validation finds a BLOCKER
    source,    \* the source: rows of each table in physical order
    writes,    \* how often it has changed since the run started
    present,   \* tables on the target
    old,       \* their rows from before the run
    copies,    \* how often a row was inserted by the run
    before,    \* old and copies when the transaction began
    pc,        \* where the run is
    order,     \* ordered
    queue,     \* tables still to copy
    cur,       \* table
    last,      \* key of the last row copied
    offset,
    page,      \* the rows read and not yet written
    copied,
    report,
    stable,    \* history: rows in the source from the copy's start to its end or now
    touched,   \* history: tables changed while they were copied
    refused    \* history: tables with an INSERT that broke a foreign key

target == <<present, old, copies>>
paging == <<last, offset, page, copied>>
vars == <<job, blocked, source, writes, target, before, pc, order, queue, cur, paging,
          report, stable, touched, refused>>

NotYet == [status |-> "none", copied |-> 0, sourceRows |-> 0, targetRows |-> 0]
PcValues == {"gate", "open", "table", "truncate", "read", "write", "count", "done", "error"}

TypeOK ==
    /\ job \in Jobs /\ blocked \in BOOLEAN
    /\ \A t \in Tables : IsInjective(source[t]) /\ Range(source[t]) \subseteq Rows
    /\ writes \in 0..MaxWrites
    /\ present \subseteq Tables
    /\ old \in [Tables -> SUBSET Rows]
    /\ copies \in [Tables -> [Rows -> Nat]]
    /\ pc \in PcValues
    /\ Range(order) \cup Range(queue) \cup {cur} \subseteq Tables
    /\ last \in Rows \cup {0} /\ offset \in Nat /\ copied \in Nat
    /\ Range(page) \subseteq Rows /\ Len(page) <= Batch
    /\ \A t \in Tables : report[t].status \in {"none", "done", "error"}
    /\ stable \in [Tables -> SUBSET Rows]
    /\ touched \subseteq Tables /\ refused \subseteq Tables

Init ==
    /\ job \in Jobs /\ blocked \in BOOLEAN
    /\ source = SourceRows
    /\ writes = 0
    /\ present = job.existing
    /\ old = [t \in Tables |-> IF t \in job.existing THEN OldRows[t] ELSE {}]
    /\ copies = [t \in Tables |-> [r \in Rows |-> 0]]
    /\ before = [old |-> {}, copies |-> [r \in Rows |-> 0]]
    /\ pc = "gate"
    /\ order = <<>> /\ queue = <<>>
    /\ cur \in {job.selected[1]}
    /\ last = 0 /\ offset = 0 /\ page = <<>> /\ copied = 0
    /\ report = [t \in Tables |-> NotYet]
    /\ stable = [t \in Tables |-> {}]
    /\ touched = {} /\ refused = {}

-----------------------------------------------------------------------------
Keyset(t) == job.keys[t] = "single"
Keyed(t) == job.keys[t] # "none"
OneTransaction == job.engine \in {"sqlserver", "oracle"}
FkEnforced == job.engine \in {"sqlserver", "oracle"}
              \/ (job.engine = "postgres" /\ ~job.privileged)

\* The foreign keys of the target: a table the run creates gets none.
TargetFks == {f \in job.fks : f[1] # f[2] /\ {f[1], f[2]} \subseteq job.existing}

OnTarget(t, r) == r \in old[t] \/ copies[t][r] > 0
Referenced(t, rs) ==
    FkEnforced /\ \E f \in TargetFks : f[2] = t /\ \E r \in rs : OnTarget(f[1], r)
ParentMissing(t, rs) ==
    FkEnforced /\ \E f \in TargetFks : f[1] = t /\ \E r \in rs : ~OnTarget(f[2], r)

\* A row inserted twice is there twice.
TargetCount(t) == Cardinality(old[t]) + Cardinality(UNION {{r} \X (1..copies[t][r]) : r \in Rows})

-----------------------------------------------------------------------------
(* The gate and the start                                                  *)

\* No validation, or no BLOCKER, or the validation itself fails.
GatePasses ==
    /\ pc = "gate"
    /\ pc' = "open"
    /\ UNCHANGED <<job, blocked, source, writes, target, before, order, queue, cur, paging,
                   report, stable, touched, refused>>

GateBlocks ==
    /\ pc = "gate"
    /\ ~job.skipValidation /\ blocked
    /\ pc' = "error"
    /\ UNCHANGED <<job, blocked, source, writes, target, before, order, queue, cur, paging,
                   report, stable, touched, refused>>

\* Both databases are open: order the tables by the foreign keys between them.
Start ==
    /\ pc = "open"
    /\ order' = TopoOrder(job.selected, job.fks)
    /\ queue' = order'
    /\ pc' = "table"
    /\ UNCHANGED <<job, blocked, source, writes, target, before, cur, paging,
                   report, stable, touched, refused>>

\* A connection cannot be opened, or its engine is not the other's.
StartFails ==
    /\ pc = "open"
    /\ pc' = "error"
    /\ UNCHANGED <<job, blocked, source, writes, target, before, order, queue, cur, paging,
                   report, stable, touched, refused>>

-----------------------------------------------------------------------------
(* One table                                                               *)

\* A table that throws is reported and the next one follows.
Fail ==
    /\ report' = [report EXCEPT ![cur] = [NotYet EXCEPT !.status = "error"]]
    /\ pc' = "table"

\* The next table; the target gets it when it has not had it from the start.
NextTable ==
    /\ pc = "table"
    /\ queue # <<>>
    /\ cur' = Head(queue)
    /\ queue' = Tail(queue)
    /\ present' = IF job.createTables THEN present \cup {cur'} ELSE present
    /\ pc' = "truncate"
    /\ UNCHANGED <<job, blocked, source, writes, old, copies, before, order, paging,
                   report, stable, touched, refused>>

\* CREATE TABLE is refused, or the source no longer has the table.
CreateFails ==
    /\ pc = "table"
    /\ queue # <<>>
    /\ job.createTables /\ Head(queue) \notin job.existing
    /\ cur' = Head(queue)
    /\ queue' = Tail(queue)
    /\ report' = [report EXCEPT ![cur'] = [NotYet EXCEPT !.status = "error"]]
    /\ UNCHANGED <<job, blocked, source, writes, target, before, pc, order, paging,
                   stable, touched, refused>>

\* A name assertIdent refuses ends the whole run.
InvalidName ==
    /\ pc = "table"
    /\ queue # <<>>
    /\ pc' = "error"
    /\ UNCHANGED <<job, blocked, source, writes, target, before, order, queue, cur, paging,
                   report, stable, touched, refused>>

Finish ==
    /\ pc = "table"
    /\ queue = <<>>
    /\ pc' = "done"
    /\ UNCHANGED <<job, blocked, source, writes, target, before, order, queue, cur, paging,
                   report, stable, touched, refused>>

BeginCopy ==
    /\ pc' = "read"
    /\ last' = 0 /\ offset' = 0 /\ page' = <<>> /\ copied' = 0
    /\ stable' = [stable EXCEPT ![cur] = Range(source[cur])]
    /\ before' = [old |-> old'[cur], copies |-> copies'[cur]]

\* Mutant: a table is emptied in every mode.
EmptyTableAlways ==
    /\ pc = "truncate"
    /\ ~Referenced(cur, Rows)
    /\ old' = [old EXCEPT ![cur] = {}]
    /\ copies' = [copies EXCEPT ![cur] = [r \in Rows |-> 0]]
    /\ BeginCopy
    /\ UNCHANGED <<job, blocked, source, writes, present, order, queue, cur, report,
                   touched, refused>>

\* In truncate mode the table is emptied first, outside any transaction.
EmptyTable ==
    /\ pc = "truncate"
    /\ IF job.conflict = "truncate"
       THEN /\ cur \in present
            /\ ~Referenced(cur, Rows)
            /\ old' = [old EXCEPT ![cur] = {}]
            /\ copies' = [copies EXCEPT ![cur] = [r \in Rows |-> 0]]
       ELSE UNCHANGED <<old, copies>>
    /\ BeginCopy
    /\ UNCHANGED <<job, blocked, source, writes, present, order, queue, cur, report,
                   touched, refused>>

EmptyTableFails ==
    /\ pc = "truncate"
    /\ job.conflict = "truncate"
    /\ Fail
    /\ UNCHANGED <<job, blocked, source, writes, target, before, order, queue, cur, paging,
                   stable, touched, refused>>

-----------------------------------------------------------------------------
(* copyTable                                                               *)

\* The first n rows.
FirstOf(n, s) == SubSeq(s, 1, IF n < Len(s) THEN n ELSE Len(s))

\* WHERE key > last ORDER BY key LIMIT batch: the first rows after the last key.
KeysetPage(t) ==
    LET later == {r \in Range(source[t]) : r > last} IN
    CHOOSE rows \in BoundedSeq(later, Batch) :
        /\ \A i, j \in DOMAIN rows : i < j => rows[i] < rows[j]
        /\ \A r \in later \ Range(rows) : Len(rows) = Batch /\ \A q \in Range(rows) : q < r

\* Mutant: a page further on.
OffsetPageNext(t) ==
    FirstOf(Batch, SubSeq(source[t], offset + 2, Len(source[t])))

\* LIMIT / OFFSET in physical order.
OffsetPage(t) ==
    FirstOf(Batch, SubSeq(source[t], offset + 1, Len(source[t])))

ReadPage ==
    /\ pc = "read"
    /\ page' = IF Keyset(cur) THEN KeysetPage(cur) ELSE OffsetPage(cur)
    /\ pc' = IF page' = <<>> THEN "count" ELSE "write"
    /\ UNCHANGED <<job, blocked, source, writes, target, before, order, queue, cur,
                   last, offset, copied, report, stable, touched, refused>>

\* INSERT without a conflict clause, or one without a key to conflict on.
Plain(t) == job.conflict = "truncate" \/ ~Keyed(t)
NewOnes(t, rs) == {r \in rs : ~OnTarget(t, r)}

\* Does the statement break a key or a foreign key?  Oracle replaces rows by
\* deleting them.
Violates(t, rs) ==
    \/ Plain(t) /\ Keyed(t) /\ NewOnes(t, rs) # rs
    \/ ParentMissing(t, NewOnes(t, rs))
    \/ /\ job.engine = "oracle" /\ Keyed(t) /\ job.conflict = "upsert"
       /\ Referenced(t, rs \ NewOnes(t, rs))

\* How often row r is there after the batch rs.
CopiesAfter(t, rs, r) ==
    CASE r \notin rs -> copies[t][r]
      [] r \in rs /\ Plain(t) -> copies[t][r] + 1
      [] r \in rs /\ ~Plain(t) /\ job.conflict = "upsert" -> 1
      [] r \in rs /\ ~Plain(t) /\ job.conflict = "skip" ->
            IF OnTarget(t, r) THEN copies[t][r] ELSE 1

OldAfter(t, rs) == IF ~Plain(t) /\ job.conflict = "upsert" THEN old[t] \ rs ELSE old[t]

\* A full page is followed by another one.
AfterPage == IF Len(page) < Batch THEN "count" ELSE "read"

WritePage ==
    LET rs == Range(page) IN
    /\ pc = "write"
    /\ cur \in present
    /\ ~Violates(cur, rs)
    /\ copies' = [copies EXCEPT ![cur] = [r \in Rows |-> CopiesAfter(cur, rs, r)]]
    /\ old' = [old EXCEPT ![cur] = OldAfter(cur, rs)]
    /\ copied' = copied + Len(page)
    /\ last' = page[Len(page)]
    /\ offset' = offset + Len(page)
    /\ pc' = AfterPage
    /\ UNCHANGED <<job, blocked, source, writes, present, before, order, queue, cur, page,
                   report, stable, touched, refused>>

\* Mutant: batches stay although the table failed.
CopyFailsKeeps ==
    /\ pc \in {"read", "write"}
    /\ refused' = refused
    /\ Fail
    /\ UNCHANGED <<job, blocked, source, writes, target, before, order, queue, cur,
                   paging, stable, touched>>

\* A statement is refused or fails: what is in a transaction is rolled back.
CopyFails ==
    /\ pc \in {"read", "write"}
    /\ IF OneTransaction
       THEN /\ old' = [old EXCEPT ![cur] = before.old]
            /\ copies' = [copies EXCEPT ![cur] = before.copies]
       ELSE UNCHANGED <<old, copies>>
    /\ refused' = IF pc = "write" /\ cur \in present
                     /\ ParentMissing(cur, NewOnes(cur, Range(page)))
                  THEN refused \cup {cur} ELSE refused
    /\ Fail
    /\ UNCHANGED <<job, blocked, source, writes, present, before, order, queue, cur,
                   paging, stable, touched>>

\* The copy is in: both sides are counted for the report.
CountRows ==
    /\ pc = "count"
    /\ cur \in present
    /\ report' = [report EXCEPT ![cur] =
            [status |-> "done", copied |-> copied,
             sourceRows |-> Len(source[cur]), targetRows |-> TargetCount(cur)]]
    /\ pc' = "table"
    /\ UNCHANGED <<job, blocked, source, writes, target, before, order, queue, cur, paging,
                   stable, touched, refused>>

CountFails ==
    /\ pc = "count"
    /\ Fail
    /\ UNCHANGED <<job, blocked, source, writes, target, before, order, queue, cur,
                   paging, stable, touched, refused>>

-----------------------------------------------------------------------------
(* The source is in use                                                    *)

Running == pc \notin {"gate", "done", "error"}
Copying(t) == cur = t /\ pc \in {"read", "write", "count"}

SourceWrite(t, rows) ==
    /\ Running
    /\ writes < MaxWrites
    /\ writes' = writes + 1
    /\ source' = [source EXCEPT ![t] = rows]
    /\ stable' = [stable EXCEPT ![t] =
            IF Copying(t) THEN @ \cap Range(rows) ELSE @]
    /\ touched' = IF Copying(t) THEN touched \cup {t} ELSE touched
    /\ UNCHANGED <<job, blocked, target, before, pc, order, queue, cur, paging, report, refused>>

SourceDelete(t, i) ==
    /\ \A f \in job.fks : f[2] = t /\ f[1] # t => source[t][i] \notin Range(source[f[1]])
    /\ SourceWrite(t, RemoveAt(source[t], i))

\* A new row may take the place of a deleted one anywhere in the table.
SourceInsert(t, i, r) ==
    /\ r \notin Range(source[t])
    /\ \A f \in job.fks : f[1] = t /\ f[2] # t => r \in Range(source[f[2]])
    /\ SourceWrite(t, InsertAt(source[t], i, r))

RunStep ==
    \/ GatePasses \/ GateBlocks \/ Start \/ StartFails
    \/ NextTable \/ CreateFails \/ InvalidName \/ Finish
    \/ EmptyTable \/ EmptyTableFails
    \/ ReadPage \/ WritePage \/ CopyFails \/ CountRows \/ CountFails

SourceStep ==
    \E t \in Tables :
        \/ \E i \in DOMAIN source[t] : SourceDelete(t, i)
        \/ \E i \in 1..(Len(source[t]) + 1), r \in Rows : SourceInsert(t, i, r)

\* The event stream has ended.
Ended == pc \in {"done", "error"} /\ UNCHANGED vars

Next == RunStep \/ SourceStep \/ Ended

Spec == Init /\ [][Next]_vars

-----------------------------------------------------------------------------
(* What the copy promises                                                  *)

\* Rows the run cannot have missed: a single-column key is paged through by
\* value; otherwise only an unchanged table has fixed offsets.
Followed(t) == Keyset(t) \/ t \notin touched

\* Nothing of table t was copied, or every row it kept was.
Complete(t) == \A r \in stable[t] : OnTarget(t, r)
Started(t) == \E r \in Rows : copies[t][r] > 0
HadRows(t) == IF t \in job.existing THEN OldRows[t] ELSE {}

\* The tables are copied in an order that has each selected table once, and
\* after the tables it refers to unless the references form a cycle.
ParentsFirst == order # <<>> => ParentsFirstIn(order, job.selected, job.fks)

\* A table reported done has every row that was in the source throughout, and
\* none twice, though the source changed between two pages: with keyset paging
\* always, with OFFSET paging when the table itself was left alone.
CopyExact ==
    \A t \in Tables : Followed(t) =>
        /\ report[t].status = "done" => Complete(t)
        /\ \A r \in Rows : copies[t][r] <= 1

\* SQL Server and Oracle copy a table in one transaction: a table reported as
\* failed has all its rows or none of them, and none of its old rows is lost
\* unless the mode was to empty it.
FailedCopyAtomic ==
    \A t \in Tables : OneTransaction /\ report[t].status = "error" =>
        \/ ~Started(t) /\ (job.conflict # "truncate" => old[t] = HadRows(t))
        \/ Followed(t) => Complete(t)

\* In skip and upsert mode a row of the target is there at every moment, be it
\* replaced or not, whatever fails.
ExistingRowsKept ==
    job.conflict # "truncate" => \A t \in Tables : \A r \in HadRows(t) : OnTarget(t, r)

\* The three numbers of the report agree for a table that was emptied first
\* and left alone in the source.
ReportAddsUp ==
    \A t \in Tables :
        job.conflict = "truncate" /\ report[t].status = "done" /\ t \notin touched =>
            /\ report[t].copied = report[t].sourceRows
            /\ report[t].copied = report[t].targetRows

\* What is reported as copied is what was there to copy.
ReportHolds == CopyExact /\ ReportAddsUp

\* Where foreign keys stay enforced the order keeps the inserts valid: one is
\* refused only for a table on a cycle, one whose parent was not selected or
\* not copied, or when the source has changed.
OrderKeepsInsertsValid ==
    \A t \in refused :
        \/ writes > 0
        \/ Stuck(t, job.selected, job.fks)
        \/ \E f \in TargetFks :
              f[1] = t /\ (f[2] \notin Range(job.selected) \/ report[f[2]].status = "error")

\* The order is right, and as far as it goes inserts are valid.
TablesInOrder == ParentsFirst /\ OrderKeepsInsertsValid
=============================================================================
