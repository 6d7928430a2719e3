------------------------------ MODULE CsvImport ------------------------------
(***************************************************************************)
(* CsvImportService.importCsv of apps/api/src/connections/                 *)
(* csv-import.service.ts: imports, several at a time, into one table of a  *)
(* customer's database.  DDL runs outside any transaction and is undone by *)
(* hand when a later step fails; the rows go in one transaction.           *)
(*                                                                         *)
(* Every statement sent to the database is a step, so another import may   *)
(* run between any two.  The database is external: DDL waits for the open  *)
(* transactions on the table, a failed statement changes nothing, and a    *)
(* MySQL deadlock ends the whole transaction, after which statements       *)
(* commit one by one.                                                      *)
(***************************************************************************)
EXTENDS Naturals, Sequences, FiniteSets, Functions

CONSTANTS
    Imports,    \* calls of importCsv, each runs once
    None,       \* no import: the owner of what was there before
    Absent,     \* the owner of a column or table that is not there
    Null,       \* SQL NULL, a blank cell
    PreCols,    \* columns of the table when it exists before the imports
    Required,   \* those that are NOT NULL without a default
    Cases,      \* what the imports may be asked: a request (see DtoOK) for
                \* each, those of mode "none" never take place
    Canon,      \* the text the database gives back for a key text; that text
                \* it gives back as it is
    ChunkSize,  \* INSERT_CHUNK_SIZE
    MySql,      \* TRUE for the MySQL family, which probes for the bad row
    Deadlocks   \* TRUE when an insert may be chosen as a deadlock victim

KeyTexts == DOMAIN Canon

\* mode: CREATE TABLE or insert into the existing one; cols: the mapped
\* columns in order; badTypes: those without a valid dbType; dedupe: unique
\* keys are given; keys: the key cell of every CSV row.  The columns added, and
\* the rows, are kept as sets: they are taken in the order of cols and of keys.
DtoOK(d) ==
    /\ d.mode \in {"new", "existing", "none"}
    /\ d.cols # <<>> /\ IsInjective(d.cols)
    /\ d.badTypes \subseteq Range(d.cols)
    /\ d.dedupe \in BOOLEAN
    /\ d.keys \in Seq(KeyTexts \cup {Null})

ASSUME CsvImportAssumption ==
    /\ Required \subseteq PreCols
    /\ \A case \in Cases : DOMAIN case = Imports /\ \A i \in Imports : DtoOK(case[i])
    /\ Null \notin KeyTexts
    /\ \A k \in KeyTexts : Canon[k] \in KeyTexts /\ Canon[Canon[k]] = Canon[k]
    /\ ChunkSize \in Nat \ {0}
    /\ None \notin Imports /\ Absent \notin Imports \cup {None}
    /\ MySql \in BOOLEAN /\ Deadlocks \in BOOLEAN

VARIABLES
    creator,       \* who created the table: an import, None or Absent
    owner,         \* who added each column: an import, None or Absent
    rows,          \* the committed rows
    dto,           \* the request of an import
    pc,            \* the next statement of an import
    known,         \* prepareExistingTable: the columns introspection saw
    adding,        \* prepareExistingTable: its local columnsAdded
    tableCreated,  \* importCsv: tableCreated
    columnsAdded,  \* importCsv: columnsAdded
    dropped,       \* revertSchemaChanges: those of columnsAdded that are gone
    rowsToInsert,  \* numbers of the rows of the file to insert
    inserted,      \* insertRowsAtomic: those that are written
    probing,       \* numbers of the rows of the failed chunk still to probe
    tx,            \* rows the open transaction has written
    inTx,          \* the transaction is open and has written to the table
    lostTx,        \* the server has ended the transaction by itself
    outcome        \* how the import ended

table == <<creator, owner, rows>>
schema == <<known, adding, tableCreated, columnsAdded, dropped>>
data == <<rowsToInsert, inserted, probing, tx, inTx, lostTx>>
vars == <<table, dto, pc, schema, data, outcome>>

Columns == PreCols \cup UNION {UNION {Range(case[i].cols) : i \in Imports} : case \in Cases}
PcValues == {"check", "create", "introspect", "alter", "filter",
             "insert", "probe", "rollback", "revert", "done"}
Outcomes == {"none", "ok", "failed", "unreverted"}
RowNumbers(i) == 1..Len(dto[i].keys)
RowOf(i, n) == [by |-> i, n |-> n, key |-> dto[i].keys[n]]
AllRows == [by : Imports \cup {None}, n : Nat, key : KeyTexts \cup {Null}]

exists == creator # Absent
cols == {c \in Columns : owner[c] # Absent}

TypeOK ==
    /\ creator \in Imports \cup {None, Absent}
    /\ owner \in [Columns -> Imports \cup {None, Absent}]
    /\ rows \subseteq AllRows
    /\ dto \in Cases
    /\ pc \in [Imports -> PcValues]
    /\ known \in [Imports -> SUBSET Columns]
    /\ tableCreated \in [Imports -> BOOLEAN]
    /\ adding \in [Imports -> SUBSET Columns]
    /\ columnsAdded \in [Imports -> SUBSET Columns]
    /\ dropped \in [Imports -> SUBSET Columns]
    /\ rowsToInsert \in [Imports -> SUBSET Nat]
    /\ inserted \in [Imports -> SUBSET Nat]
    /\ probing \in [Imports -> SUBSET Nat]
    /\ tx \in [Imports -> SUBSET AllRows]
    /\ inTx \in [Imports -> BOOLEAN] /\ lostTx \in [Imports -> BOOLEAN]
    /\ outcome \in [Imports -> Outcomes]
    /\ \A i \in Imports : rowsToInsert[i] \cup probing[i] \subseteq RowNumbers(i)

\* The table is absent, empty, or holds one row nobody here imported.
Init ==
    /\ creator \in {None, Absent}
    /\ owner = [c \in Columns |-> IF exists /\ c \in PreCols THEN None ELSE Absent]
    /\ \/ rows = {}
       \/ exists /\ \E k \in KeyTexts : rows = {[by |-> None, n |-> 0, key |-> k]}
    /\ dto \in Cases
    /\ pc = [i \in Imports |-> CASE dto[i].mode = "new" -> "check"
                               [] dto[i].mode = "existing" -> "introspect"
                               [] OTHER -> "done"]
    /\ known = [i \in Imports |-> {}]
    /\ adding = [i \in Imports |-> {}]
    /\ tableCreated = [i \in Imports |-> FALSE]
    /\ columnsAdded = [i \in Imports |-> {}]
    /\ dropped = [i \in Imports |-> {}]
    /\ rowsToInsert = [i \in Imports |-> {}]
    /\ inserted = [i \in Imports |-> {}]
    /\ probing = [i \in Imports |-> {}]
    /\ tx = [i \in Imports |-> {}]
    /\ inTx = [i \in Imports |-> FALSE]
    /\ lostTx = [i \in Imports |-> FALSE]
    /\ outcome = [i \in Imports |-> "none"]

-----------------------------------------------------------------------------
\* c comes first in S, in mapping order.
IsFirst(i, c, S) ==
    /\ c \in S
    /\ \A d \in S \ {c} : \E m, n \in DOMAIN dto[i].cols :
        m < n /\ dto[i].cols[m] = c /\ dto[i].cols[n] = d

Goto(i, label) == pc' = [pc EXCEPT ![i] = label]

\* DDL waits until no other transaction has written to the table.
DdlAllowed(i) == \A j \in Imports \ {i} : ~inTx[j]

\* A statement throws before any row is written: importCsv's catch follows.
Throw(i) ==
    /\ Goto(i, "revert")
    /\ UNCHANGED <<table, dto, schema, data, outcome>>

-----------------------------------------------------------------------------
(* createTable                                                             *)

\* Is there such a table already, and are all the types allowed?
CheckTable(i) ==
    /\ pc[i] = "check"
    /\ \/ exists /\ Throw(i)
       \/ ~exists /\ dto[i].badTypes # {} /\ Throw(i)
       \/ /\ ~exists
          /\ dto[i].badTypes = {}
          /\ Goto(i, "create")
          /\ UNCHANGED <<table, dto, schema, data, outcome>>

\* CREATE TABLE; it fails when another import was faster.
CreateTable(i) ==
    /\ pc[i] = "create"
    /\ ~exists
    /\ creator' = i
    /\ owner' = [c \in Columns |-> IF c \in Range(dto[i].cols) THEN i ELSE Absent]
    /\ tableCreated' = [tableCreated EXCEPT ![i] = TRUE]
    /\ rowsToInsert' = [rowsToInsert EXCEPT ![i] = RowNumbers(i)]
    /\ Goto(i, "insert")
    /\ UNCHANGED <<rows, dto, known, adding, columnsAdded, dropped,
                   inserted, probing, tx, inTx, lostTx, outcome>>

CreateTableFails(i) == pc[i] = "create" /\ Throw(i)

-----------------------------------------------------------------------------
(* prepareExistingTable                                                    *)

\* The mapped columns that introspection did not see and that are not added.
Missing(i) == Range(dto[i].cols) \ (known[i] \cup adding[i])

Introspect(i) ==
    /\ pc[i] = "introspect"
    /\ exists
    /\ known' = [known EXCEPT ![i] = cols]
    /\ Goto(i, "alter")
    /\ UNCHANGED <<table, dto, adding, tableCreated, columnsAdded, dropped, data, outcome>>

TableNotFound(i) == pc[i] = "introspect" /\ ~exists /\ Throw(i)

\* The next missing column: it needs a valid type, and ALTER TABLE succeeds
\* only while the table is there and nobody added the column meanwhile.
AddColumn(i) ==
    /\ pc[i] = "alter"
    /\ DdlAllowed(i)
    /\ exists
    /\ \E c \in Missing(i) \ (dto[i].badTypes \cup cols) :
        /\ IsFirst(i, c, Missing(i))
        /\ owner' = [owner EXCEPT ![c] = i]
        /\ adding' = [adding EXCEPT ![i] = @ \cup {c}]
    /\ UNCHANGED <<creator, rows, dto, pc, known, tableCreated, columnsAdded, dropped,
                   data, outcome>>

\* The next missing column has no valid type, or ALTER TABLE fails: the
\* local list of added columns is lost with the exception.
AddColumnFails(i) ==
    /\ pc[i] = "alter"
    /\ Missing(i) # {}
    /\ Throw(i)

\* All columns are there: those that were required must be mapped.
CheckRequired(i) ==
    /\ pc[i] = "alter"
    /\ Missing(i) = {}
    /\ \A c \in Required \cap known[i] : owner[c] = None => c \in Range(dto[i].cols)
    /\ columnsAdded' = [columnsAdded EXCEPT ![i] = adding[i]]
    /\ Goto(i, "filter")
    /\ UNCHANGED <<table, dto, known, adding, tableCreated, dropped, data, outcome>>

RequiredUnmapped(i) ==
    /\ pc[i] = "alter"
    /\ Missing(i) = {}
    /\ \E c \in Required \cap known[i] : owner[c] = None /\ c \notin Range(dto[i].cols)
    /\ Throw(i)

-----------------------------------------------------------------------------
(* filterDuplicates                                                        *)

\* The keys the SELECT returns: the stored form of every stored key that SQL
\* finds equal to a non-blank key of the file.
ExistingKeys(i) ==
    {Canon[r.key] : r \in {s \in rows : s.key # Null
                                        /\ \E k \in Range(dto[i].keys) \ {Null} : Canon[k] = Canon[s.key]}}

\* Mutants: rows of the file are not compared with each other; a row is noted
\* as seen before it is looked up.
KeptRepeated(i) == {n \in RowNumbers(i) : dto[i].keys[n] \notin ExistingKeys(i)}
KeptSeenFirst(i) ==
    {n \in RowNumbers(i) : \A m \in 1..n :
        dto[i].keys[m] \notin ExistingKeys(i) \cup {dto[i].keys[n]}}

\* Keep a row when its text is not among the returned keys and no earlier row
\* of the file has the same text (two blank keys are the same).
Kept(i) ==
    {n \in RowNumbers(i) :
        /\ dto[i].keys[n] \notin ExistingKeys(i)
        /\ \A m \in 1..(n - 1) : dto[i].keys[m] # dto[i].keys[n]}

Filter(i) ==
    /\ pc[i] = "filter"
    /\ dto[i].dedupe => exists
    /\ rowsToInsert' = [rowsToInsert EXCEPT ![i] =
                            IF dto[i].dedupe THEN Kept(i) ELSE RowNumbers(i)]
    /\ Goto(i, "insert")
    /\ UNCHANGED <<table, dto, schema, inserted, probing, tx, inTx, lostTx, outcome>>

FilterFails(i) == pc[i] = "filter" /\ dto[i].dedupe /\ Throw(i)

-----------------------------------------------------------------------------
(* insertRowsAtomic                                                        *)

\* The next INSERT_CHUNK_SIZE rows of those that remain.
Remaining(i) == rowsToInsert[i] \ inserted[i]
Chunk(i) == {n \in Remaining(i) : Cardinality({m \in Remaining(i) : m < n}) < ChunkSize}
RowsOf(i, numbers) == {RowOf(i, n) : n \in numbers}
CanWrite(i) == exists /\ Range(dto[i].cols) \subseteq cols

\* Mutant: the chunk is sent on the pool, outside the transaction.
InsertChunkOutside(i) ==
    /\ pc[i] = "insert"
    /\ Remaining(i) # {}
    /\ CanWrite(i)
    /\ rows' = rows \cup RowsOf(i, Chunk(i))
    /\ inserted' = [inserted EXCEPT ![i] = @ \cup Chunk(i)]
    /\ UNCHANGED <<creator, owner, dto, pc, schema, rowsToInsert, probing, tx, inTx, lostTx, outcome>>

\* The next chunk, in the transaction.
InsertChunk(i) ==
    /\ pc[i] = "insert"
    /\ Remaining(i) # {}
    /\ CanWrite(i)
    /\ tx' = [tx EXCEPT ![i] = @ \cup RowsOf(i, Chunk(i))]
    /\ inTx' = [inTx EXCEPT ![i] = TRUE]
    /\ inserted' = [inserted EXCEPT ![i] = @ \cup Chunk(i)]
    /\ UNCHANGED <<table, dto, pc, schema, rowsToInsert, probing, lostTx, outcome>>

\* The chunk is refused.  MySQL keeps the transaction and probes the rows one
\* by one to name the bad one; elsewhere the transaction is rolled back.
ChunkFails(i) ==
    /\ pc[i] = "insert"
    /\ Remaining(i) # {}
    /\ probing' = [probing EXCEPT ![i] = IF MySql THEN Chunk(i) ELSE {}]
    /\ Goto(i, IF MySql THEN "probe" ELSE "rollback")
    /\ UNCHANGED <<table, dto, schema, rowsToInsert, inserted, tx, inTx, lostTx, outcome>>

\* The chunk loses a deadlock: the server has rolled the transaction back.
ChunkDeadlocks(i) ==
    /\ Deadlocks
    /\ MySql
    /\ pc[i] = "insert"
    /\ Remaining(i) # {}
    /\ \E j \in Imports \ {i} : inTx[j]
    /\ tx' = [tx EXCEPT ![i] = {}]
    /\ inTx' = [inTx EXCEPT ![i] = FALSE]
    /\ probing' = [probing EXCEPT ![i] = Chunk(i)]
    /\ Goto(i, "probe")
    /\ lostTx' = [lostTx EXCEPT ![i] = TRUE]
    /\ UNCHANGED <<table, dto, schema, rowsToInsert, inserted, outcome>>

\* One probe insert.  Inside the transaction it is undone by the rollback;
\* after a deadlock there is no transaction and it commits at once.
ProbeRow(i) ==
    /\ pc[i] = "probe"
    /\ CanWrite(i)
    /\ \E n \in probing[i] :
        /\ \A m \in probing[i] : n <= m
        /\ IF lostTx[i]
           THEN rows' = rows \cup {RowOf(i, n)} /\ UNCHANGED <<tx, inTx>>
           ELSE /\ tx' = [tx EXCEPT ![i] = @ \cup {RowOf(i, n)}]
                /\ inTx' = [inTx EXCEPT ![i] = TRUE]
                /\ UNCHANGED rows
        /\ probing' = [probing EXCEPT ![i] = @ \ {n}]
    /\ UNCHANGED <<creator, owner, dto, pc, schema, rowsToInsert, inserted, lostTx, outcome>>

\* A probe insert fails, or all succeeded: the chunk's error is thrown.
ProbeEnds(i) ==
    /\ pc[i] = "probe"
    /\ probing' = [probing EXCEPT ![i] = {}]
    /\ Goto(i, "rollback")
    /\ UNCHANGED <<table, dto, schema, rowsToInsert, inserted, tx, inTx, lostTx, outcome>>

\* The last chunk is in: COMMIT, and the import reports success.
Commit(i) ==
    /\ pc[i] = "insert"
    /\ Remaining(i) = {}
    /\ rows' = rows \cup tx[i]
    /\ tx' = [tx EXCEPT ![i] = {}]
    /\ inTx' = [inTx EXCEPT ![i] = FALSE]
    /\ outcome' = [outcome EXCEPT ![i] = "ok"]
    /\ Goto(i, "done")
    /\ UNCHANGED <<creator, owner, dto, schema, rowsToInsert, inserted, probing, lostTx>>

CommitFails(i) ==
    /\ pc[i] = "insert"
    /\ Remaining(i) = {}
    /\ tx[i] # {}
    /\ Goto(i, "rollback")
    /\ UNCHANGED <<table, dto, schema, data, outcome>>

\* Mutant: the connection is released without ROLLBACK.
RollbackForgotten(i) ==
    /\ pc[i] = "rollback"
    /\ Goto(i, "revert")
    /\ UNCHANGED <<table, dto, schema, data, outcome>>

Rollback(i) ==
    /\ pc[i] = "rollback"
    /\ tx' = [tx EXCEPT ![i] = {}]
    /\ inTx' = [inTx EXCEPT ![i] = FALSE]
    /\ Goto(i, "revert")
    /\ UNCHANGED <<table, dto, schema, rowsToInsert, inserted, probing, lostTx, outcome>>

-----------------------------------------------------------------------------
(* revertSchemaChanges                                                     *)

End(i, how) ==
    /\ outcome' = [outcome EXCEPT ![i] = how]
    /\ Goto(i, "done")

\* DROP TABLE IF EXISTS the table this import created.
RevertTable(i) ==
    /\ pc[i] = "revert"
    /\ tableCreated[i]
    /\ DdlAllowed(i)
    /\ creator' = Absent
    /\ owner' = [c \in Columns |-> Absent]
    /\ rows' = {}
    /\ End(i, "failed")
    /\ UNCHANGED <<dto, schema, data>>

\* DROP the next column this import added.
RevertColumn(i) ==
    /\ pc[i] = "revert"
    /\ ~tableCreated[i]
    /\ DdlAllowed(i)
    /\ \E c \in cols :
        /\ IsFirst(i, c, columnsAdded[i] \ dropped[i])
        /\ owner' = [owner EXCEPT ![c] = Absent]
        /\ dropped' = [dropped EXCEPT ![i] = @ \cup {c}]
    /\ UNCHANGED <<creator, rows, dto, pc, known, adding, tableCreated, columnsAdded,
                   data, outcome>>

\* A DDL statement of the revert fails: warn, and leave the rest as it is.
RevertFails(i) ==
    /\ pc[i] = "revert"
    /\ tableCreated[i] \/ dropped[i] # columnsAdded[i]
    /\ End(i, "unreverted")
    /\ UNCHANGED <<table, dto, schema, data>>

\* Mutant: the last added column is left.
RevertedEarly(i) ==
    /\ pc[i] = "revert"
    /\ ~tableCreated[i]
    /\ Cardinality(columnsAdded[i] \ dropped[i]) <= 1
    /\ End(i, "failed")
    /\ UNCHANGED <<table, dto, schema, data>>

Reverted(i) ==
    /\ pc[i] = "revert"
    /\ ~tableCreated[i]
    /\ dropped[i] = columnsAdded[i]
    /\ End(i, "failed")
    /\ UNCHANGED <<table, dto, schema, data>>

-----------------------------------------------------------------------------
ImportStep(i) ==
    \/ CheckTable(i) \/ CreateTable(i) \/ CreateTableFails(i)
    \/ Introspect(i) \/ TableNotFound(i)
    \/ AddColumn(i) \/ AddColumnFails(i) \/ CheckRequired(i) \/ RequiredUnmapped(i)
    \/ Filter(i) \/ FilterFails(i)
    \/ InsertChunk(i) \/ ChunkFails(i) \/ ChunkDeadlocks(i)
    \/ ProbeRow(i) \/ ProbeEnds(i)
    \/ Commit(i) \/ CommitFails(i) \/ Rollback(i)
    \/ RevertTable(i) \/ RevertColumn(i) \/ RevertFails(i) \/ Reverted(i)

\* Every import has ended: the service waits for the next request.
AllDone ==
    /\ \A i \in Imports : pc[i] = "done"
    /\ UNCHANGED vars

Next == AllDone \/ \E i \in Imports : ImportStep(i)

Spec == Init /\ [][Next]_vars

\* The next statement is DDL on a table another transaction has written to.
WaitsForLock(i) ==
    /\ ~DdlAllowed(i)
    /\ \/ pc[i] = "alter" /\ \E c \in Missing(i) \ dto[i].badTypes : IsFirst(i, c, Missing(i))
       \/ pc[i] = "revert" /\ (tableCreated[i] \/ dropped[i] # columnsAdded[i])

\* A statement returns or fails once the database can execute it; one that
\* waits for a lock may wait as long as the lock is held.
FairSpec == Spec /\ \A i \in Imports : WF_vars(~WaitsForLock(i) /\ ImportStep(i))

-----------------------------------------------------------------------------
(* Properties                                                              *)

ImportedRows(i) == {r.n : r \in {s \in rows : s.by = i}}

\* "All-or-nothing: every batch inserts inside one transaction": the table
\* never holds a proper part of an import, nor a row of one that fails.  An
\* import whose transaction the server has ended is left out: its probe
\* inserts commit one by one and stay.
AllOrNothing ==
    \A i \in Imports :
        \/ lostTx[i]
        \/ ImportedRows(i) = {}
        \/ outcome[i] = "ok" /\ ImportedRows(i) = rowsToInsert[i]

OwnsNothing(i) == creator # i /\ \A c \in Columns : owner[c] # i

\* An import that fails after the schema was prepared, and whose undo was not
\* refused by the database, leaves neither table nor column behind, whatever
\* other imports do meanwhile.
PreparedFailureUndone ==
    \A i \in Imports :
        outcome[i] = "failed" /\ (tableCreated[i] \/ columnsAdded[i] = adding[i])
        => OwnsNothing(i)

\* "undo it explicitly to leave the database exactly as it was before the
\* import": the same for every failed import.
FailedImportLeavesNoTrace ==
    \A i \in Imports : outcome[i] = "failed" => OwnsNothing(i)

\* No other import runs at the same time.
Alone(i) == \A j \in Imports \ {i} : dto[j].mode = "none"

\* filterDuplicates skips a row only when its key is already stored or an
\* earlier row of the file carries the same key: no new data is lost.
OnlyDuplicatesSkipped ==
    \A i \in Imports : pc[i] = "insert" /\ Alone(i) =>
        \A n \in RowNumbers(i) \ rowsToInsert[i] :
            LET k == dto[i].keys[n] IN
            \/ \E m \in 1..(n - 1) : dto[i].keys[m] = k
            \/ k # Null /\ \E r \in rows : r.key # Null /\ Canon[r.key] = Canon[k]

\* The keys of the file are written the way the database returns them.
CanonicalKeys(i) == \A k \in Range(dto[i].keys) \ {Null} : Canon[k] = k

\* "Skip rows that already exist (by the chosen unique keys) before
\* inserting": a deduplicated import of canonical keys adds no second row
\* with a stored key, however the stored row was written.
DedupedKeysUnique ==
    \A r, s \in rows :
        /\ r.by \in Imports
        /\ Alone(r.by) /\ dto[r.by].mode = "existing" /\ dto[r.by].dedupe /\ CanonicalKeys(r.by)
        /\ r # s /\ r.key # Null /\ s.key # Null
        => Canon[r.key] # Canon[s.key]

\* Every import ends, although its DDL waits for the others' transactions.
ImportEnds == \A i \in Imports : <>(pc[i] = "done")
=============================================================================
