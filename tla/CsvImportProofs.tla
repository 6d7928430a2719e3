---------------------------- MODULE CsvImportProofs ----------------------------
(***************************************************************************)
(* What imports leave in a customer's table, for any number of imports,    *)
(* rows, columns and any size of the chunks.                               *)
(***************************************************************************)
EXTENDS CsvImport, TLAPS

\* The local variables of an import.
Locals(i) ==
    <<pc[i], known[i], adding[i], tableCreated[i], columnsAdded[i], dropped[i], rowsToInsert[i],
      inserted[i], probing[i], tx[i], inTx[i], lostTx[i], outcome[i]>>

LEMMA Requests ==
    ASSUME TypeOK, NEW i \in Imports
    PROVE  /\ DtoOK(dto[i])
           /\ Range(dto[i].cols) \subseteq Columns
           /\ RowNumbers(i) \subseteq Nat
           /\ \A n \in RowNumbers(i) : dto[i].keys[n] \in KeyTexts \cup {Null} /\ RowOf(i, n) \in AllRows
<1>1. DtoOK(dto[i])
    BY CsvImportAssumption DEF TypeOK
<1>2. Range(dto[i].cols) \subseteq Columns
    BY DEF TypeOK, Columns
<1>3. RowNumbers(i) \subseteq Nat
    BY <1>1 DEF DtoOK, RowNumbers
<1>4. ASSUME NEW n \in RowNumbers(i)
      PROVE  dto[i].keys[n] \in KeyTexts \cup {Null} /\ RowOf(i, n) \in AllRows
    <2>1. dto[i].keys[n] \in KeyTexts \cup {Null}
        BY <1>1 DEF DtoOK, RowNumbers
    <2> QED
        BY <1>3, <2>1 DEF RowOf, AllRows
<1> QED
    BY <1>1, <1>2, <1>3, <1>4

LEMMA RequestKept ==
    ASSUME NEW i, ImportStep(i)
    PROVE  dto' = dto
BY DEF ImportStep, CheckTable, CreateTable, CreateTableFails, Introspect, TableNotFound, AddColumn,
       AddColumnFails, CheckRequired, RequiredUnmapped, Filter, FilterFails, InsertChunk, ChunkFails,
       ChunkDeadlocks, ProbeRow, ProbeEnds, Commit, CommitFails, Rollback, RevertTable, RevertColumn,
       RevertFails, Reverted, Throw

LEMMA ChunkRemains == ASSUME NEW i PROVE Chunk(i) \subseteq Remaining(i)
BY DEF Chunk

-----------------------------------------------------------------------------
(* Types                                                                   *)

LEMMA TypeInit == Init => TypeOK
<1> SUFFICES ASSUME Init PROVE TypeOK
    OBVIOUS
<1> USE DEF Init
<1>1. rows \subseteq AllRows
    BY DEF AllRows
<1>2. pc \in [Imports -> PcValues]
    BY DEF PcValues
<1>3. outcome \in [Imports -> Outcomes]
    BY DEF Outcomes
<1>4. owner \in [Columns -> Imports \cup {None, Absent}] /\ creator \in Imports \cup {None, Absent}
    OBVIOUS
<1> QED
    BY <1>1, <1>2, <1>3, <1>4 DEF TypeOK

LEMMA TypeStep == TypeOK /\ [Next]_vars => TypeOK'
<1> SUFFICES ASSUME TypeOK, [Next]_vars PROVE TypeOK'
    OBVIOUS
<1> USE DEF table, schema, data
<1>1. ASSUME NEW i \in Imports, ImportStep(i) PROVE TypeOK'
    <2>c. /\ Range(dto[i].cols) \subseteq Columns /\ RowNumbers(i) \subseteq Nat
          /\ \A n \in RowNumbers(i) : RowOf(i, n) \in AllRows
          /\ rowsToInsert[i] \cup probing[i] \subseteq RowNumbers(i)
          /\ Chunk(i) \subseteq RowNumbers(i)
        BY Requests, ChunkRemains DEF TypeOK, Remaining
    <2>n. \A j \in Imports : RowNumbers(j)' = RowNumbers(j)
        BY <1>1, RequestKept DEF RowNumbers
    <2>p. \A l \in PcValues : Goto(i, l) => pc' \in [Imports -> PcValues]
        BY DEF Goto, TypeOK
    <2>q. "revert" \in PcValues /\ "create" \in PcValues /\ "insert" \in PcValues /\ "alter" \in PcValues
          /\ "filter" \in PcValues /\ "probe" \in PcValues /\ "rollback" \in PcValues /\ "done" \in PcValues
        BY DEF PcValues
    <2>1. ASSUME Throw(i) PROVE TypeOK'
        BY <2>1, <2>n, <2>p, <2>q DEF Throw, TypeOK
    <2>2. CASE CheckTable(i)
        BY <2>1, <2>2, <2>n, <2>p, <2>q DEF CheckTable, TypeOK
    <2>3. CASE CreateTable(i)
        BY <2>3, <2>c, <2>n, <2>p, <2>q DEF CreateTable, TypeOK
    <2>4. CASE CreateTableFails(i) \/ TableNotFound(i) \/ AddColumnFails(i) \/ RequiredUnmapped(i) \/ FilterFails(i)
        BY <2>1, <2>4 DEF CreateTableFails, TableNotFound, AddColumnFails, RequiredUnmapped, FilterFails
    <2>5. CASE Introspect(i)
        BY <2>5, <2>n, <2>p, <2>q DEF Introspect, TypeOK, cols
    <2>6. CASE AddColumn(i)
        <3>1. PICK c \in Columns : /\ owner' = [owner EXCEPT ![c] = i]
                                   /\ adding' = [adding EXCEPT ![i] = @ \cup {c}]
            BY <2>6, <2>c DEF AddColumn, Missing
        <3>2. /\ owner' \in [Columns -> Imports \cup {None, Absent}]
              /\ adding' \in [Imports -> SUBSET Columns]
            BY <3>1 DEF TypeOK
        <3> QED
            BY <2>6, <2>n, <3>2 DEF AddColumn, TypeOK
    <2>7. CASE CheckRequired(i)
        BY <2>7, <2>n, <2>p, <2>q DEF CheckRequired, TypeOK
    <2>8. CASE Filter(i)
        <3>1. Kept(i) \subseteq RowNumbers(i)
            BY DEF Kept
        <3> QED
            BY <2>8, <2>c, <2>n, <2>p, <2>q, <3>1 DEF Filter, TypeOK
    <2>9. CASE InsertChunk(i)
        <3>1. RowsOf(i, Chunk(i)) \subseteq AllRows
            BY <2>c DEF RowsOf
        <3> QED
            BY <2>9, <2>c, <2>n, <3>1 DEF InsertChunk, TypeOK
    <2>10. CASE ChunkFails(i)
        BY <2>10, <2>c, <2>n, <2>p, <2>q DEF ChunkFails, TypeOK
    <2>11. CASE ChunkDeadlocks(i)
        BY <2>11, <2>c, <2>n, <2>p, <2>q DEF ChunkDeadlocks, TypeOK
    <2>12. CASE ProbeRow(i)
        <3>1. PICK n \in probing[i] :
                /\ IF lostTx[i]
                   THEN rows' = rows \cup {RowOf(i, n)} /\ UNCHANGED <<tx, inTx>>
                   ELSE /\ tx' = [tx EXCEPT ![i] = @ \cup {RowOf(i, n)}]
                        /\ inTx' = [inTx EXCEPT ![i] = TRUE]
                        /\ UNCHANGED rows
                /\ probing' = [probing EXCEPT ![i] = @ \ {n}]
            BY <2>12 DEF ProbeRow
        <3>2. RowOf(i, n) \in AllRows
            BY <2>c
        <3>3. rows' \subseteq AllRows /\ tx' \in [Imports -> SUBSET AllRows] /\ inTx' \in [Imports -> BOOLEAN]
            <4>1. CASE lostTx[i]
                <5>1. rows' = rows \cup {RowOf(i, n)} /\ tx' = tx /\ inTx' = inTx
                    BY <3>1, <4>1
                <5>2. rows \subseteq AllRows
                    BY DEF TypeOK
                <5>3. rows' \subseteq AllRows
                    BY <3>2, <5>1, <5>2
                <5> QED
                    BY <5>1, <5>3 DEF TypeOK
            <4>2. CASE ~lostTx[i]
                <5>1. /\ rows' = rows
                      /\ tx' = [tx EXCEPT ![i] = @ \cup {RowOf(i, n)}]
                      /\ inTx' = [inTx EXCEPT ![i] = TRUE]
                    BY <3>1, <4>2
                <5> QED
                    BY <3>2, <5>1 DEF TypeOK
            <4> QED
                BY <4>1, <4>2
        <3>4. /\ probing' \in [Imports -> SUBSET Nat]
              /\ \A j \in Imports : probing'[j] \subseteq probing[j]
            BY <3>1 DEF TypeOK
        <3>5. UNCHANGED <<creator, owner, dto, pc, schema, rowsToInsert, inserted, lostTx, outcome>>
            BY <2>12 DEF ProbeRow
        <3> QED
            BY <2>n, <3>3, <3>4, <3>5 DEF TypeOK
    <2>13. CASE ProbeEnds(i)
        BY <2>13, <2>n, <2>p, <2>q DEF ProbeEnds, TypeOK
    <2>14. CASE Commit(i)
        BY <2>14, <2>n, <2>p, <2>q DEF Commit, TypeOK, Outcomes
    <2>15. CASE CommitFails(i)
        BY <2>15, <2>n, <2>p, <2>q DEF CommitFails, TypeOK
    <2>16. CASE Rollback(i)
        BY <2>16, <2>n, <2>p, <2>q DEF Rollback, TypeOK
    <2>17. CASE RevertTable(i)
        BY <2>17, <2>n, <2>p, <2>q DEF RevertTable, End, TypeOK, Outcomes
    <2>18. CASE RevertColumn(i)
        BY <2>18, <2>n DEF RevertColumn, TypeOK, cols
    <2>19. CASE RevertFails(i) \/ Reverted(i)
        BY <2>19, <2>n, <2>p, <2>q DEF RevertFails, Reverted, End, TypeOK, Outcomes
    <2> QED
        BY <1>1, <2>2, <2>3, <2>4, <2>5, <2>6, <2>7, <2>8, <2>9, <2>10, <2>11, <2>12, <2>13, <2>14, <2>15,
           <2>16, <2>17, <2>18, <2>19 DEF ImportStep
<1>2. CASE UNCHANGED vars
    BY <1>2 DEF vars, TypeOK, RowNumbers
<1> QED
    BY <1>1, <1>2 DEF Next, AllDone

\* Every reachable state of the imports and their table is well typed.
THEOREM ImportsTyped == Spec => []TypeOK
BY TypeInit, TypeStep, PTL DEF Spec

-----------------------------------------------------------------------------
(* What an import has written so far                                       *)

\* Before the first chunk.
Preparing == {"check", "create", "introspect", "alter", "filter"}

\* While rows are inserted the transaction holds those that are written; it
\* is gone when the schema is undone.  Nothing is dropped before that.
Progress(i) ==
    /\ outcome[i] # "none" => pc[i] = "done"
    /\ dto[i].mode = "none" => pc[i] = "done" /\ outcome[i] = "none" /\ ~inTx[i]
    /\ pc[i] \in Preparing => inserted[i] = {} /\ tx[i] = {} /\ ~lostTx[i]
    /\ pc[i] = "insert" =>
            /\ inserted[i] \subseteq rowsToInsert[i]
            /\ tx[i] = RowsOf(i, inserted[i])
            /\ ~lostTx[i]
    /\ pc[i] \in {"revert", "done"} => tx[i] = {}
    /\ \A r \in tx[i] : r.by = i
    /\ pc[i] \notin {"revert", "done"} => dropped[i] = {}

ProgressInv == \A i \in Imports : Progress(i)

\* Who created the table, or added a column to it, remembers; what it has
\* dropped is not its own any more.
OwnerInv ==
    \A i \in Imports :
        /\ creator = i => tableCreated[i]
        /\ \A c \in Columns : owner[c] = i => creator = i \/ c \in adding[i] \ dropped[i]

\* The rows are those of imports that take place, as the file has them.
RowsInv ==
    \A r \in rows : r.by \in Imports =>
        dto[r.by].mode # "none" /\ r.n \in RowNumbers(r.by) /\ r = RowOf(r.by, r.n)

\* What the filter kept is still what it would keep.
FilterInv ==
    \A i \in Imports : Alone(i) =>
        /\ ~lostTx[i]
        /\ pc[i] = "insert" =>
            rowsToInsert[i] = IF dto[i].mode = "existing" /\ dto[i].dedupe THEN Kept(i) ELSE RowNumbers(i)
        /\ dto[i].mode = "new" => pc[i] \notin {"introspect", "alter", "filter"}
        /\ dto[i].mode = "existing" => pc[i] \notin {"check", "create"}

LEMMA OthersKeep ==
    ASSUME TypeOK, NEW i \in Imports, ImportStep(i), NEW k \in Imports, k # i
    PROVE  Locals(k)' = Locals(k)
<1> USE DEF table, schema, data, Locals, TypeOK
<1>1. CASE CheckTable(i) \/ CreateTable(i) \/ CreateTableFails(i) \/ Introspect(i) \/ TableNotFound(i)
    BY <1>1 DEF CheckTable, CreateTable, CreateTableFails, Introspect, TableNotFound, Throw, Goto
<1>2. CASE AddColumn(i)
    BY <1>2 DEF AddColumn
<1>3. CASE AddColumnFails(i) \/ CheckRequired(i) \/ RequiredUnmapped(i) \/ Filter(i) \/ FilterFails(i)
    BY <1>3 DEF AddColumnFails, CheckRequired, RequiredUnmapped, Filter, FilterFails, Throw, Goto
<1>4. CASE InsertChunk(i) \/ ChunkFails(i) \/ ChunkDeadlocks(i)
    BY <1>4 DEF InsertChunk, ChunkFails, ChunkDeadlocks, Goto
<1>5. CASE ProbeRow(i)
    <2>1. /\ UNCHANGED <<dto, pc, schema, rowsToInsert, inserted, lostTx, outcome>>
          /\ \E n : probing' = [probing EXCEPT ![i] = @ \ {n}]
        BY <1>5 DEF ProbeRow
    <2>2. tx'[k] = tx[k] /\ inTx'[k] = inTx[k]
        <3>1. PICK n : IF lostTx[i]
                       THEN UNCHANGED <<tx, inTx>>
                       ELSE /\ tx' = [tx EXCEPT ![i] = @ \cup {RowOf(i, n)}]
                            /\ inTx' = [inTx EXCEPT ![i] = TRUE]
            BY <1>5 DEF ProbeRow
        <3> QED
            BY <3>1
    <2> QED
        BY <2>1, <2>2
<1>6. CASE ProbeEnds(i) \/ Commit(i) \/ CommitFails(i) \/ Rollback(i)
    BY <1>6 DEF ProbeEnds, Commit, CommitFails, Rollback, Goto
<1>7. CASE RevertTable(i) \/ RevertColumn(i) \/ RevertFails(i) \/ Reverted(i)
    BY <1>7 DEF RevertTable, RevertColumn, RevertFails, Reverted, End, Goto
<1> QED
    BY <1>1, <1>2, <1>3, <1>4, <1>5, <1>6, <1>7 DEF ImportStep

LEMMA ProgressInit == Init => ProgressInv
<1> SUFFICES ASSUME Init, NEW i \in Imports PROVE Progress(i)
    BY DEF ProgressInv
<1>1. dto[i].mode \in {"new", "existing", "none"}
    BY TypeInit, Requests DEF DtoOK
<1>2. pc[i] = CASE dto[i].mode = "new" -> "check" [] dto[i].mode = "existing" -> "introspect" [] OTHER -> "done"
    BY DEF Init
<1>3. pc[i] # "insert" /\ (dto[i].mode = "none" => pc[i] = "done")
    BY <1>1, <1>2
<1> QED
    BY <1>3 DEF Init, Progress

LEMMA ProgressStep == TypeOK /\ ProgressInv /\ [Next]_vars => ProgressInv'
<1> SUFFICES ASSUME TypeOK, ProgressInv, [Next]_vars PROVE ProgressInv'
    OBVIOUS
<1> USE DEF table, schema, data
<1>1. ASSUME NEW i \in Imports, ImportStep(i) PROVE ProgressInv'
    <2>1. ASSUME NEW k \in Imports, k # i PROVE Progress(k)'
        <3>1. Progress(k)
            BY DEF ProgressInv
        <3>2. Locals(k)' = Locals(k) /\ dto' = dto
            BY <1>1, <2>1, OthersKeep, RequestKept
        <3> QED
            BY <3>1, <3>2 DEF Progress, Locals, RowsOf, RowOf
    <2>2. Progress(i)'
        <3>p. Progress(i)
            BY DEF ProgressInv
        <3>d. dto' = dto
            BY <1>1, RequestKept
        <3>m. dto[i].mode # "none"
            BY <1>1, <3>p DEF Progress, ImportStep, CheckTable, CreateTable, CreateTableFails, Introspect,
               TableNotFound, AddColumn, AddColumnFails, CheckRequired, RequiredUnmapped, Filter, FilterFails,
               InsertChunk, ChunkFails, ChunkDeadlocks, ProbeRow, ProbeEnds, Commit, CommitFails, Rollback,
               RevertTable, RevertColumn, RevertFails, Reverted
        <3> USE <3>m, <3>d DEF Goto, Preparing, TypeOK
        <3>1. CASE CheckTable(i)
            BY <3>1, <3>p DEF CheckTable, Throw, Progress
        <3>2. CASE CreateTable(i)
            BY <3>2, <3>p DEF CreateTable, Progress, RowsOf
        <3>3. CASE CreateTableFails(i) \/ TableNotFound(i) \/ AddColumnFails(i) \/ RequiredUnmapped(i) \/ FilterFails(i)
            BY <3>3, <3>p DEF CreateTableFails, TableNotFound, AddColumnFails, RequiredUnmapped, FilterFails,
               Throw, Progress
        <3>4. CASE Introspect(i) \/ CheckRequired(i)
            BY <3>4, <3>p DEF Introspect, CheckRequired, Progress
        <3>5. CASE AddColumn(i)
            BY <3>5, <3>p DEF AddColumn, Progress
        <3>6. CASE Filter(i)
            BY <3>6, <3>p DEF Filter, Progress, RowsOf
        <3>7. CASE InsertChunk(i)
            <4>1. /\ pc' = pc /\ pc[i] = "insert" /\ outcome' = outcome /\ lostTx' = lostTx
                  /\ rowsToInsert' = rowsToInsert /\ dropped' = dropped
                  /\ tx'[i] = tx[i] \cup RowsOf(i, Chunk(i))
                  /\ inserted'[i] = inserted[i] \cup Chunk(i)
                BY <3>7 DEF InsertChunk
            <4>2. Chunk(i) \subseteq rowsToInsert[i]
                BY ChunkRemains DEF Remaining
            <4>3. RowsOf(i, inserted[i] \cup Chunk(i)) = RowsOf(i, inserted[i]) \cup RowsOf(i, Chunk(i))
                BY DEF RowsOf
            <4>4. RowsOf(i, inserted[i])' = RowsOf(i, inserted[i] \cup Chunk(i))
                BY <4>1 DEF RowsOf, RowOf
            <4>5. \A r \in RowsOf(i, Chunk(i)) : r.by = i
                BY DEF RowsOf, RowOf
            <4> QED
                BY <3>p, <4>1, <4>2, <4>3, <4>4, <4>5 DEF Progress
        <3>8. CASE ChunkFails(i)
            BY <3>8, <3>p DEF ChunkFails, Progress
        <3>9. CASE ChunkDeadlocks(i)
            BY <3>9, <3>p DEF ChunkDeadlocks, Progress
        <3>10. CASE ProbeRow(i)
            <4>1. /\ pc' = pc /\ pc[i] = "probe" /\ outcome' = outcome /\ dropped' = dropped
                  /\ \E n : tx' = tx \/ tx' = [tx EXCEPT ![i] = @ \cup {RowOf(i, n)}]
                BY <3>10 DEF ProbeRow
            <4>2. \A n : RowOf(i, n).by = i
                BY DEF RowOf
            <4> QED
                BY <3>p, <4>1, <4>2 DEF Progress
        <3>11. CASE ProbeEnds(i) \/ CommitFails(i) \/ Rollback(i)
            BY <3>11, <3>p DEF ProbeEnds, CommitFails, Rollback, Progress
        <3>12. CASE Commit(i)
            BY <3>12, <3>p DEF Commit, Progress
        <3>13. CASE RevertTable(i) \/ RevertFails(i) \/ Reverted(i)
            BY <3>13, <3>p DEF RevertTable, RevertFails, Reverted, End, Progress
        <3>14. CASE RevertColumn(i)
            BY <3>14, <3>p DEF RevertColumn, Progress
        <3> QED
            BY <1>1, <3>1, <3>2, <3>3, <3>4, <3>5, <3>6, <3>7, <3>8, <3>9, <3>10, <3>11, <3>12, <3>13, <3>14
            DEF ImportStep
    <2> QED
        BY <2>1, <2>2 DEF ProgressInv
<1>2. CASE UNCHANGED vars
    BY <1>2 DEF vars, ProgressInv, Progress, RowsOf, RowOf
<1> QED
    BY <1>1, <1>2 DEF Next, AllDone

\* An import that takes a step has not ended.
LEMMA NotEnded ==
    ASSUME ProgressInv, NEW i \in Imports, ImportStep(i)
    PROVE  pc[i] # "done" /\ outcome[i] = "none" /\ dto[i].mode # "none"
<1>1. pc[i] # "done"
    BY DEF ImportStep, CheckTable, CreateTable, CreateTableFails, Introspect, TableNotFound, AddColumn,
       AddColumnFails, CheckRequired, RequiredUnmapped, Filter, FilterFails, InsertChunk, ChunkFails,
       ChunkDeadlocks, ProbeRow, ProbeEnds, Commit, CommitFails, Rollback, RevertTable, RevertColumn,
       RevertFails, Reverted
<1> QED
    BY <1>1 DEF ProgressInv, Progress

\* Rows come by a commit, or one by one after a deadlock; all of them go
\* with the table.
LEMMA RowsChange ==
    ASSUME NEW i \in Imports, ImportStep(i)
    PROVE  \/ rows' = {} \/ rows' = rows
           \/ Commit(i)
           \/ /\ pc[i] = "probe" /\ lostTx' = lostTx /\ lostTx[i]
              /\ \E n \in probing[i] : rows' = rows \cup {RowOf(i, n)}
<1> USE DEF table
<1>1. CASE ProbeRow(i)
    BY <1>1 DEF ProbeRow
<1>2. CASE RevertTable(i)
    BY <1>2 DEF RevertTable
<1> QED
    BY <1>1, <1>2 DEF ImportStep, CheckTable, CreateTable, CreateTableFails, Introspect, TableNotFound,
       AddColumn, AddColumnFails, CheckRequired, RequiredUnmapped, Filter, FilterFails, InsertChunk,
       ChunkFails, ChunkDeadlocks, ProbeEnds, CommitFails, Rollback, RevertColumn, RevertFails,
       Reverted, Throw

\* Whom a committed row belongs to.
LEMMA Committed ==
    ASSUME TypeOK, ProgressInv, NEW i \in Imports, Commit(i)
    PROVE  /\ rows' = rows \cup RowsOf(i, rowsToInsert[i])
           /\ rowsToInsert' = rowsToInsert /\ outcome'[i] = "ok" /\ ~lostTx[i]
<1>1. /\ inserted[i] \subseteq rowsToInsert[i]
      /\ tx[i] = RowsOf(i, inserted[i])
      /\ ~lostTx[i]
    BY DEF ProgressInv, Progress, Commit
<1>2. inserted[i] = rowsToInsert[i]
    BY <1>1 DEF Commit, Remaining
<1> QED
    BY <1>1, <1>2 DEF Commit, TypeOK

-----------------------------------------------------------------------------
(* All or nothing                                                          *)

LEMMA AllOrNothingInit == Init => AllOrNothing
<1> SUFFICES ASSUME Init, NEW i \in Imports PROVE ImportedRows(i) = {}
    BY DEF AllOrNothing
<1>1. \A r \in rows : r.by = None
    BY DEF Init
<1> QED
    BY <1>1, CsvImportAssumption DEF ImportedRows

LEMMA AllOrNothingStep == TypeOK /\ ProgressInv /\ AllOrNothing /\ [Next]_vars => AllOrNothing'
<1> SUFFICES ASSUME TypeOK, ProgressInv, AllOrNothing, [Next]_vars, NEW k \in Imports
             PROVE  \/ lostTx'[k]
                    \/ ImportedRows(k)' = {}
                    \/ outcome'[k] = "ok" /\ ImportedRows(k)' = rowsToInsert'[k]
    BY DEF AllOrNothing
<1>k. \/ lostTx[k]
      \/ ImportedRows(k) = {}
      \/ outcome[k] = "ok" /\ ImportedRows(k) = rowsToInsert[k]
    BY DEF AllOrNothing
<1> DEFINE Goal == \/ lostTx'[k]
                   \/ ImportedRows(k)' = {}
                   \/ outcome'[k] = "ok" /\ ImportedRows(k)' = rowsToInsert'[k]
<1>e. rows' = {} => ImportedRows(k)' = {}
    BY DEF ImportedRows
<1>s. rows' = rows => ImportedRows(k)' = ImportedRows(k)
    BY DEF ImportedRows
<1>1. ASSUME NEW i \in Imports, ImportStep(i), i # k PROVE Goal
    <2>1. lostTx'[k] = lostTx[k] /\ outcome'[k] = outcome[k] /\ rowsToInsert'[k] = rowsToInsert[k]
        BY <1>1, OthersKeep DEF Locals
    <2>2. ASSUME NEW X, rows' = rows \cup X, \A r \in X : r.by = i PROVE ImportedRows(k)' = ImportedRows(k)
        BY <1>1, <2>2 DEF ImportedRows
    <2>3. CASE Commit(i)
        <3>1. \A r \in RowsOf(i, rowsToInsert[i]) : r.by = i
            BY DEF RowsOf, RowOf
        <3> QED
            BY <1>k, <2>1, <2>2, <2>3, <3>1, Committed
    <2>4. ASSUME NEW n, rows' = rows \cup {RowOf(i, n)} PROVE Goal
        <3>1. RowOf(i, n).by # k
            BY <1>1 DEF RowOf
        <3>2. ImportedRows(k)' = ImportedRows(k)
            BY <2>4, <3>1 DEF ImportedRows
        <3> QED
            BY <1>k, <2>1, <3>2
    <2> QED
        BY <1>1, <1>k, <1>e, <1>s, <2>1, <2>3, <2>4, RowsChange
<1>2. CASE ImportStep(k)
    <2>1. outcome[k] = "none"
        BY <1>2, NotEnded
    <2>2. ASSUME lostTx[k] PROVE lostTx'[k]
        <3>1. pc[k] \in {"probe", "rollback", "revert"}
            BY <1>2, <2>2, NotEnded DEF ProgressInv, Progress, TypeOK, PcValues, Preparing
        <3> QED
            BY <1>2, <2>2, <3>1 DEF ImportStep, CheckTable, CreateTable, CreateTableFails, Introspect,
               TableNotFound, AddColumn, AddColumnFails, CheckRequired, RequiredUnmapped, Filter,
               FilterFails, InsertChunk, ChunkFails, ChunkDeadlocks, ProbeRow, ProbeEnds, Commit,
               CommitFails, Rollback, RevertTable, RevertColumn, RevertFails, Reverted, data
    <2>3. CASE Commit(k) /\ ImportedRows(k) = {}
        <3>1. /\ rows' = rows \cup RowsOf(k, rowsToInsert[k])
              /\ rowsToInsert' = rowsToInsert /\ outcome'[k] = "ok"
            BY <2>3, Committed
        <3>2. \A r \in rows : r.by # k
            BY <2>3 DEF ImportedRows
        <3>3. ASSUME NEW n \in ImportedRows(k)' PROVE n \in rowsToInsert[k]
            <4>1. PICK r \in rows' : r.by = k /\ r.n = n
                BY <3>3 DEF ImportedRows
            <4> QED
                BY <3>1, <3>2, <4>1 DEF RowsOf, RowOf
        <3>4. ASSUME NEW n \in rowsToInsert[k] PROVE n \in ImportedRows(k)'
            <4>1. RowOf(k, n) \in rows' /\ RowOf(k, n).by = k /\ RowOf(k, n).n = n
                BY <3>1 DEF RowsOf, RowOf
            <4> QED
                BY <4>1 DEF ImportedRows
        <3> QED
            BY <3>1, <3>3, <3>4
    <2> QED
        BY <1>2, <1>k, <1>e, <1>s, <2>1, <2>2, <2>3, RowsChange
<1>3. CASE UNCHANGED vars
    BY <1>3, <1>k, <1>s DEF vars, table, data
<1> QED
    BY <1>1, <1>2, <1>3 DEF Next, AllDone

\* "All-or-nothing: every batch inserts inside one transaction": the table
\* never holds a proper part of an import, nor a row of one that fails, but for
\* imports whose transaction the server has ended as a deadlock victim.
THEOREM Atomic == Spec => []AllOrNothing
BY TypeInit, TypeStep, ProgressInit, ProgressStep, AllOrNothingInit, AllOrNothingStep, PTL DEF Spec

-----------------------------------------------------------------------------
(* Undoing the schema                                                      *)

LEMMA OwnerInit == Init => OwnerInv /\ PreparedFailureUndone
<1> SUFFICES ASSUME Init PROVE OwnerInv /\ PreparedFailureUndone
    OBVIOUS
<1>1. \A i \in Imports : creator # i /\ \A c \in Columns : owner[c] # i
    BY CsvImportAssumption DEF Init
<1> QED
    BY <1>1 DEF OwnerInv, PreparedFailureUndone, OwnsNothing

\* What a step does to the table and its columns.
LEMMA SchemaChange ==
    ASSUME TypeOK, NEW i \in Imports, ImportStep(i)
    PROVE  \/ UNCHANGED <<creator, owner>>
           \/ CreateTable(i) \/ AddColumn(i) \/ RevertTable(i) \/ RevertColumn(i)
BY DEF table, ImportStep, CheckTable, CreateTableFails, Introspect, TableNotFound, AddColumnFails,
       CheckRequired, RequiredUnmapped, Filter, FilterFails, InsertChunk, ChunkFails, ChunkDeadlocks,
       ProbeRow, ProbeEnds, Commit, CommitFails, Rollback, RevertFails, Reverted, Throw

LEMMA OwnerStep == TypeOK /\ ProgressInv /\ OwnerInv /\ [Next]_vars => OwnerInv'
<1> SUFFICES ASSUME TypeOK, ProgressInv, OwnerInv, [Next]_vars PROVE OwnerInv'
    OBVIOUS
<1>o. \A k \in Imports : /\ creator = k => tableCreated[k]
                         /\ \A c \in Columns : owner[c] = k => creator = k \/ c \in adding[k] \ dropped[k]
    BY DEF OwnerInv
<1>a. Absent \notin Imports
    BY CsvImportAssumption
<1>1. ASSUME NEW i \in Imports, ImportStep(i) PROVE OwnerInv'
    <2>k. \A k \in Imports : k # i => tableCreated'[k] = tableCreated[k] /\ adding'[k] = adding[k]
                                                               /\ dropped'[k] = dropped[k]
        BY <1>1, OthersKeep DEF Locals
    <2>1. CASE CreateTable(i)
        BY <2>1, <2>k, <1>a DEF CreateTable, OwnerInv, TypeOK
    <2>2. CASE AddColumn(i)
        <3>1. PICK c \in Columns : /\ owner' = [owner EXCEPT ![c] = i]
                                   /\ adding' = [adding EXCEPT ![i] = @ \cup {c}]
            BY <2>2, Requests DEF AddColumn, Missing
        <3>2. creator' = creator /\ tableCreated' = tableCreated /\ dropped' = dropped /\ dropped[i] = {}
            BY <2>2 DEF AddColumn, ProgressInv, Progress
        <3>3. adding'[i] = adding[i] \cup {c} /\ \A k \in Imports : adding[k] \subseteq adding'[k]
            BY <3>1 DEF TypeOK
        <3>4. \A b \in Columns : owner'[b] = IF b = c THEN i ELSE owner[b]
            BY <3>1 DEF TypeOK
        <3> QED
            BY <1>o, <3>2, <3>3, <3>4 DEF OwnerInv
    <2>3. CASE RevertTable(i)
        BY <2>3, <1>a DEF RevertTable, OwnerInv
    <2>4. CASE RevertColumn(i)
        <3>1. PICK c \in Columns : /\ owner' = [owner EXCEPT ![c] = Absent]
                                   /\ dropped' = [dropped EXCEPT ![i] = @ \cup {c}]
            BY <2>4 DEF RevertColumn, cols
        <3>2. creator' = creator /\ tableCreated' = tableCreated /\ adding' = adding
            BY <2>4 DEF RevertColumn
        <3>3. /\ \A b \in Columns : owner'[b] = IF b = c THEN Absent ELSE owner[b]
              /\ \A k \in Imports : dropped'[k] \subseteq dropped[k] \cup {c}
            BY <3>1 DEF TypeOK
        <3> QED
            BY <1>o, <1>a, <3>2, <3>3 DEF OwnerInv
    <2>5. CASE ~CreateTable(i) /\ ~AddColumn(i) /\ ~RevertTable(i) /\ ~RevertColumn(i)
        <3>1. UNCHANGED <<tableCreated, adding, dropped>>
            BY <1>1, <2>5 DEF schema, ImportStep, CheckTable, CreateTableFails, Introspect, TableNotFound,
               AddColumnFails, CheckRequired, RequiredUnmapped, Filter, FilterFails, InsertChunk, ChunkFails,
               ChunkDeadlocks, ProbeRow, ProbeEnds, Commit, CommitFails, Rollback, RevertFails, Reverted, Throw
        <3>2. UNCHANGED <<creator, owner>>
            BY <1>1, <2>5, SchemaChange
        <3> QED
            BY <1>o, <3>1, <3>2 DEF OwnerInv
    <2> QED
        BY <2>1, <2>2, <2>3, <2>4, <2>5
<1>2. CASE UNCHANGED vars
    BY <1>2 DEF vars, table, schema, OwnerInv
<1> QED
    BY <1>1, <1>2 DEF Next, AllDone

\* An import that fails after the schema was prepared, and whose undo was not
\* refused, leaves neither table nor column, whatever others do meanwhile.
LEMMA UndoneStep ==
    TypeOK /\ ProgressInv /\ OwnerInv /\ PreparedFailureUndone /\ [Next]_vars => PreparedFailureUndone'
<1> SUFFICES ASSUME TypeOK, ProgressInv, OwnerInv, PreparedFailureUndone, [Next]_vars,
                    NEW k \in Imports, outcome'[k] = "failed",
                    tableCreated'[k] \/ columnsAdded'[k] = adding'[k]
             PROVE  creator' # k /\ \A c \in Columns : owner'[c] # k
    BY DEF PreparedFailureUndone, OwnsNothing
<1>k. outcome[k] = "failed" /\ (tableCreated[k] \/ columnsAdded[k] = adding[k])
        => creator # k /\ \A c \in Columns : owner[c] # k
    BY DEF PreparedFailureUndone, OwnsNothing
<1>a. Absent \notin Imports
    BY CsvImportAssumption
<1>1. ASSUME NEW i \in Imports, ImportStep(i), i # k
      PROVE  creator' # k /\ \A c \in Columns : owner'[c] # k
    <2>1. creator # k /\ \A c \in Columns : owner[c] # k
        BY <1>1, <1>k, OthersKeep DEF Locals
    <2>2. CASE CreateTable(i)
        BY <1>1, <1>a, <2>2 DEF CreateTable
    <2>3. CASE AddColumn(i)
        BY <1>1, <2>1, <2>3 DEF AddColumn, TypeOK
    <2>4. CASE RevertTable(i)
        BY <1>a, <2>4 DEF RevertTable
    <2>5. CASE RevertColumn(i)
        BY <1>a, <2>1, <2>5 DEF RevertColumn, TypeOK
    <2> QED
        BY <1>1, <2>1, <2>2, <2>3, <2>4, <2>5, SchemaChange
<1>2. CASE ImportStep(k)
    <2>1. RevertTable(k) \/ Reverted(k)
        <3>1. outcome[k] = "none"
            BY <1>2, NotEnded
        <3> QED
            BY <1>2, <3>1 DEF End, ImportStep, CheckTable, CreateTable, CreateTableFails, Introspect,
               TableNotFound, AddColumn, AddColumnFails, CheckRequired, RequiredUnmapped, Filter, FilterFails,
               InsertChunk, ChunkFails, ChunkDeadlocks, ProbeRow, ProbeEnds, Commit, CommitFails, Rollback,
               RevertColumn, RevertFails, Throw, TypeOK
    <2>2. CASE RevertTable(k)
        BY <1>a, <2>2 DEF RevertTable
    <2>3. CASE Reverted(k)
        <3>1. /\ ~tableCreated[k] /\ dropped[k] = columnsAdded[k] /\ columnsAdded[k] = adding[k]
              /\ UNCHANGED <<creator, owner>>
            BY <2>3 DEF Reverted, table, schema
        <3> QED
            BY <3>1 DEF OwnerInv
    <2> QED
        BY <2>1, <2>2, <2>3
<1>3. CASE UNCHANGED vars
    BY <1>3, <1>k DEF vars, table, schema
<1> QED
    BY <1>1, <1>2, <1>3 DEF Next, AllDone

\* revertSchemaChanges: an import that fails after the schema was prepared,
\* and whose undo the database does not refuse, leaves neither table nor
\* column behind, whatever other imports do meanwhile.
THEOREM SchemaUndone == Spec => []PreparedFailureUndone
BY TypeInit, TypeStep, ProgressInit, ProgressStep, OwnerInit, OwnerStep, UndoneStep, PTL DEF Spec

-----------------------------------------------------------------------------
(* Duplicates                                                              *)

LEMMA RowsInit == Init => RowsInv
BY CsvImportAssumption DEF Init, RowsInv

LEMMA RowsStep == TypeOK /\ ProgressInv /\ RowsInv /\ [Next]_vars => RowsInv'
<1> SUFFICES ASSUME TypeOK, ProgressInv, RowsInv, [Next]_vars,
                    NEW r \in rows', r.by \in Imports
             PROVE  dto'[r.by].mode # "none" /\ r.n \in RowNumbers(r.by)' /\ r = RowOf(r.by, r.n)'
    BY DEF RowsInv
<1>1. ASSUME dto' = dto, r \in rows
      PROVE  dto'[r.by].mode # "none" /\ r.n \in RowNumbers(r.by)' /\ r = RowOf(r.by, r.n)'
    BY <1>1 DEF RowsInv, RowNumbers, RowOf
<1>2. ASSUME NEW i \in Imports, ImportStep(i)
      PROVE  dto'[r.by].mode # "none" /\ r.n \in RowNumbers(r.by)' /\ r = RowOf(r.by, r.n)'
    <2>1. dto' = dto /\ dto[i].mode # "none"
        BY <1>2, NotEnded, RequestKept
    <2>2. ASSUME NEW n \in RowNumbers(i), r = RowOf(i, n)
          PROVE  dto'[r.by].mode # "none" /\ r.n \in RowNumbers(r.by)' /\ r = RowOf(r.by, r.n)'
        BY <2>1, <2>2 DEF RowOf, RowNumbers
    <2>3. CASE Commit(i)
        <3>1. r \in rows \/ \E n \in rowsToInsert[i] : r = RowOf(i, n)
            BY <2>3, Committed DEF RowsOf
        <3> QED
            BY <1>1, <2>1, <2>2, <3>1 DEF TypeOK
    <2>4. ASSUME NEW n \in probing[i], rows' = rows \cup {RowOf(i, n)}
          PROVE  dto'[r.by].mode # "none" /\ r.n \in RowNumbers(r.by)' /\ r = RowOf(r.by, r.n)'
        BY <1>1, <2>1, <2>2, <2>4 DEF TypeOK
    <2> QED
        BY <1>1, <1>2, <2>1, <2>3, <2>4, RowsChange
<1>3. CASE UNCHANGED vars
    BY <1>1, <1>3 DEF vars, table
<1> QED
    BY <1>2, <1>3 DEF Next, AllDone

\* A key of the file is one of its keys.
LEMMA KeyOfFile ==
    ASSUME TypeOK, NEW i \in Imports, NEW n \in RowNumbers(i)
    PROVE  dto[i].keys[n] \in Range(dto[i].keys)
<1>1. dto[i].keys \in Seq(KeyTexts \cup {Null})
    BY Requests DEF DtoOK
<1> QED
    BY <1>1 DEF Range, RowNumbers

LEMMA FilterInit == Init => FilterInv
<1> SUFFICES ASSUME Init, NEW i \in Imports
             PROVE  /\ ~lostTx[i] /\ pc[i] # "insert"
                    /\ dto[i].mode = "new" => pc[i] \notin {"introspect", "alter", "filter"}
                    /\ dto[i].mode = "existing" => pc[i] \notin {"check", "create"}
    BY DEF FilterInv
<1>1. dto[i].mode \in {"new", "existing", "none"}
    BY TypeInit, Requests DEF DtoOK
<1>2. pc[i] = CASE dto[i].mode = "new" -> "check" [] dto[i].mode = "existing" -> "introspect" [] OTHER -> "done"
    BY DEF Init
<1>3. CASE dto[i].mode = "new"
    BY <1>2, <1>3 DEF Init
<1>4. CASE dto[i].mode = "existing"
    BY <1>2, <1>4 DEF Init
<1>5. CASE dto[i].mode = "none"
    BY <1>2, <1>5 DEF Init
<1> QED
    BY <1>1, <1>3, <1>4, <1>5

\* Whom an import alone meets.
LEMMA AloneSteps ==
    ASSUME ProgressInv, NEW k \in Imports, Alone(k), NEW i \in Imports, ImportStep(i)
    PROVE  i = k
BY NotEnded DEF Alone

LEMMA FilterStep == TypeOK /\ ProgressInv /\ FilterInv /\ [Next]_vars => FilterInv'
<1> SUFFICES ASSUME TypeOK, ProgressInv, FilterInv, [Next]_vars, NEW k \in Imports, Alone(k)'
             PROVE  /\ ~lostTx'[k]
                    /\ pc'[k] = "insert" =>
                        rowsToInsert'[k] = IF dto'[k].mode = "existing" /\ dto'[k].dedupe
                                           THEN Kept(k)' ELSE RowNumbers(k)'
                    /\ dto'[k].mode = "new" => pc'[k] \notin {"introspect", "alter", "filter"}
                    /\ dto'[k].mode = "existing" => pc'[k] \notin {"check", "create"}
    BY DEF FilterInv
<1> DEFINE Goal == /\ ~lostTx'[k]
                   /\ pc'[k] = "insert" =>
                       rowsToInsert'[k] = IF dto'[k].mode = "existing" /\ dto'[k].dedupe
                                          THEN Kept(k)' ELSE RowNumbers(k)'
                   /\ dto'[k].mode = "new" => pc'[k] \notin {"introspect", "alter", "filter"}
                   /\ dto'[k].mode = "existing" => pc'[k] \notin {"check", "create"}
<1> USE DEF table, schema, data
<1>k. dto' = dto => Alone(k)
    BY DEF Alone
<1>f. Alone(k) =>
        /\ ~lostTx[k]
        /\ pc[k] = "insert" =>
            rowsToInsert[k] = IF dto[k].mode = "existing" /\ dto[k].dedupe THEN Kept(k) ELSE RowNumbers(k)
        /\ dto[k].mode = "new" => pc[k] \notin {"introspect", "alter", "filter"}
        /\ dto[k].mode = "existing" => pc[k] \notin {"check", "create"}
    BY DEF FilterInv
<1>n. dto' = dto => RowNumbers(k)' = RowNumbers(k)
    BY DEF RowNumbers
<1>e. dto' = dto /\ rows' = rows => Kept(k)' = Kept(k)
    BY DEF Kept, ExistingKeys, RowNumbers
<1>1. ASSUME NEW i \in Imports, ImportStep(i) PROVE Goal
    <2>1. dto' = dto /\ Alone(k) /\ i = k
        BY <1>1, <1>k, RequestKept, AloneSteps
    <2>2. ImportStep(k)
        BY <1>1, <2>1
    <2>m. dto[k].mode \in {"new", "existing", "none"} /\ dto[k].mode # "none"
        BY <2>2, NotEnded, Requests DEF DtoOK
    <2> HIDE DEF Goal
    <2> USE DEF TypeOK, Goto
    <2>3. CASE CheckTable(k)
        BY <2>1, <2>3, <1>f DEF CheckTable, Throw, Goal
    <2>4. CASE CreateTable(k)
        BY <2>1, <2>4, <1>f, <1>n DEF CreateTable, Goal
    <2>5. ASSUME Throw(k) PROVE Goal
        BY <2>1, <2>5, <1>f DEF Throw, Goal
    <2>6. CASE Introspect(k) \/ CheckRequired(k)
        BY <2>1, <2>6, <1>f DEF Introspect, CheckRequired, Goal
    <2>7. CASE AddColumn(k)
        BY <2>1, <2>7, <1>f DEF AddColumn, Goal
    <2>8. CASE Filter(k)
        <3>1. /\ rowsToInsert'[k] = IF dto[k].dedupe THEN Kept(k) ELSE RowNumbers(k)
              /\ pc'[k] = "insert" /\ pc[k] = "filter" /\ lostTx' = lostTx /\ rows' = rows
            BY <2>8 DEF Filter
        <3>2. dto[k].mode = "existing"
            BY <2>1, <2>m, <3>1, <1>f
        <3> QED
            BY <2>1, <3>1, <3>2, <1>e, <1>f, <1>n DEF Goal
    <2>9. CASE InsertChunk(k)
        BY <2>1, <2>9, <1>e, <1>f, <1>n DEF InsertChunk, Goal
    <2>10. CASE ChunkFails(k) \/ ProbeEnds(k) \/ CommitFails(k) \/ Rollback(k)
        BY <2>1, <2>10, <1>f DEF ChunkFails, ProbeEnds, CommitFails, Rollback, Goal
    <2>11. CASE ChunkDeadlocks(k)
        BY <2>1, <2>11 DEF ChunkDeadlocks, Alone, ProgressInv, Progress
    <2>12. CASE ProbeRow(k)
        <3>1. pc[k] = "probe" /\ pc' = pc /\ lostTx' = lostTx
            BY <2>12 DEF ProbeRow
        <3> QED
            BY <2>1, <3>1, <1>f DEF Goal
    <2>13. CASE Commit(k) \/ RevertTable(k) \/ RevertFails(k) \/ Reverted(k)
        BY <2>1, <2>13, <1>f DEF Commit, RevertTable, RevertFails, Reverted, End, Goal
    <2>14. CASE RevertColumn(k)
        BY <2>1, <2>14, <1>f DEF RevertColumn, Goal
    <2>15. CASE CreateTableFails(k) \/ TableNotFound(k) \/ AddColumnFails(k) \/ RequiredUnmapped(k) \/ FilterFails(k)
        BY <2>5, <2>15 DEF CreateTableFails, TableNotFound, AddColumnFails, RequiredUnmapped, FilterFails
    <2> QED
        BY <2>2, <2>3, <2>4, <2>6, <2>7, <2>8, <2>9, <2>10, <2>11, <2>12, <2>13, <2>14, <2>15 DEF ImportStep
<1>2. CASE UNCHANGED vars
    BY <1>2, <1>e, <1>f, <1>k, <1>n DEF vars
<1> QED
    BY <1>1, <1>2 DEF Next, AllDone

LEMMA SkippedAreDuplicates == TypeOK /\ FilterInv => OnlyDuplicatesSkipped
<1> SUFFICES ASSUME TypeOK, FilterInv, NEW i \in Imports, pc[i] = "insert", Alone(i),
                    NEW n \in RowNumbers(i) \ rowsToInsert[i],
                    ~ \E m \in 1..(n - 1) : dto[i].keys[m] = dto[i].keys[n]
             PROVE  /\ dto[i].keys[n] # Null
                    /\ \E r \in rows : r.key # Null /\ Canon[r.key] = Canon[dto[i].keys[n]]
    BY DEF OnlyDuplicatesSkipped
<1>1. n \notin Kept(i)
    BY DEF FilterInv
<1>2. dto[i].keys[n] \in ExistingKeys(i)
    BY <1>1 DEF Kept
<1>3. PICK s \in rows : s.key # Null /\ dto[i].keys[n] = Canon[s.key]
    BY <1>2 DEF ExistingKeys
<1>4. s.key \in KeyTexts
    BY <1>3 DEF TypeOK, AllRows
<1> QED
    BY <1>3, <1>4, CsvImportAssumption

\* filterDuplicates, for an import with no other beside it, skips a row only when
\* its key is already stored or an earlier row of the file carries the same key.
THEOREM DuplicatesSkipped == Spec => []OnlyDuplicatesSkipped
BY TypeInit, TypeStep, ProgressInit, ProgressStep, FilterInit, FilterStep, SkippedAreDuplicates, PTL DEF Spec

LEMMA DedupedInit == Init => DedupedKeysUnique
BY CsvImportAssumption DEF Init, DedupedKeysUnique

LEMMA DedupedStep ==
    TypeOK /\ ProgressInv /\ AllOrNothing /\ RowsInv /\ FilterInv /\ DedupedKeysUnique /\ [Next]_vars
        => DedupedKeysUnique'
<1> SUFFICES ASSUME TypeOK, ProgressInv, AllOrNothing, RowsInv, FilterInv, DedupedKeysUnique, [Next]_vars,
                    NEW r \in rows', NEW s \in rows', r.by \in Imports, Alone(r.by)',
                    dto'[r.by].mode = "existing", dto'[r.by].dedupe, CanonicalKeys(r.by)',
                    r # s, r.key # Null, s.key # Null
             PROVE  Canon[r.key] # Canon[s.key]
    BY DEF DedupedKeysUnique
<1> DEFINE k == r.by
<1>k. k \in Imports
    OBVIOUS
<1> HIDE DEF k
<1>1. ASSUME dto' = dto, rows' \subseteq rows PROVE Canon[r.key] # Canon[s.key]
    BY <1>1 DEF DedupedKeysUnique, Alone, CanonicalKeys
<1>2. ASSUME NEW i \in Imports, ImportStep(i) PROVE Canon[r.key] # Canon[s.key]
    <2>1. dto' = dto /\ Alone(k) /\ CanonicalKeys(k) /\ dto[k].mode = "existing" /\ dto[k].dedupe
        BY <1>2, RequestKept DEF k, Alone, CanonicalKeys
    <2>2. i = k
        BY <1>2, <1>k, <2>1, AloneSteps
    <2>3. CASE Commit(k)
        <3>1. rows' = rows \cup RowsOf(k, rowsToInsert[k]) /\ rowsToInsert[k] = Kept(k)
            BY <1>k, <2>1, <2>3, Committed DEF FilterInv, Commit
        <3>2. \A q \in rows : q.by \notin Imports
            <4>1. outcome[k] = "none" /\ ~lostTx[k]
                BY <1>2, <1>k, <2>1, <2>2, NotEnded DEF FilterInv
            <4>2. ImportedRows(k) = {}
                BY <1>k, <4>1 DEF AllOrNothing
            <4> QED
                BY <2>1, <4>2 DEF ImportedRows, RowsInv, Alone
        <3>3. PICK n \in Kept(k) : r = RowOf(k, n)
            BY <3>1, <3>2 DEF RowsOf
        <3>4. /\ r.key = dto[k].keys[n] /\ n \in RowNumbers(k)
              /\ r.key \in Range(dto[k].keys) \ {Null} /\ Canon[r.key] = r.key
            BY <1>k, <2>1, <3>3, KeyOfFile DEF Kept, RowOf, CanonicalKeys
        <3>5. ASSUME NEW m \in Kept(k), s = RowOf(k, m) PROVE Canon[r.key] # Canon[s.key]
            <4>1. s.key = dto[k].keys[m] /\ m \in RowNumbers(k) /\ Canon[s.key] = s.key
                BY <1>k, <2>1, <3>5, KeyOfFile DEF Kept, RowOf, CanonicalKeys
            <4>2. m # n
                BY <3>3, <3>5
            <4>3. m \in Nat /\ n \in Nat /\ m >= 1 /\ n >= 1
                BY <1>k, <3>4, <4>1, Requests DEF RowNumbers
            <4>4. m \in 1..(n - 1) \/ n \in 1..(m - 1)
                BY <4>2, <4>3
            <4>5. dto[k].keys[m] # dto[k].keys[n]
                BY <4>4 DEF Kept
            <4> QED
                BY <3>4, <4>1, <4>5
        <3>6. ASSUME s \in rows, Canon[r.key] = Canon[s.key] PROVE FALSE
            <4>1. Canon[s.key] \in ExistingKeys(k)
                BY <3>4, <3>6 DEF ExistingKeys
            <4> QED
                BY <3>4, <3>6, <4>1 DEF Kept
        <3> QED
            BY <3>1, <3>5, <3>6 DEF RowsOf
    <2>4. ~lostTx[k]
        BY <1>k, <2>1 DEF FilterInv
    <2> QED
        BY <1>1, <1>2, <2>1, <2>2, <2>3, <2>4, RowsChange
<1>3. CASE UNCHANGED vars
    BY <1>1, <1>3 DEF vars, table
<1> QED
    BY <1>2, <1>3 DEF Next, AllDone

\* "Skip rows that already exist": a deduplicated import of canonical keys,
\* with no other beside it, adds no second row with a stored key.
THEOREM KeysUnique == Spec => []DedupedKeysUnique
BY TypeInit, TypeStep, ProgressInit, ProgressStep, AllOrNothingInit, AllOrNothingStep,
   RowsInit, RowsStep, FilterInit, FilterStep, DedupedInit, DedupedStep, PTL DEF Spec
=============================================================================
