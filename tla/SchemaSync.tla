----------------------------- MODULE SchemaSync -----------------------------
(***************************************************************************)
(* The column metadata of one connection, apps/api/src/connections/        *)
(* connections.service.ts: syncSchema replaces the stored columns of every *)
(* table by what the live database has, describeTable lets the AI fill in  *)
(* descriptions, updateColumnDescription stores the ones people write.     *)
(*                                                                         *)
(* Every Prisma call is a step of its own: there is no transaction around  *)
(* any of the three.  Each request runs once; a column row is identified   *)
(* by the sync that created it, as it is by a fresh id in the code.        *)
(***************************************************************************)
EXTENDS Naturals, FiniteSets

CONSTANTS
    Tables,     \* table names of the connection's database
    ColNames,   \* column names
    Syncs,      \* requests for syncSchema
    Describers, \* requests for describeTable; each stands for its AI's texts
    Editors,    \* requests for updateColumnDescription and the texts typed
    Initial,    \* the sync that ran before the behaviour starts
    Null,       \* no description
    MaxDdl      \* bound: how often the live schema changes

ASSUME SchemaSyncAssumption ==
    /\ Initial \notin Syncs
    /\ Null \notin Describers \cup Editors
    /\ Describers \cap Editors = {}
    /\ Syncs \cap (Describers \cup Editors) = {}
    /\ MaxDdl \in Nat

VARIABLES
    source,     \* the live database: the columns of each table
    ddl,        \* how often it has changed
    store,      \* the ColumnMetadata rows
    pc,         \* the next call of each request
    cur,        \* the table a request works on
    todo,       \* tables a sync has still to write
    found,      \* what discoverSchema returned to a sync
    preserved,  \* the descriptions a sync read before deleting
    snapshot,   \* the column rows a describe or an edit has read
    saved,      \* the description last confirmed for a column of the source
    overlap     \* history: pairs of requests that ran at the same time

vars == <<source, ddl, store, pc, cur, todo, found, preserved, snapshot, saved, overlap>>

Requests == Syncs \cup Describers \cup Editors
Descriptions == Describers \cup Editors \cup {Null}
Row == [table : Tables, by : Syncs \cup {Initial}, name : ColNames, desc : Descriptions]
PcValues == {"idle", "upsert", "read", "delete", "create", "fill", "write", "done", "failed"}

TypeOK ==
    /\ source \in [Tables -> SUBSET ColNames]
    /\ ddl \in 0..MaxDdl
    /\ store \subseteq Row
    /\ pc \in [Requests -> PcValues]
    /\ cur \in [Requests -> Tables]
    /\ todo \in [Syncs -> SUBSET Tables]
    /\ found \in [Syncs -> [Tables -> SUBSET ColNames]]
    /\ preserved \in [Syncs -> [ColNames -> Descriptions]]
    /\ snapshot \in [Describers \cup Editors -> SUBSET Row]
    /\ saved \in [Tables -> [ColNames -> Descriptions]]
    /\ overlap \subseteq SUBSET Requests

\* A first sync has run: every column is stored, without a description.
Init ==
    /\ source \in [Tables -> SUBSET ColNames]
    /\ \A t \in Tables : source[t] # {}
    /\ ddl = 0
    /\ store = {[table |-> t, by |-> Initial, name |-> c, desc |-> Null] :
                    t \in Tables, c \in ColNames} \cap
               {r \in Row : r.name \in source[r.table]}
    /\ pc = [q \in Requests |-> "idle"]
    /\ cur \in {[q \in Requests |-> t] : t \in Tables}
    /\ todo = [s \in Syncs |-> {}]
    /\ found = [s \in Syncs |-> [t \in Tables |-> {}]]
    /\ preserved = [s \in Syncs |-> [c \in ColNames |-> Null]]
    /\ snapshot = [q \in Describers \cup Editors |-> {}]
    /\ saved = [t \in Tables |-> [c \in ColNames |-> Null]]
    /\ overlap = {}

-----------------------------------------------------------------------------
RowsOf(t) == {r \in store : r.table = t}
SameId(r, q) == r.table = q.table /\ r.by = q.by /\ r.name = q.name
Running(q) == pc[q] \notin {"idle", "done", "failed"}
MayStart(q) ==
    /\ pc[q] = "idle"
    /\ overlap' = overlap \cup {{p, q} : p \in {r \in Requests : Running(r)}}
Goto(q, label) == pc' = [pc EXCEPT ![q] = label]

\* The local variables of a request end with it.
Return(q, label) ==
    /\ Goto(q, label)
    /\ todo' = [s \in Syncs |-> IF s = q THEN {} ELSE todo[s]]
    /\ found' = [s \in Syncs |-> IF s = q THEN [t \in Tables |-> {}] ELSE found[s]]
    /\ preserved' = [s \in Syncs |-> IF s = q THEN [c \in ColNames |-> Null] ELSE preserved[s]]
    /\ snapshot' = [d \in Describers \cup Editors |-> IF d = q THEN {} ELSE snapshot[d]]

-----------------------------------------------------------------------------
(* syncSchema                                                              *)

\* discoverSchema: the live tables and their columns.
Discover(s) ==
    /\ MayStart(s)
    /\ found' = [found EXCEPT ![s] = source]
    /\ todo' = [todo EXCEPT ![s] = {t \in Tables : source[t] # {}}]
    /\ Goto(s, "upsert")
    /\ UNCHANGED <<source, ddl, store, cur, preserved, snapshot, saved>>

\* The next table: its own record is created or refreshed.
UpsertTable(s) ==
    /\ pc[s] = "upsert"
    /\ \E t \in todo[s] :
        /\ cur' = [cur EXCEPT ![s] = t]
        /\ todo' = [todo EXCEPT ![s] = @ \ {t}]
    /\ Goto(s, "read")
    /\ UNCHANGED <<source, ddl, store, found, preserved, snapshot, saved, overlap>>

\* Read the descriptions to keep.  The Map keeps one row per name, whichever
\* findMany returned last.
ReadExisting(s) ==
    /\ pc[s] = "read"
    /\ \E p \in [ColNames -> Descriptions] :
        /\ \A c \in ColNames :
            LET same == {r \in RowsOf(cur[s]) : r.name = c} IN
            IF same = {} THEN p[c] = Null ELSE \E r \in same : p[c] = r.desc
        /\ preserved' = [preserved EXCEPT ![s] = p]
    /\ Goto(s, "delete")
    /\ UNCHANGED <<source, ddl, store, cur, todo, found, snapshot, saved, overlap>>

\* Mutant: the old columns are not deleted.
DeleteNothing(s) ==
    /\ pc[s] = "delete"
    /\ Goto(s, "create")
    /\ UNCHANGED <<source, ddl, store, cur, todo, found, preserved, snapshot, saved, overlap>>

DeleteColumns(s) ==
    /\ pc[s] = "delete"
    /\ store' = store \ RowsOf(cur[s])
    /\ Goto(s, "create")
    /\ UNCHANGED <<source, ddl, cur, todo, found, preserved, snapshot, saved, overlap>>

\* Mutants: the descriptions are not carried over; only the columns that were
\* described are inserted again.
NewRowsBare(s) ==
    {[table |-> cur[s], by |-> s, name |-> c, desc |-> Null] : c \in found[s][cur[s]]}
NewRowsKnown(s) ==
    {[table |-> cur[s], by |-> s, name |-> c, desc |-> preserved[s][c]] :
        c \in {b \in found[s][cur[s]] : preserved[s][b] # Null}}

\* The rows of the discovered columns, with the descriptions read before.
NewRows(s) ==
    {[table |-> cur[s], by |-> s, name |-> c, desc |-> preserved[s][c]] :
        c \in found[s][cur[s]]}

CreateColumns(s) ==
    /\ pc[s] = "create"
    /\ store' = store \cup NewRows(s)
    /\ Goto(s, "upsert")
    /\ UNCHANGED <<source, ddl, cur, todo, found, preserved, snapshot, saved, overlap>>

\* lastSyncedAt and status are set: the sync is over.
FinishSync(s) ==
    /\ pc[s] = "upsert"
    /\ todo[s] = {}
    /\ Return(s, "done")
    /\ UNCHANGED <<source, ddl, store, cur, saved, overlap>>

\* The process stops, or a call fails: nothing undoes the calls before.
CrashSync(s) ==
    /\ Running(s)
    /\ Return(s, "failed")
    /\ UNCHANGED <<source, ddl, store, cur, saved, overlap>>

-----------------------------------------------------------------------------
(* describeTable                                                           *)

\* Read the table and its columns, then ask the AI.
ReadTable(d) ==
    /\ MayStart(d)
    /\ \E t \in Tables :
        /\ cur' = [cur EXCEPT ![d] = t]
        /\ snapshot' = [snapshot EXCEPT ![d] = RowsOf(t)]
    /\ Goto(d, "fill")
    /\ UNCHANGED <<source, ddl, store, todo, found, preserved, saved>>

\* columnMetadata.update by id, setting the description to text: the row
\* keeps the rest, and what was saved is what a reader should find from now on.
Describe(q, text) ==
    /\ store' = {IF SameId(r, q) THEN [r EXCEPT !.desc = text] ELSE r : r \in store}
    /\ saved' = [saved EXCEPT ![q.table][q.name] =
                    IF q.name \in source[q.table] THEN text ELSE @]

Stored(q) == \E r \in store : SameId(r, q)

\* Mutant: a text replaces what the column had.
FillsAlways(q, text) == text

\* A text is used when the column had none when it was read.
Fills(q, text) == text /\ q.desc = Null

\* The next column of the snapshot.  There may be a text for it, used when
\* the column had none when it was read, and sampled values; with neither
\* nothing is written, otherwise the update throws if the row is gone.
FillColumn(d) ==
    /\ pc[d] = "fill"
    /\ \E q \in snapshot[d], text, sampled \in BOOLEAN :
        LET fills == Fills(q, text)
            Advance == /\ snapshot' = [snapshot EXCEPT ![d] = @ \ {q}]
                     /\ UNCHANGED <<pc, todo, found, preserved>>
        IN
        \/ ~fills /\ ~sampled /\ Advance /\ UNCHANGED <<store, saved>>
        \/ fills /\ Stored(q) /\ Describe(q, d) /\ Advance
        \/ ~fills /\ sampled /\ Stored(q) /\ Advance /\ UNCHANGED <<store, saved>>
        \/ (fills \/ sampled) /\ ~Stored(q) /\ Return(d, "failed") /\ UNCHANGED <<store, saved>>
    /\ UNCHANGED <<source, ddl, cur, overlap>>

FinishDescribe(d) ==
    /\ pc[d] = "fill"
    /\ snapshot[d] = {}
    /\ Return(d, "done")
    /\ UNCHANGED <<source, ddl, store, cur, saved, overlap>>

-----------------------------------------------------------------------------
(* updateColumnDescription                                                 *)

\* Find the column's row.
FindColumn(h) ==
    /\ MayStart(h)
    /\ \E r \in store :
        /\ cur' = [cur EXCEPT ![h] = r.table]
        /\ snapshot' = [snapshot EXCEPT ![h] = {r}]
    /\ Goto(h, "write")
    /\ UNCHANGED <<source, ddl, store, todo, found, preserved, saved>>

\* Write what was typed, nothing when it was blank, to the row found.
WriteColumn(h) ==
    /\ pc[h] = "write"
    /\ \E q \in snapshot[h], text \in {h, Null} :
        /\ Stored(q)
        /\ Describe(q, text)
    /\ Return(h, "done")
    /\ UNCHANGED <<source, ddl, cur, overlap>>

\* The row found is gone: the update throws.
WriteFails(h) ==
    /\ pc[h] = "write"
    /\ \A q \in snapshot[h] : ~Stored(q)
    /\ Return(h, "failed")
    /\ UNCHANGED <<source, ddl, store, cur, saved, overlap>>

-----------------------------------------------------------------------------
\* The customer alters a table.  A dropped column takes its description with
\* it, whatever the metadata still says.
AlterSource(t, c) ==
    /\ ddl < MaxDdl
    /\ ddl' = ddl + 1
    /\ source' = [source EXCEPT ![t] = IF c \in @ THEN @ \ {c} ELSE @ \cup {c}]
    /\ source'[t] # {}
    /\ saved' = [saved EXCEPT ![t][c] = Null]
    /\ UNCHANGED <<store, pc, cur, todo, found, preserved, snapshot, overlap>>

SyncStep(s) ==
    \/ Discover(s) \/ UpsertTable(s) \/ ReadExisting(s) \/ DeleteColumns(s)
    \/ CreateColumns(s) \/ FinishSync(s) \/ CrashSync(s)

DescribeStep(d) == ReadTable(d) \/ FillColumn(d) \/ FinishDescribe(d)

EditStep(h) == FindColumn(h) \/ WriteColumn(h) \/ WriteFails(h)

\* Nothing more is asked of the service.
AllDone == (\A q \in Requests : ~Running(q)) /\ UNCHANGED vars

Next ==
    \/ \E s \in Syncs : SyncStep(s)
    \/ \E d \in Describers : DescribeStep(d)
    \/ \E h \in Editors : EditStep(h)
    \/ \E t \in Tables, c \in ColNames : AlterSource(t, c)
    \/ AllDone

Spec == Init /\ [][Next]_vars

-----------------------------------------------------------------------------
(* Properties                                                              *)

BeingReplaced(t) == \E s \in Syncs : pc[s] = "create" /\ cur[s] = t

\* Has a request of A ever run at the same time as one of B?
Met(A, B) == \E a \in A, b \in B : {a, b} \in overlap

\* A sync that stopped between deleting a table's columns and inserting them.
Interrupted == \E s \in Syncs : pc[s] = "failed"

\* "Preserve descriptions + sample values across re-syncs": the description
\* last confirmed for a column is still stored, unless the customer dropped
\* the column.  Not so while a sync is between deleting and re-inserting,
\* after one has stopped there, and when other requests ran during a sync.
DescriptionsSurvive ==
    ~Interrupted /\ ~Met(Syncs, Requests) =>
        \A t \in Tables, c \in ColNames :
            saved[t][c] # Null /\ ~BeingReplaced(t) =>
                \E r \in RowsOf(t) : r.name = c /\ r.desc = saved[t][c]

\* "Delete old columns and re-insert fresh ones": a column has one row, a
\* re-sync never doubles what is stored, unless two syncs overlap.
OneRowPerColumn ==
    ~Met(Syncs, Syncs) =>
        \A r, q \in store : r.table = q.table /\ r.name = q.name => r = q

\* A sync that completes, and met no other, leaves exactly the columns it
\* discovered in every table it discovered, whatever describes and edits did
\* meanwhile and wherever an earlier sync had stopped.
SyncStoresFound ==
    [][\A s \in Syncs : FinishSync(s) /\ ~Met({s}, Syncs) =>
        \A t \in Tables : found[s][t] # {} =>
            {r.name : r \in RowsOf(t)} = found[s][t]]_vars

\* "Fill description only if empty - never clobber an existing one": a
\* generated text never replaces a stored description, also one that a sync
\* has carried over meanwhile, unless people or another describe wrote it
\* while the text was being generated.
NeverClobber ==
    [][\A r \in store, q \in store' :
        SameId(r, q) /\ r.desc # Null /\ q.desc # r.desc =>
            \A d \in Describers : q.desc = d => Met({d}, Editors \cup Describers)]_vars
=============================================================================
