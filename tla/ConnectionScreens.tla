-------------------------- MODULE ConnectionScreens --------------------------
(***************************************************************************)
(* A connection as the dashboard shows it: the schema explorer with its    *)
(* modules and table descriptions, the connection's card, the audit report *)
(* (apps/web/src/features/connections), and the service behind them        *)
(* (apps/api/src/connections/connections.service.ts).                      *)
(*                                                                         *)
(* A request is sent, runs on the server one Prisma call after another,    *)
(* and its answer arrives some time later.  The answer of a module request *)
(* makes the screen fetch the connection again; that of a description      *)
(* replaces one table of what is cached.  The metadata of columns is the   *)
(* subject of SchemaSync.                                                  *)
(***************************************************************************)
EXTENDS SchemaAudit

CONSTANTS
    Visits,      \* what a user may find and do: [live, engine, synced, uses,
                 \* ops, fixes], with the tables stored, the kinds of requests
                 \* sent, a bound on their number and one on the statements of
                 \* the audit that are run
    ModuleNames, \* names people give to modules
    Suggestions, \* what the providers may reply when asked for modules
    Reviews,     \* what the providers may reply when asked for a review
    None         \* no module, no text, nothing cached

\* The providers are asked one after another, and a usable reply lists the
\* modules it suggests.
ASSUME ConnectionScreensAssumption ==
    /\ \A v \in Visits :
        /\ IsSchema(v.live) /\ DOMAIN v = {"live", "engine", "synced", "uses", "ops", "fixes"}
        /\ MysqlFamily(v.engine) => \A n \in DOMAIN v.live : OneAuto(v.live[n])
    /\ \A replies \in Suggestions :
        /\ replies \in Seq(Range(replies))
        /\ \A i \in DOMAIN replies : replies[i] # NoReply => replies[i] \in Seq(Range(replies[i]))

VARIABLES
    visit,    \* the visit, chosen at the start
    database, \* the customer's database
    status,   \* the connection's status, "gone" when it is deleted
    meta,     \* SchemaMetadata: the stored tables with module and texts
    mods,     \* SchemaModule: [id, name]; a name and the request that used it are the id
    reqs,     \* every request of the visit
    cached,   \* the connection as cached by the screen
    fetch,    \* the connection query: none, sent, failed, or what it has read
    screen,   \* the table selected, the text being typed, tables to describe
    report    \* the audit modal: none, pending, failed or what it shows

screenVars == <<visit, database, status, meta, mods, reqs, cached, fetch, screen, report>>

serverVars == <<status, meta, mods>>
clientVars == <<cached, fetch, screen>>

StoredTables == DOMAIN meta
NoScreen == [selected |-> None, typed |-> None, left |-> <<>>]
Blank == [group |-> None, business |-> None, ai |-> None]
StoredSchema == [tables |-> meta, modules |-> mods]
Idle == [pc |-> "none", value |-> None]
NoReport == [pc |-> "none"]

ScreenTypeOK ==
    /\ status \in {"PENDING", "ACTIVE", "ERROR", "gone"}
    /\ \A t \in StoredTables : meta[t].group \in {m.id : m \in mods} \cup {None}
    /\ fetch.pc \in {"none", "sent", "read", "failed"}
    /\ Len(reqs) <= visit.ops
    /\ screen.selected \in DOMAIN database \cup {None}

ScreenInit ==
    /\ visit \in Visits
    /\ database = visit.live
    /\ status = "PENDING"
    /\ mods = {}
    /\ meta = [t \in visit.synced |-> Blank]
    /\ reqs = <<>>
    /\ cached = None
    /\ fetch = [pc |-> "sent", value |-> None]
    /\ screen = NoScreen
    /\ report = NoReport

-----------------------------------------------------------------------------
(* Requests                                                                *)

Open(k) == reqs[k].pc # "answered"
Pending(kind) == \E k \in DOMAIN reqs : reqs[k].kind = kind /\ Open(k)

Fetching == fetch.pc \in {"sent", "read"}

\* A request has raced when something else was on its way with it.
Send(kind, table, module, name) ==
    /\ kind \in visit.uses
    /\ Len(reqs) < visit.ops
    /\ LET others == {k \in DOMAIN reqs : Open(k)} IN
       reqs' = Append([k \in DOMAIN reqs |-> IF k \in others
                            THEN [reqs[k] EXCEPT !.met = @ \cup {Len(reqs) + 1}] ELSE reqs[k]],
                      [kind |-> kind, pc |-> "start", table |-> table, module |-> module, name |-> name,
                       read |-> {}, ungrouped |-> {}, known |-> {}, plan |-> <<>>, reply |-> None, failed |-> FALSE,
                       met |-> others \cup IF Fetching THEN {0} ELSE {}])

Step(k, pc) == reqs' = [reqs EXCEPT ![k].pc = pc]
Fail(k) == reqs' = [reqs EXCEPT ![k].pc = "sent back", ![k].failed = TRUE]
At(k, kind, pc) == reqs[k].kind = kind /\ reqs[k].pc = pc
ModuleId(id) == \E m \in mods : m.id = id
Taken(name, but) == \E m \in mods : m.name = name /\ m.id # but

-----------------------------------------------------------------------------
(* connections.service.ts                                                  *)

\* assertExists, before anything else.
NotFound(k) ==
    /\ reqs[k].pc = "start"
    /\ status = "gone"
    /\ Fail(k)
    /\ UNCHANGED serverVars

Started(k, kind) == At(k, kind, "start") /\ status # "gone"

\* testExistingConnection: the database answers or not; the status follows
\* when the answer is there.
TestDatabase(k) ==
    /\ Started(k, "test")
    /\ \E ok \in BOOLEAN : reqs' = [reqs EXCEPT ![k].pc = "note", ![k].reply = ok]
    /\ UNCHANGED serverVars
NoteTest(k) ==
    /\ At(k, "test", "note")
    /\ IF status = "gone" THEN Fail(k) /\ UNCHANGED status
       ELSE Step(k, "sent back") /\ status' = IF reqs[k].reply THEN "ACTIVE" ELSE "ERROR"
    /\ UNCHANGED <<meta, mods>>

\* syncSchema: the tables discovered are stored, then the status; a table
\* keeps its module and texts.  It may fail with only some of them stored.
SyncTables(k) ==
    /\ Started(k, "sync")
    /\ \E found \in SUBSET DOMAIN database :
        /\ meta' = [t \in StoredTables \cup found |-> IF t \in StoredTables THEN meta[t] ELSE Blank]
        /\ \/ found = DOMAIN database /\ Step(k, "note")
           \/ Fail(k)
    /\ UNCHANGED <<status, mods>>
NoteSync(k) ==
    /\ At(k, "sync", "note")
    /\ IF status = "gone" THEN Fail(k) /\ UNCHANGED status
       ELSE Step(k, "sent back") /\ status' = "ACTIVE"
    /\ UNCHANGED <<meta, mods>>

\* delete: everything goes with the connection, or the query history that
\* refers to it prevents it.
DeleteConnection(k) ==
    /\ Started(k, "drop")
    /\ \/ status' = "gone" /\ meta' = [t \in {} |-> Blank] /\ mods' = {} /\ Step(k, "sent back")
       \/ Fail(k) /\ UNCHANGED serverVars

\* describeTable: the generated text replaces the earlier generated one, and
\* the table is read again for the answer.  The AI may have no text.
WriteGenerated(k) ==
    /\ Started(k, "describe")
    /\ IF reqs[k].table \notin StoredTables THEN Fail(k) /\ UNCHANGED meta
       ELSE \/ meta' = [meta EXCEPT ![reqs[k].table].ai = k] /\ Step(k, "read back")
            \/ Fail(k) /\ UNCHANGED meta
    /\ UNCHANGED <<status, mods>>

\* updateTableDescription: what was typed, or nothing when it is blank.
WriteTyped(k) ==
    /\ Started(k, "edit")
    /\ IF reqs[k].table \notin StoredTables THEN Fail(k) /\ UNCHANGED meta
       ELSE meta' = [meta EXCEPT ![reqs[k].table].business = reqs[k].name] /\ Step(k, "read back")
    /\ UNCHANGED <<status, mods>>

\* getTable
ReadBack(k) ==
    /\ reqs[k].pc = "read back"
    /\ IF reqs[k].table \notin StoredTables THEN Fail(k)
       ELSE reqs' = [reqs EXCEPT ![k].pc = "sent back", ![k].reply = meta[reqs[k].table]]
    /\ UNCHANGED serverVars

\* createModule, updateModule and deleteModule; a name is used once, and the
\* tables of a deleted module become ungrouped.
CreateModule(k) ==
    /\ Started(k, "create")
    /\ IF Taken(reqs[k].name, None) THEN Fail(k) /\ UNCHANGED mods
       ELSE mods' = mods \cup {[id |-> <<k, reqs[k].name>>, name |-> reqs[k].name]} /\ Step(k, "sent back")
    /\ UNCHANGED <<status, meta>>
UpdateModule(k) ==
    /\ Started(k, "rename")
    /\ IF ~ModuleId(reqs[k].module) \/ Taken(reqs[k].name, reqs[k].module) THEN Fail(k) /\ UNCHANGED mods
       ELSE /\ mods' = {IF m.id = reqs[k].module THEN [m EXCEPT !.name = reqs[k].name] ELSE m : m \in mods}
            /\ Step(k, "sent back")
    /\ UNCHANGED <<status, meta>>
DeleteModule(k) ==
    /\ Started(k, "delete")
    /\ IF ~ModuleId(reqs[k].module) THEN Fail(k) /\ UNCHANGED <<meta, mods>>
       ELSE /\ mods' = {m \in mods : m.id # reqs[k].module}
            /\ meta' = [t \in StoredTables |-> IF meta[t].group = reqs[k].module
                                         THEN [meta[t] EXCEPT !.group = None] ELSE meta[t]]
            /\ Step(k, "sent back")
    /\ UNCHANGED status

\* assignTableModule
AssignTableModule(k) ==
    /\ Started(k, "assign")
    /\ IF reqs[k].table \notin StoredTables \/ (reqs[k].module # None /\ ~ModuleId(reqs[k].module))
       THEN Fail(k) /\ UNCHANGED meta
       ELSE meta' = [meta EXCEPT ![reqs[k].table].group = reqs[k].module] /\ Step(k, "sent back")
    /\ UNCHANGED <<status, mods>>

\* Mutant: every table may be assigned.
UngroupedOrNot == StoredTables

\* The tables without a module.
Ungrouped == {t \in StoredTables : meta[t].group = None}

\* suggestModules: the tables are read, and the AI is asked.
ReadGroups(k) ==
    /\ Started(k, "suggest")
    /\ IF StoredTables = {} THEN Fail(k)
       ELSE reqs' = [reqs EXCEPT ![k].pc = "ai", ![k].read = StoredTables, ![k].ungrouped = Ungrouped]
    /\ UNCHANGED serverVars

\* The suggestion is there, and the modules are read.
ReadModules(k) ==
    /\ At(k, "suggest", "ai")
    /\ \E replies \in Suggestions :
        LET answer == SuggestModules(replies, SetToSeq(reqs[k].read)) IN
        IF answer = Nothing THEN Fail(k)
        ELSE reqs' = [reqs EXCEPT ![k].plan = answer.modules, ![k].known = mods, ![k].pc = "module"]
    /\ UNCHANGED serverVars

\* The module of the plan whose turn it is.
Turn(plan) == Min(DOMAIN plan)

\* The next module: one that was read and has this name, whatever its case,
\* or a new one, which fails when the name has been taken meanwhile.
NextModule(k) ==
    /\ At(k, "suggest", "module")
    /\ DOMAIN reqs[k].plan # {}
    /\ LET name == reqs[k].plan[Turn(reqs[k].plan)].name
           same == {m \in reqs[k].known : Lower[m.name] = Lower[name]}
           Use(m) == reqs' = [reqs EXCEPT ![k].module = m.id, ![k].known = @ \cup {m}, ![k].pc = "tables"]
           new == [id |-> <<k, name>>, name |-> name]
       IN IF same # {} THEN (\E m \in same : Use(m)) /\ UNCHANGED mods
          ELSE IF Taken(name, None) \/ status = "gone" THEN Fail(k) /\ UNCHANGED mods
          ELSE Use(new) /\ mods' = mods \cup {new}
    /\ UNCHANGED <<status, meta>>

\* updateMany: the tables that had no module when they were read.
NextTables(k) ==
    /\ At(k, "suggest", "tables")
    /\ LET assigned == reqs[k].plan[Turn(reqs[k].plan)].tables \cap reqs[k].ungrouped \cap StoredTables IN
       IF assigned # {} /\ ~ModuleId(reqs[k].module) THEN Fail(k) /\ UNCHANGED meta
       ELSE /\ meta' = [t \in StoredTables |->
                            IF t \in assigned THEN [meta[t] EXCEPT !.group = reqs[k].module] ELSE meta[t]]
            /\ reqs' = [reqs EXCEPT ![k].plan = Restrict(@, DOMAIN @ \ {Turn(@)}), ![k].pc = "module"]
    /\ UNCHANGED <<status, mods>>

AllAssigned(k) ==
    /\ At(k, "suggest", "module")
    /\ DOMAIN reqs[k].plan = {}
    /\ Step(k, "sent back")
    /\ UNCHANGED serverVars

ServerStep(k) ==
    /\ \/ NotFound(k) \/ TestDatabase(k) \/ NoteTest(k) \/ SyncTables(k) \/ NoteSync(k) \/ DeleteConnection(k)
       \/ WriteGenerated(k) \/ WriteTyped(k) \/ ReadBack(k)
       \/ CreateModule(k) \/ UpdateModule(k) \/ DeleteModule(k) \/ AssignTableModule(k)
       \/ ReadGroups(k) \/ ReadModules(k) \/ NextModule(k) \/ NextTables(k) \/ AllAssigned(k)
    /\ UNCHANGED <<visit, database, cached, fetch, screen, report>>

-----------------------------------------------------------------------------
(* useConnections.ts: what is cached                                       *)

\* Mutant: deleting a module is not followed by a fetch.
InvalidatesSome(kind) == kind \in {"suggest", "create", "rename", "assign", "sync"}

\* The mutations after which the connection is fetched again.
Invalidates(kind) == kind \in {"suggest", "create", "rename", "delete", "assign", "sync"}

\* patchCachedTable
Patched(table, value) ==
    IF cached = None \/ table \notin DOMAIN cached.tables THEN cached
    ELSE [cached EXCEPT !.tables[table] = value]

\* An answer arrives.  A fetch under way is dropped for a new one.
Answer(k) ==
    /\ reqs[k].pc = "sent back"
    /\ Step(k, "answered")
    /\ fetch' = IF Invalidates(reqs[k].kind) /\ ~reqs[k].failed THEN [pc |-> "sent", value |-> None] ELSE fetch
    /\ cached' = IF reqs[k].kind \in {"describe", "edit"} /\ ~reqs[k].failed
                 THEN Patched(reqs[k].table, reqs[k].reply) ELSE cached
    /\ UNCHANGED <<visit, database, serverVars, screen, report>>

\* getOne reads the connection, or fails, as it does for a connection that is
\* gone; then what is cached stays until something else asks again.
FetchRead ==
    /\ fetch.pc = "sent"
    /\ \/ status # "gone" /\ fetch' = [pc |-> "read", value |-> StoredSchema]
       \/ fetch' = [pc |-> "failed", value |-> None]
    /\ UNCHANGED <<visit, database, serverVars, reqs, cached, screen, report>>

\* The explorer appears with the first answer, its first table selected.
FetchArrives ==
    /\ fetch.pc = "read"
    /\ cached' = fetch.value
    /\ fetch' = Idle
    /\ IF cached # None \/ fetch.value.tables = <<>> THEN UNCHANGED screen
       ELSE \E t \in DOMAIN fetch.value.tables : screen' = [screen EXCEPT !.selected = t]
    /\ UNCHANGED <<visit, database, serverVars, reqs, report>>

-----------------------------------------------------------------------------
(* SchemaExplorer.tsx and ConnectionCard.tsx                               *)

Shown == cached # None /\ report.pc = "none"
Asked == UNCHANGED <<visit, database, serverVars, cached, fetch, report>>

\* The buttons of the explorer and of the card; a button waits for its own
\* request.  Modules are those the screen shows.
AskOnce(kind) == ~Pending(kind) /\ Send(kind, None, None, None)
PressSync == Shown /\ AskOnce("sync") /\ Asked /\ UNCHANGED screen
PressTest == Shown /\ AskOnce("test") /\ Asked /\ UNCHANGED screen
PressDelete == Shown /\ AskOnce("drop") /\ Asked /\ UNCHANGED screen
PressSuggest == Shown /\ AskOnce("suggest") /\ Asked /\ UNCHANGED screen
AddModule == Shown /\ (\E n \in ModuleNames : Send("create", None, None, n)) /\ Asked /\ UNCHANGED screen
SaveModule ==
    /\ Shown
    /\ \E m \in cached.modules, n \in ModuleNames : Send("rename", None, m.id, n)
    /\ Asked /\ UNCHANGED screen
ConfirmDelete == Shown /\ (\E m \in cached.modules : Send("delete", None, m.id, None)) /\ Asked /\ UNCHANGED screen

\* The detail of the selected table: its module, its description.
Detail == Shown /\ screen.selected # None /\ screen.selected \in DOMAIN cached.tables
PickModule ==
    /\ Detail
    /\ \E id \in {m.id : m \in cached.modules} \cup {None} : Send("assign", screen.selected, id, None)
    /\ Asked /\ UNCHANGED screen
PressGenerate ==
    /\ Detail
    /\ screen.typed = None
    /\ ~Pending("describe") /\ Send("describe", screen.selected, None, None)
    /\ Asked /\ UNCHANGED screen
PressEdit ==
    /\ Detail
    /\ screen.typed = None
    /\ screen' = [screen EXCEPT !.typed = screen.selected]
    /\ UNCHANGED <<visit, database, serverVars, reqs, cached, fetch, report>>
\* The text, or a blank one, goes to the table that is selected now.
SaveText ==
    /\ Detail
    /\ screen.typed # None
    /\ \E text \in {screen.typed, None} : Send("edit", screen.selected, None, text)
    /\ screen' = [screen EXCEPT !.typed = None]
    /\ Asked
CancelText ==
    /\ Detail
    /\ screen.typed # None
    /\ screen' = [screen EXCEPT !.typed = None]
    /\ UNCHANGED <<visit, database, serverVars, reqs, cached, fetch, report>>

\* Another table; the text being typed stays.
SelectTable ==
    /\ Shown
    /\ \E t \in DOMAIN cached.tables : t # screen.selected /\ screen' = [screen EXCEPT !.selected = t]
    /\ UNCHANGED <<visit, database, serverVars, reqs, cached, fetch, report>>

\* handleGenerateAll: one table after another, whether the last one failed
\* or not.
PressGenerateAll ==
    /\ Shown
    /\ screen.left = <<>> /\ ~Pending("describe")
    /\ screen' = [screen EXCEPT !.left = SetToSeq(DOMAIN cached.tables)]
    /\ UNCHANGED <<visit, database, serverVars, reqs, cached, fetch, report>>
GenerateNext ==
    /\ screen.left # <<>>
    /\ ~Pending("describe")
    /\ Send("describe", Head(screen.left), None, None)
    /\ screen' = [screen EXCEPT !.left = Tail(@)]
    /\ Asked

-----------------------------------------------------------------------------
(* AuditReportModal.tsx, and SchemaAuditService.audit behind it            *)

\* Opening the modal starts an audit, and so does Retry.
OpenAudit ==
    /\ Shown \/ report.pc = "failed"
    /\ cached.tables # <<>>
    /\ visit.fixes > 0
    /\ report' = [pc |-> "pending"]
    /\ UNCHANGED <<visit, database, serverVars, reqs, cached, fetch, screen>>
AuditAnswers ==
    /\ report.pc = "pending"
    /\ \/ /\ status # "gone" /\ ~ConnectQueryOnly(visit.engine)
          /\ \E replies \in Reviews :
                report' = [pc |-> "shown", of |-> database, shown |-> Report(visit.engine, database, replies)]
       \/ report' = [pc |-> "failed"]
    /\ UNCHANGED <<visit, database, serverVars, reqs, cached, fetch, screen>>
CloseAudit ==
    /\ report.pc # "none"
    /\ report' = NoReport
    /\ UNCHANGED <<visit, database, serverVars, reqs, cached, fetch, screen>>

\* A statement of the report is run against the database.
RunStatement ==
    /\ report.pc = "shown"
    /\ visit.fixes > 0
    /\ \E f \in report.shown.findings :
        /\ f.fix # NoFix /\ Accepted(visit.engine, database, f.fix)
        /\ database' \in RunFix(visit.engine, database, f.fix)
    /\ visit' = [visit EXCEPT !.fixes = @ - 1]
    /\ UNCHANGED <<serverVars, reqs, cached, fetch, screen, report>>

ScreenNext ==
    \/ \E k \in DOMAIN reqs : ServerStep(k) \/ Answer(k)
    \/ FetchRead \/ FetchArrives
    \/ PressSync \/ PressTest \/ PressDelete \/ PressSuggest \/ AddModule \/ SaveModule \/ ConfirmDelete
    \/ PickModule \/ PressGenerate \/ PressEdit \/ SaveText \/ CancelText \/ SelectTable
    \/ PressGenerateAll \/ GenerateNext
    \/ OpenAudit \/ AuditAnswers \/ CloseAudit \/ RunStatement

ScreenSpec == ScreenInit /\ [][ScreenNext]_screenVars

-----------------------------------------------------------------------------
(* Properties                                                              *)

\* "Only assign tables that aren't already grouped (preserve manual edits)":
\* a suggestion moves a table from one module to another only if somebody
\* assigned a table, or asked for another suggestion, while it was under way.
SuggestKeepsGroups ==
    [][\A k \in DOMAIN reqs : NextTables(k) =>
        \A t \in StoredTables : meta[t].group \notin {None, meta'[t].group} =>
            \E j \in reqs[k].met \ {0} : reqs[j].kind \in {"assign", "suggest"}]_screenVars

\* The claim without the exception.
ManualEditsPreserved ==
    [][\A k \in DOMAIN reqs : NextTables(k) =>
        \A t \in StoredTables : meta[t].group # None => meta'[t].group = meta[t].group]_screenVars

\* "Save a human-edited table description": a description belongs to the
\* table it was typed for.
TypedForItsTable == \A t \in StoredTables : meta[t].business \in {None, t}

\* When nothing is under way the screen shows what is stored, however module
\* requests and syncs overlapped and in whatever order their answers came.
\* Not when a description request raced with something else, for its answer
\* replaces a table as it was read, nor after a request failed half-way or
\* when the last fetch failed.
ScreenSettles ==
    /\ cached # None /\ fetch.pc = "none" /\ status # "gone"
    /\ \A k \in DOMAIN reqs : ~Open(k)
    /\ \A k \in DOMAIN reqs :
        IF reqs[k].kind \in {"describe", "edit"} THEN reqs[k].met = {}
        ELSE reqs[k].kind \in {"suggest", "sync"} => ~reqs[k].failed
    => cached = StoredSchema

\* A finding of the rule at the same place.
Again(f, findings) ==
    \E g \in findings : g.rule = f.rule /\ g.table = f.table /\ g.column = f.column

\* A foreign key on a MySQL table that is not InnoDB is accepted and ignored.
Heeded(f) == f.rule = "implicit_fk" /\ MysqlFamily(visit.engine) => database[f.table].storage = "InnoDB"
\* MODIFY sets or drops NOT NULL, and with it may change which unique index
\* MySQL takes for the primary key of a table without one.
KeyMoves(f, new) ==
    /\ f.fix.kind \in Retypes
    /\ Introspect(visit.engine, new)[f.table].pk # Introspect(visit.engine, database)[f.table].pk

\* The statement of a finding, run while the database is as audited and
\* accepted, does away with the finding; and unless it moves the key MySQL
\* shows, all that is found afterwards costs less than what was found before,
\* though MODIFY and ALTER COLUMN change more of a column than its type.
FixesHelp ==
    report.pc = "shown" /\ report.of = database =>
        \A f \in report.shown.findings :
            f.fix # NoFix /\ Accepted(visit.engine, database, f.fix) /\ Heeded(f) =>
                \A new \in RunFix(visit.engine, database, f.fix) :
                    LET after == Findings(Introspect(visit.engine, new))
                    IN /\ ~Again(f, after)
                       /\ KeyMoves(f, new) \/ Penalty(after) < Penalty(report.shown.findings)

\* The rules say the same of the same schema on every engine, but for the
\* two about MySQL's storage and for Oracle, where no column is an INT.  Not
\* for an index with included columns, nor where MySQL takes a unique index
\* for the missing primary key.
Portable(findings) == {f \in findings : f.rule \notin {"engine", "charset", "int_pk"}}
SameFindings ==
    report.pc = "shown"
    /\ (\A n \in DOMAIN database : database[n].key = database[n].pk /\ \A i \in database[n].indexes : i.includes = <<>>) =>
        LET Of(engine) == Findings(Introspect(engine, database))
            IntPks(engine) == {f \in Of(engine) : f.rule = "int_pk"}
        IN /\ \A e \in Engines : Portable(Of(e)) = Portable(Of("mysql"))
           /\ \A e \in {"postgres", "sqlserver"} : IntPks(e) = IntPks("mysql")
=============================================================================
