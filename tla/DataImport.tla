----------------------------- MODULE DataImport -----------------------------
(***************************************************************************)
(* Importing a file in the chat: ChatInterface.tsx, DataImportWizard.tsx    *)
(* and the panels beside it.  Reading a file, reading an instruction and    *)
(* the import itself answer late, to a wizard that may have moved on.  The  *)
(* import at the server is CsvImport's.                                     *)
(*                                                                          *)
(* Left out: the choice of column types, which are only passed on.          *)
(***************************************************************************)
EXTENDS FileParsing, AiOrchestrator

CONSTANTS
    Files,        \* files to upload: [name, format, content, written]
    OnlyRead,     \* bound: files after which nothing else is uploaded
    Pasted,       \* texts pasted
    Sheets,       \* texts of Google sheets
    Connections,
    Schema0,      \* Schema0[c][t]: the columns of the tables
    Instructions, \* instructions to filter by
    FilterReplies,      \* what the AI providers may answer to one
    TypedNames, BadNames, \* names typed for tables and columns, those that are no identifier
    NONE, MaxUploads, MaxEdits, MaxImports

\* What the parsers are handed: texts are lists of tokens, and the libraries
\* give trees of lists.
IsList(s) == s \in Seq(ToSet(s))
IsLists(s) == IsList(s) /\ \A i \in DOMAIN s : IsList(s[i])

\* JSON: the values in a value, and those that are lists or objects.
Inner(value) == IF value.kind = "array" THEN ToSet(value.items)
                ELSE IF value.kind = "object" THEN {pair[2] : pair \in ToSet(value.items)} ELSE {}
IsValue(value) == value.kind \in {"array", "object"} => IsList(value.items)
IsJson(document) ==
    LET values == {document.value} \cup ToSet(document.lines)
        inner == UNION {Inner(v) : v \in values}
    IN IsList(document.lines) /\ \A v \in values \cup inner \cup UNION {Inner(v) : v \in inner} : IsValue(v)
IsXml(document) ==
    IsList(document) /\ document # <<>> /\ \A i \in DOMAIN document : IsList(document[i].attributes)
IsHtml(tables) ==
    /\ IsLists(tables) /\ \A i \in DOMAIN tables : IsLists(tables[i])
    /\ \A i \in DOMAIN tables : \A j \in DOMAIN tables[i] : \A cell \in ToSet(tables[i][j]) :
           cell.colspan \in Nat \ {0} /\ cell.rowspan \in Nat \ {0}
IsFile(file) ==
    LET c == file.content IN
    CASE file.format \in {"CSV", "TSV", "Markdown", "Pasted"} -> IsList(c)
      [] file.format = "JSON" -> IsJson(c)
      [] file.format = "XML" -> IsXml(c)
      [] file.format = "HTML" -> IsHtml(c)
      [] file.format = "Excel" -> IsList(c) /\ \A k \in DOMAIN c : IsLists(c[k].grid)
      [] file.format = "SQL" -> IsList(c.text) /\ \A h \in DOMAIN c.heads : IsList(c.heads[h].columns)
      [] OTHER -> FALSE

ASSUME DataImportAssumption ==
    /\ \A file \in Files \cup OnlyRead : IsFile(file)
    /\ \A text \in Pasted \cup Sheets : IsList(text)
    /\ Connections # {} /\ DOMAIN Schema0 = Connections
    /\ \A c \in Connections : \A t \in DOMAIN Schema0[c] : IsFiniteSet(Schema0[c][t])

VARIABLES
    connection,   \* chosen in the chat header
    reading,      \* files being read
    panels,       \* the panels opened beside the wizard
    fetching,     \* a Google sheet is asked for
    upload,       \* what the wizard is shown for: [file, sheets, active]
    wizard,       \* its state
    schema, targets, \* the tables at the server, and those last fetched
    imports,      \* the imports asked for
    records,      \* what the chat history says of them
    uploads, edits, mounts \* counters
offer == <<reading, panels, fetching, upload>>
server == <<schema, targets>>
done == <<imports, records>>
wizardVars == <<connection, offer, wizard, server, done, uploads, edits, mounts>>

-----------------------------------------------------------------------------
(* What is shown                                                           *)

\* handleUploadFile with detectFormat: the parser of the format.  What is
\* gzipped is taken to be unpacked.
One(table) == IF table = NoTable THEN <<>> ELSE <<[name |-> NONE, parsed |-> table]>>
Parsed(file) ==
    LET c == file.content
    IN CASE file.format = "CSV" -> One(ParseCsv(c))
         [] file.format = "TSV" -> One(ParseDelimited(c, "tab"))
         [] file.format = "JSON" -> One(ParseJson(c))
         [] file.format = "XML" -> One(ParseXml(c))
         [] file.format = "HTML" -> One(ParseHtml(c))
         [] file.format = "Markdown" -> One(ParseMarkdown(c))
         [] file.format = "Pasted" -> One(ParsePasted(c))
         [] file.format = "Excel" -> ParseExcel(c)
         [] file.format = "SQL" -> ParseSqlDump(c.text, c.heads)

Table0 == upload.sheets[upload.active].parsed
SheetName == upload.sheets[upload.active].name

Inferred(table) == [i \in DOMAIN table.headers |->
    [csv |-> table.headers[i], db |-> ToIdentifier(table.headers[i]),
     type |-> InferColumnType({table.rows[r][table.headers[i]] : r \in DOMAIN table.rows})]]

\* An object with one more property.
With(f, x, v) == [y \in DOMAIN f \cup {x} |-> IF y = x THEN v ELSE f[y]]

\* React keeps the wizard as long as its key is the same.
Key(u) == <<u.file.name, u.sheets[u.active].name, Len(u.sheets[u.active].parsed.rows)>>
FreshWizard(u, id) ==
    LET table == u.sheets[u.active].parsed IN
    [id |-> id, key |-> Key(u), on |-> table, moved |-> FALSE, step |-> "choose",
     newTable |-> <<>>, newColumns |-> Inferred(table),
     table |-> NONE, picked |-> <<>>, mapping |-> <<>>, keys |-> {},
     added |-> [h \in ToSet(table.headers) |-> [on |-> FALSE, db |-> ToIdentifier(h)]],
     text |-> NONE, filter |-> NONE, applying |-> NONE, importing |-> FALSE]
\* setCsvUpload: a wizard for it, the one there is if it has the same key; it
\* has moved when that was shown another table.
Show(u) ==
    /\ upload' = u
    /\ IF wizard # NONE /\ wizard.key = Key(u)
       THEN wizard' = [wizard EXCEPT !.moved = @ \/ u.sheets[u.active].parsed # wizard.on] /\ UNCHANGED mounts
       ELSE wizard' = FreshWizard(u, mounts + 1) /\ mounts' = mounts + 1

\* What is read out of a file is shown, if there is anything; the panel it
\* came from is left.
Open(file, sheets, panel) ==
    IF sheets = <<>> THEN UNCHANGED <<panels, upload, wizard, mounts>>
    ELSE panels' = panels \ {panel} /\ Show([file |-> file, sheets |-> sheets, active |-> 1])

WizardInit ==
    /\ connection = (CHOOSE c \in Connections : TRUE) /\ panels = {} /\ fetching = FALSE
    /\ \/ reading = {} /\ uploads = 0
       \/ \E f \in OnlyRead : reading = {f} /\ uploads = MaxUploads
    /\ upload = NONE /\ wizard = NONE
    /\ schema = Schema0 /\ targets = [c \in Connections |-> NONE]
    /\ imports = <<>> /\ records = <<>> /\ edits = 0 /\ mounts = 0

-----------------------------------------------------------------------------
(* Files, pasted tables and sheets                                         *)

ChooseFile(f) ==
    /\ uploads < MaxUploads /\ uploads' = uploads + 1 /\ reading' = reading \cup {f}
    /\ UNCHANGED <<connection, panels, fetching, upload, wizard, server, done, edits, mounts>>
FileRead(f) ==
    /\ f \in reading /\ reading' = reading \ {f}
    /\ Open(f, Parsed(f), NONE)
    /\ UNCHANGED <<connection, fetching, server, done, uploads, edits>>
ChangeSheet(k) ==
    /\ upload # NONE /\ k \in DOMAIN upload.sheets \ {upload.active}
    /\ edits < MaxEdits /\ edits' = edits + 1
    /\ Show([upload EXCEPT !.active = k])
    /\ UNCHANGED <<connection, reading, panels, fetching, server, done, uploads>>
Close ==
    /\ upload # NONE /\ upload' = NONE /\ wizard' = NONE
    /\ UNCHANGED <<connection, reading, panels, fetching, server, done, uploads, edits, mounts>>

OpenPanel(p) ==
    /\ uploads < MaxUploads /\ uploads' = uploads + 1 /\ p \notin panels /\ panels' = panels \cup {p}
    /\ UNCHANGED <<connection, reading, fetching, upload, wizard, server, done, edits, mounts>>
\* The panel is only seen without a wizard, the one to paste in before the other.
Seen(p) == p \in panels /\ upload = NONE /\ (p = "gsheet" => "paste" \notin panels)
CancelPanel(p) ==
    /\ Seen(p) /\ panels' = panels \ {p}
    /\ UNCHANGED <<connection, reading, fetching, upload, wizard, server, done, uploads, edits, mounts>>
ContinuePaste(text) ==
    LET file == [name |-> "Pasted data", format |-> "Pasted", content |-> text, written |-> NONE] IN
    /\ Seen("paste") /\ Open(file, One(ParsePasted(text)), "paste")
    /\ UNCHANGED <<connection, reading, fetching, server, done, uploads, edits>>
FetchSheet ==
    /\ Seen("gsheet") /\ ~fetching /\ fetching' = TRUE
    /\ UNCHANGED <<connection, reading, panels, upload, wizard, server, done, uploads, edits, mounts>>
\* The answer opens a wizard even when the panel was left; a sheet that cannot
\* be fetched or is empty opens none.
SheetArrives(text) ==
    LET file == [name |-> "Google Sheet", format |-> "CSV", content |-> text, written |-> NONE] IN
    /\ fetching /\ fetching' = FALSE
    /\ Open(file, One(ParseCsv(text)), "gsheet")
    /\ UNCHANGED <<connection, reading, server, done, uploads, edits>>

-----------------------------------------------------------------------------
(* Which rows: the instruction                                             *)

WorkingRows == IF wizard.filter = NONE THEN Table0.rows ELSE ApplyRowFilter(Table0.rows, wizard.filter)
FieldEdited == edits < MaxEdits /\ edits' = edits + 1
At(step) == wizard # NONE /\ wizard.step = step
WizardOnly == UNCHANGED <<connection, offer, server, done, uploads, mounts>>

TypeContext(text) ==
    /\ At("choose") /\ text # wizard.text /\ FieldEdited /\ wizard' = [wizard EXCEPT !.text = text]
    /\ WizardOnly
ApplyContext ==
    /\ At("choose") /\ wizard.text # NONE /\ wizard.applying = NONE
    /\ wizard' = [wizard EXCEPT !.applying = Table0.headers] /\ UNCHANGED edits /\ WizardOnly
\* The answer sets the filter at whatever step the wizard is by then; without
\* one the old filter stays.
FilterArrives(replies) ==
    LET reply == ImportFilter(replies, wizard.applying, Operators)
        filter == IF reply.conditions = {} THEN NONE ELSE reply
    IN /\ wizard # NONE /\ wizard.applying # NONE
       /\ wizard' = [wizard EXCEPT !.applying = NONE, !.filter = IF reply = Nothing THEN @ ELSE filter]
       /\ UNCHANGED edits /\ WizardOnly
ClearContext ==
    /\ At("choose") /\ wizard.filter # NONE
    /\ wizard' = [wizard EXCEPT !.text = NONE, !.filter = NONE] /\ UNCHANGED edits /\ WizardOnly

\* With no row left there is nowhere to go.
Go(step) ==
    /\ At("choose") /\ WorkingRows # <<>>
    /\ wizard' = [wizard EXCEPT !.step = step,
                      !.newColumns = IF step = "new" THEN Inferred(Table0) ELSE @]
    /\ UNCHANGED edits /\ WizardOnly
Back ==
    /\ (At("existing") \/ At("new")) /\ ~wizard.importing
    /\ wizard' = [wizard EXCEPT !.step = "choose"] /\ UNCHANGED edits /\ WizardOnly

-----------------------------------------------------------------------------
(* Into an existing table                                                  *)

\* The tables are fetched when the step needs them and again when they are
\* stale; in between they are taken from the cache.
FetchTargets ==
    /\ At("existing") /\ targets' = [targets EXCEPT ![connection] = schema[connection]]
    /\ UNCHANGED <<connection, offer, wizard, schema, done, uploads, edits, mounts>>

Target == IF wizard.table = NONE \/ targets[connection] = NONE THEN NONE
          ELSE IF wizard.table \in DOMAIN targets[connection] THEN targets[connection][wizard.table] ELSE NONE

Match(column) ==
    LET same == {i \in DOMAIN Table0.headers : ToIdentifier(Table0.headers[i]) = column.name}
    IN IF same = {} THEN NONE ELSE Table0.headers[Min(same)]

\* Mutant: columns that were mapped before stay mapped.
PickTableKeeps(t) ==
    /\ At("existing") /\ targets[connection] # NONE /\ t \in DOMAIN targets[connection] /\ t # wizard.table
    /\ LET columns == {c \in targets[connection][t] : ~c.auto} IN
       wizard' = [wizard EXCEPT !.table = t, !.picked = <<connection, targets[connection]>>, !.keys = {},
           !.mapping = @ @@ [n \in {c.name : c \in columns} |-> Match([name |-> n])]]
    /\ FieldEdited /\ WizardOnly

\* handlePickTable: columns are matched with the headers that give their name.
PickTable(t) ==
    /\ At("existing") /\ targets[connection] # NONE /\ t \in DOMAIN targets[connection] /\ t # wizard.table
    /\ LET columns == {c \in targets[connection][t] : ~c.auto} IN
       wizard' = [wizard EXCEPT !.table = t, !.picked = <<connection, targets[connection]>>, !.keys = {},
           !.mapping = [n \in {c.name : c \in columns} |-> Match([name |-> n])]]
    /\ FieldEdited /\ WizardOnly

Mapped(name) == name \in DOMAIN wizard.mapping /\ wizard.mapping[name] # NONE
MapColumn(name, header) ==
    /\ At("existing") /\ Target # NONE /\ \E c \in Target : c.name = name /\ ~c.auto
    /\ Mapped(name) => wizard.mapping[name] # header
    /\ wizard' = [wizard EXCEPT !.mapping = With(@, name, header),
                                !.picked = IF @ = <<connection, targets[connection]>> THEN @ ELSE <<>>]
    /\ FieldEdited /\ WizardOnly
ToggleKey(name) ==
    /\ At("existing") /\ Target # NONE /\ Mapped(name) /\ \E c \in Target : c.name = name
    /\ wizard' = [wizard EXCEPT !.keys = IF name \in @ THEN @ \ {name} ELSE @ \cup {name}]
    /\ FieldEdited /\ WizardOnly

ExtraHeaders == {h \in ToSet(Table0.headers) : ~\E c \in Target : c.name = ToIdentifier(h)}
ToggleAdded(h) ==
    /\ At("existing") /\ Target # NONE /\ h \in ExtraHeaders \cap DOMAIN wizard.added
    /\ wizard' = [wizard EXCEPT !.added[h].on = ~@] /\ FieldEdited /\ WizardOnly
RenameAdded(h, name) ==
    /\ At("existing") /\ Target # NONE /\ h \in ExtraHeaders \cap DOMAIN wizard.added
    /\ wizard.added[h].on /\ wizard.added[h].db # name
    /\ wizard' = [wizard EXCEPT !.added[h].db = name] /\ FieldEdited /\ WizardOnly

Added == {h \in ExtraHeaders \cap DOMAIN wizard.added : wizard.added[h].on}
ExistingValid ==
    LET mapped == {c.name : c \in {d \in Target : Mapped(d.name)}}
        names == {wizard.added[h].db : h \in Added}
    IN /\ Target # NONE
       /\ \A c \in Target : c.required => Mapped(c.name)
       /\ mapped \cup names # {}
       /\ names \cap BadNames = {}
       /\ mapped \cap names = {}
       \* A header that is there twice is added twice.
       /\ Cardinality(names) = Cardinality({i \in DOMAIN Table0.headers : Table0.headers[i] \in Added})

-----------------------------------------------------------------------------
(* Into a new table                                                        *)

NameTable(name) ==
    /\ At("new") /\ name # wizard.newTable /\ wizard' = [wizard EXCEPT !.newTable = name]
    /\ FieldEdited /\ WizardOnly
RenameColumn(i, name) ==
    /\ At("new") /\ i \in DOMAIN wizard.newColumns /\ wizard.newColumns[i].db # name
    /\ wizard' = [wizard EXCEPT !.newColumns[i].db = name] /\ FieldEdited /\ WizardOnly
NewValid ==
    LET columns == wizard.newColumns names == {columns[i].db : i \in DOMAIN columns} IN
    /\ wizard.newTable # <<>> /\ (names \cup {wizard.newTable}) \cap BadNames = {}
    /\ Cardinality(names) = Len(columns)

-----------------------------------------------------------------------------
(* The import                                                              *)

\* runImport: all of it as it is in the render in which Confirm is pressed.
\* What was mapped is sent even if the table has no such column.
Payload ==
    [wizard |-> wizard.id, file |-> upload.file, sheet |-> SheetName, connection |-> connection,
     mode |-> wizard.step, table |-> IF wizard.step = "new" THEN wizard.newTable ELSE wizard.table,
     columns |-> IF wizard.step = "new"
         THEN {[csv |-> c.csv, db |-> c.db, add |-> TRUE] : c \in ToSet(wizard.newColumns)}
         ELSE {[csv |-> wizard.mapping[n], db |-> n, add |-> FALSE] : n \in {m \in DOMAIN wizard.mapping : Mapped(m)}}
              \cup {[csv |-> h, db |-> wizard.added[h].db, add |-> TRUE] : h \in Added},
     keys |-> IF wizard.step = "new" THEN {} ELSE {k \in wizard.keys : Mapped(k)},
     shown |-> targets[connection], rows |-> WorkingRows, filter |-> wizard.filter,
     asShown |-> ~wizard.moved /\ (wizard.step = "new" \/ wizard.picked = <<connection, targets[connection]>>),
     status |-> "running"]

RunImport ==
    /\ (At("existing") /\ ExistingValid) \/ (At("new") /\ NewValid)
    /\ ~wizard.importing /\ Len(imports) < MaxImports
    /\ imports' = Append(imports, Payload) /\ wizard' = [wizard EXCEPT !.importing = TRUE]
    /\ UNCHANGED <<connection, offer, server, records, uploads, edits, mounts>>

Own(i) == wizard # NONE /\ wizard.id = imports[i].wizard

\* Mutant: what is recorded is read when the import ends.
EntryNow(i) == IF wizard = NONE \/ upload = NONE THEN [of |-> i, file |-> imports[i].file, sheet |-> imports[i].sheet, filter |-> NONE]
                ELSE [of |-> i, file |-> upload.file, sheet |-> SheetName, filter |-> wizard.filter]

\* onImported: the file, sheet and filter of the payload.
Entry(i) == [of |-> i, file |-> imports[i].file, sheet |-> imports[i].sheet, filter |-> imports[i].filter]

\* The import succeeded: the tables have changed and are fetched anew, and the
\* import is recorded even when its wizard is gone.
ImportSucceeds(i) ==
    LET m == imports[i]
        new == {[name |-> c.db, auto |-> FALSE, required |-> FALSE] : c \in {d \in m.columns : d.add}}
        tables == schema[m.connection]
        columns == IF m.table \in DOMAIN tables THEN tables[m.table] \cup new ELSE new
    IN /\ m.status = "running" /\ (m.mode = "existing" <=> m.table \in DOMAIN tables)
       /\ imports' = [imports EXCEPT ![i].status = "done"]
       /\ records' = Append(records, Entry(i))
       /\ schema' = [schema EXCEPT ![m.connection] = With(@, m.table, columns)]
       /\ targets' = [targets EXCEPT ![m.connection] = NONE]
       /\ wizard' = IF Own(i) THEN [wizard EXCEPT !.step = "done", !.importing = FALSE] ELSE wizard
       /\ UNCHANGED <<connection, offer, uploads, edits, mounts>>
ImportFails(i) ==
    /\ imports[i].status = "running" /\ imports' = [imports EXCEPT ![i].status = "failed"]
    /\ wizard' = IF Own(i) THEN [wizard EXCEPT !.importing = FALSE] ELSE wizard
    /\ UNCHANGED <<connection, offer, server, records, uploads, edits, mounts>>

SwitchConnection(c) ==
    /\ c # connection /\ connection' = c /\ FieldEdited
    /\ UNCHANGED <<offer, wizard, server, done, uploads, mounts>>

-----------------------------------------------------------------------------
ShownHeaders == IF upload = NONE THEN {} ELSE ToSet(Table0.headers)
ShownColumns == IF wizard = NONE THEN {} ELSE IF Target = NONE THEN {} ELSE {c.name : c \in Target}

WizardNext ==
    \/ \E f \in Files : ChooseFile(f)
    \/ \E f \in reading : FileRead(f)
    \/ upload # NONE /\ \E k \in DOMAIN upload.sheets : ChangeSheet(k)
    \/ Close
    \/ \E p \in {"paste", "gsheet"} : OpenPanel(p) \/ CancelPanel(p)
    \/ \E t \in Pasted : ContinuePaste(t)
    \/ FetchSheet \/ \E t \in Sheets : SheetArrives(t)
    \/ \E t \in Instructions : TypeContext(t)
    \/ ApplyContext \/ \E replies \in FilterReplies : FilterArrives(replies)
    \/ ClearContext \/ Back \/ FetchTargets
    \/ \E step \in {"existing", "new"} : Go(step)
    \/ wizard # NONE /\ targets[connection] # NONE /\ \E t \in DOMAIN targets[connection] : PickTable(t)
    \/ \E n \in ShownColumns : ToggleKey(n) \/ \E h \in ShownHeaders \cup {NONE} : MapColumn(n, h)
    \/ \E h \in ShownHeaders : ToggleAdded(h) \/ \E n \in TypedNames : RenameAdded(h, n)
    \/ \E n \in TypedNames : NameTable(n) \/ (At("new") /\ \E i \in DOMAIN wizard.newColumns : RenameColumn(i, n))
    \/ RunImport \/ \E i \in DOMAIN imports : ImportSucceeds(i) \/ ImportFails(i)
    \/ \E c \in Connections : SwitchConnection(c)

WizardSpec == WizardInit /\ [][WizardNext]_wizardVars

-----------------------------------------------------------------------------
(* Properties                                                              *)

\* Whatever the format, quoting, spans or statements a table was written with,
\* the table that is shown is the one that was written.
WrittenIsShown ==
    upload # NONE /\ upload.file.written # NONE =>
        upload.sheets = upload.file.written

\* "Single-record fallback: no repeated siblings, the root's children are one
\* row" (data-import.ts:300).
SingleRecordRead ==
    upload # NONE /\ upload.file.format = "XML" =>
        LET document == upload.file.content
            fields == InOrder(document, Children(document, 1))
        IN (\A i \in DOMAIN document \ {1} : Siblings(document, i) = {i}) =>
               /\ Table0.headers = [k \in DOMAIN fields |-> document[fields[k]].tag]
               /\ Len(Table0.rows) = 1

\* An import that succeeded is in the chat history once, and the rows it sent
\* are those of the file and sheet the history names which pass the filter the
\* history describes: also when the instruction was read late, the wizard was
\* closed or is now another file's.
RecordedAsSent ==
    \A i \in DOMAIN imports :
        LET of == {k \in DOMAIN records : records[k].of = i} IN
        /\ Cardinality(of) = (IF imports[i].status = "done" THEN 1 ELSE 0)
        /\ \A k \in of :
            \E sheet \in ToSet(Parsed(records[k].file)) :
                /\ sheet.name = records[k].sheet
                /\ imports[i].rows = IF records[k].filter = NONE THEN sheet.parsed.rows
                                     ELSE ApplyRowFilter(sheet.parsed.rows, records[k].filter)

\* What is sent fits the table that was shown when its columns were mapped, and
\* the file, unless the wizard was kept for another one: columns of the table,
\* each once, from columns of the file, with a value for every required one,
\* and keys among them.
SentFitsShown ==
    \A i \in DOMAIN imports :
        LET m == imports[i] names == {c.db : c \in m.columns} IN
        m.asShown =>
            /\ Cardinality(names) = Cardinality(m.columns) /\ m.columns # {}
            /\ \A c \in m.columns, r \in DOMAIN m.rows : c.csv \in DOMAIN m.rows[r]
            /\ m.keys \subseteq names
            /\ m.mode = "existing" =>
                LET table == m.shown[m.table] IN
                /\ \A c \in m.columns : c.add \/ \E d \in table : d.name = c.db
                /\ \A d \in table : d.required => d.name \in names
=============================================================================
