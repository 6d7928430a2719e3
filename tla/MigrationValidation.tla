-------------------------- MODULE MigrationValidation --------------------------
(***************************************************************************)
(* MigrationValidationService of apps/api/src/migrations/validation and    *)
(* the gate of DataMigrationService.run: two databases are inspected       *)
(* through the adapter of their engine, phase by phase, and the report     *)
(* decides whether the copy may start.                                     *)
(*                                                                         *)
(* A database is what the adapters can ask it: whether it answers, what    *)
(* the user may do, its tables with their columns and rows.  A value of a  *)
(* row is NULL or what the types tell apart: its sign, the rank of the     *)
(* least integer limit it is within (see IntMax), its digits before and    *)
(* after the point, its characters, the rank of the least of 255, 64K and  *)
(* 16M bytes it is within, the word an enum has to know, and the charsets  *)
(* it can be written in (none: it needs no other than ASCII).              *)
(***************************************************************************)
EXTENDS MigrationRules, FiniteSetsExt

CONSTANTS Scenarios,    \* pairs of databases and the request made for them
          NULL

Engines == {"mysql", "postgres", "sqlserver", "oracle"}
Numbers == Range(IntOrder) \cup DecimalFamily

\* The rank of the bytes a value may have: of numbers few are needed, a row of MySQL has 64K for its
\* strings, and its texts are counted in bytes.
Size(engine, type) ==
    CASE type.base \in Numbers -> 1
      [] engine = "mysql" /\ type.base \in CharFamily -> 2
      [] engine = "mysql" /\ type.base \in Range(TextOrder) -> Rank(type, TextOrder)
      [] engine = "mysql" /\ type.base \in Range(BlobOrder) -> Rank(type, BlobOrder)
      [] OTHER -> 4

\* What a column of a type takes as it is, as its database decides.
Holds(engine, type, v) ==
    /\ type.base \in Range(IntOrder) => v.rank <= IntMax(type)
    /\ type.unsigned => ~v.neg
    /\ type.base \in CharFamily \cup {"character", "nvarchar", "nchar"} /\ type.len # 0 => v.len <= type.len
    /\ type.prec # 0 => v.digits <= type.prec - type.scale /\ v.scale <= type.scale
    /\ v.size <= Size(engine, type)
    /\ type.enum # {} => v.word \in type.enum
Takes(engine, c, v) ==
    IF v = NULL THEN c.nullable
    ELSE Holds(engine, c.type, v) /\ (v.charsets = {} \/ c.charset \in v.charsets)

\* What databases hold: lists of columns and of rows; in the source, each value
\* is one that its column takes.  Only MySQL knows charsets of columns and
\* UNSIGNED; the tinyint of SQL Server has no sign.
IsList(s) == s \in Seq(Range(s))
IsType(engine, type) ==
    /\ type = [name |-> type.name, base |-> Base(type.name), len |-> type.len, prec |-> type.prec,
               scale |-> type.scale, unsigned |-> type.unsigned, enum |-> type.enum]
    /\ type.len \in Nat /\ type.prec \in Nat /\ type.scale \in Nat /\ type.unsigned \in BOOLEAN
    /\ type.unsigned => type.base \in Numbers
    /\ type.prec # 0 => type.base \in DecimalFamily \cup {"number"}
    /\ type.enum # {} => type.base \notin Numbers \cup CharFamily \cup Range(TextOrder) \cup Range(BlobOrder)
    /\ type.base = "enum" => engine = "mysql" /\ type.enum # {}
    /\ engine # "mysql" => type.unsigned = (engine = "sqlserver" /\ type.base = "tinyint")
    /\ engine = "postgres" => type.base \notin CharFamily
    /\ engine = "oracle" => type.base \notin Range(IntOrder)
    /\ engine \in {"sqlserver", "oracle"} => type.enum = {}
    /\ type.name = "varchar2" => engine = "oracle"
    /\ engine = "oracle" /\ type.base \in CharFamily => type.len # 0
IsColumn(engine, c) ==
    /\ c = [name |-> c.name, lower |-> c.lower, type |-> c.type, nullable |-> c.nullable, default |-> c.default,
            charset |-> c.charset, collation |-> c.collation, auto |-> c.auto, generated |-> c.generated, large |-> c.large]
    /\ IsType(engine, c.type) /\ c.nullable \in BOOLEAN /\ c.auto \in BOOLEAN
    /\ c.charset # "" <=> engine = "mysql" /\ c.type.base \in CharFamily \cup Range(TextOrder) \cup {"enum", "set"}
IsTable(engine, table) ==
    IsList(table.cols) /\ IsList(table.rows) /\ \A c \in Range(table.cols) : IsColumn(engine, c)
IsValue(v) ==
    v = NULL \/ (/\ v.neg \in BOOLEAN /\ {v.rank, v.len, v.digits, v.scale} \subseteq Nat
                /\ v.size \in 1..4 /\ "" \notin v.charsets)
HasValues(engine, table) ==
    \A c \in Range(table.cols), row \in Range(table.rows) : IsValue(row[c.name]) /\ Takes(engine, c, row[c.name])

\* NULL is no number; no table is asked for twice.
ASSUME MigrationValidationAssumption ==
    /\ NULL \notin Int
    /\ \A f \in Scenarios :
        /\ f.engine \in Engines /\ IsList(f.tables) /\ IsInjective(f.tables)
        /\ \A t \in DOMAIN f.src.tables : IsTable(f.engine, f.src.tables[t]) /\ HasValues(f.engine, f.src.tables[t])
        /\ \A t \in DOMAIN f.tgt.tables : IsTable(f.engine, f.tgt.tables[t])

VARIABLES facts,    \* the scenario; nothing changes while it is inspected
          phase,    \* what comes next
          issues,   \* what the phases found, in order
          validation, \* the report, NULL before it is made
          open,     \* the sides whose connection is open
          started   \* whether the copy was started
validationVars == <<facts, phase, issues, validation, open, started>>

Privileges == {"select", "insert", "update", "delete", "create"}
Phases == <<"source", "target", "schema", "data", "duplicates", "edge", "report">>

-----------------------------------------------------------------------------
(* The adapters                                                            *)

\* SHOW GRANTS: the lines for everything, this database or one of its tables.
\* CREATE is looked for as a text, and CREATE VIEW has it.
MysqlGrants(db) ==
    LET held == UNION {g.privileges : g \in {h \in db.grants : h.on # "elsewhere"}}
    IN held \cup (IF "create view" \in held THEN {"create"} ELSE {})

\* Grants on the tables there are: none in a schema without tables.  The
\* right to create is the schema's.
PostgresGrants(db) ==
    LET on(scope) == UNION {g.privileges : g \in {h \in db.grants : h.on = scope}}
    IN (IF DOMAIN db.tables = {} THEN {} ELSE on("table") \ {"create"}) \cup (on("database") \cap {"create"})

\* Permissions of the whole database: those on single tables do not count.
SqlServerGrants(db) == UNION {g.privileges : g \in {h \in db.grants : h.on = "database"}}

\* A user owns its schema.
OracleGrants(db) == Privileges

\* What cannot be read is taken to be granted.
Grants(db) == IF ~db.grantsReadable THEN Privileges
              ELSE CASE facts.engine = "mysql" -> MysqlGrants(db)
                     [] facts.engine = "postgres" -> PostgresGrants(db)
                     [] facts.engine = "sqlserver" -> SqlServerGrants(db)
                     [] facts.engine = "oracle" -> OracleGrants(db)

\* tableExists of Oracle reads USER_TABLES, where there are no views.
OracleExists(db, t) == t \in DOMAIN db.tables /\ ~db.tables[t].view
Exists(db, t) == IF facts.engine = "oracle" THEN OracleExists(db, t) ELSE t \in DOMAIN db.tables

\* getColumns: what of a column each engine reports.  The types of MySQL are
\* written out; an enum of Postgres is its name, without what it lists.
MysqlColumn(c) == c
PostgresColumn(c) == [c EXCEPT !.charset = "", !.type.unsigned = FALSE, !.type.enum = {}]
\* The length of varchar(max) is -1 there, which is no length.
SqlServerColumn(c) == [c EXCEPT !.charset = "", !.type.unsigned = FALSE, !.type.enum = {}]
OracleColumn(c) == [c EXCEPT !.charset = "", !.collation = "", !.type.unsigned = FALSE, !.type.enum = {}]

Reported(c) == CASE facts.engine = "mysql" -> MysqlColumn(c)
                 [] facts.engine = "postgres" -> PostgresColumn(c)
                 [] facts.engine = "sqlserver" -> SqlServerColumn(c)
                 [] facts.engine = "oracle" -> OracleColumn(c)
Columns(db, t) == [i \in DOMAIN db.tables[t].cols |-> Reported(db.tables[t].cols[i])]

\* MAX and COUNT over the rows of a table.  Columns are found by name.
Values(db, t, c) == {r[c] : r \in Range(db.tables[t].rows)} \ {NULL}
MaxCharLength(db, t, c) == IF Values(db, t, c) = {} THEN NULL ELSE Max({v.len : v \in Values(db, t, c)})
MaxNumeric(db, t, c) ==
    IF Values(db, t, c) = {} THEN NULL
    ELSE Max({IF v.neg THEN -v.rank ELSE v.rank : v \in Values(db, t, c)})
NullCount(db, t, c) == Cardinality({i \in DOMAIN db.tables[t].rows : db.tables[t].rows[i][c] = NULL})

\* The keys of up to ten thousand rows, each a parameter: SQL Server takes
\* 2100 of them, Oracle a list of a thousand.
SqlServerRefuses(t) == facts.engine = "sqlserver" /\ facts.src.tables[t].thousands > 2
OracleRefuses(t) == facts.engine = "oracle" /\ facts.src.tables[t].thousands > 1

KeyOf(row, t) == [c \in facts.src.tables[t].pk |-> row[c]]
Keys(db, t) == {KeyOf(r, t) : r \in Range(db.tables[t].rows)}

-----------------------------------------------------------------------------
(* The phases                                                              *)

Table(side, t) == facts[side].tables[t]
InSource(t) == Exists(facts.src, t)
InTarget(t) == Exists(facts.tgt, t)
SeenInTarget(t) == facts.tgt.up /\ InTarget(t)
EachTable(Check(_)) == FlattenSeq([i \in DOMAIN facts.tables |-> Check(facts.tables[i])])

SourceTable(t) ==
    LET tab == Table("src", t) cols == Range(Columns(facts.src, t))
    IN  When(tab.view /\ ~facts.allowViews, Issue("source", "SOURCE_IS_VIEW", "BLOCKER", t))
        \o When(tab.pk = {}, Issue("source", "NO_PRIMARY_KEY", "WARNING", t))
        \o When(Cardinality(tab.pk) > 1, Issue("source", "COMPOSITE_PK", "INFO", t))
        \o When(tab.triggers, Issue("source", "TRIGGERS_PRESENT", "WARNING", t))
        \o When(tab.partitioned /\ facts.engine # "sqlserver", Issue("source", "PARTITIONED", "WARNING", t))
        \o When(\E c \in cols : c.generated, Issue("source", "GENERATED_COLUMNS", "INFO", t))
        \o When(\E c \in cols : c.large, Issue("source", "BLOB_TEXT_COLUMNS", "INFO", t))
        \o When(tab.thousands > 5000, Issue("source", "VERY_LARGE_TABLE", "WARNING", t))

SourceIssues ==
    LET Check(t) == IF InSource(t) THEN SourceTable(t)
                    ELSE <<Issue("source", "SOURCE_TABLE_MISSING", "BLOCKER", t)>>
    IN IF ~facts.src.up THEN <<Issue("source", "SOURCE_CONN_INACTIVE", "BLOCKER", NULL)>>
       ELSE When(~facts.src.exists, Issue("source", "SOURCE_DB_MISSING", "BLOCKER", NULL))
            \o When("select" \notin Grants(facts.src), Issue("source", "SELECT_PERMISSION_MISSING", "BLOCKER", NULL))
            \o EachTable(Check)

TargetIssues ==
    LET may == Grants(facts.tgt)
        lacks(privilege, code, sev) == When(privilege \notin may, Issue("target", code, sev, NULL))
    IN IF ~facts.tgt.up THEN <<Issue("target", "TARGET_CONN_INACTIVE", "BLOCKER", NULL)>>
       ELSE When(~facts.tgt.exists, Issue("target", "TARGET_DB_MISSING", "BLOCKER", NULL))
            \o lacks("insert", "INSERT_PERMISSION_MISSING", "BLOCKER")
            \o (IF \A t \in Range(facts.tables) : InTarget(t) THEN <<>>
                ELSE lacks("create", "CREATE_PERMISSION_MISSING", "BLOCKER"))
            \o (IF facts.mode = "append" THEN lacks("update", "UPDATE_PERMISSION_MISSING", "WARNING")
                ELSE lacks("delete", "DELETE_PERMISSION_MISSING", "BLOCKER"))

SchemaIssues ==
    LET Check(t) ==
          IF ~InSource(t) THEN <<>>
          ELSE IF ~InTarget(t) THEN <<Issue("schema", "TARGET_TABLE_WILL_BE_CREATED", "INFO", t)>>
          ELSE CompareTableColumns(t, Columns(facts.src, t), Columns(facts.tgt, t))
    IN EachTable(Check)

TooLong(len, t) == len # NULL /\ len > t.type.len

\* The values of one column against its target, whose type goes by its name:
\* the texts of Postgres and Oracle have others.
ColumnData(t, s, c) ==
    When(c.type.name \in CharFamily /\ c.type.len # 0 /\ TooLong(MaxCharLength(facts.src, t, s.name), c),
         Issue("data", "STRING_OVERFLOW", "BLOCKER", t))
    \o When(c.type.name \in Range(IntOrder) /\ MaxNumeric(facts.src, t, s.name) # NULL
              /\ MaxNumeric(facts.src, t, s.name) > IntMax(c.type),
            Issue("data", "NUMERIC_OVERFLOW", "BLOCKER", t))
    \o When(s.nullable /\ ~c.nullable /\ NullCount(facts.src, t, s.name) > 0,
            Issue("nullability", "NULL_INTO_NOT_NULL", "BLOCKER", t))

DataIssues ==
    LET Check(t) ==
          LET src == Columns(facts.src, t) tgt == Columns(facts.tgt, t)
          IN IF ~InSource(t) \/ ~InTarget(t) THEN <<>>
             ELSE FlattenSeq([i \in DOMAIN src |->
                      IF Named(tgt, src[i].lower) = {} THEN <<>>
                      ELSE ColumnData(t, src[i], Column(tgt, src[i].lower))])
    IN EachTable(Check)

\* The tables whose keys are probed on the target.
Probed == {t \in Range(facts.tables) : facts.mode = "append" /\ InTarget(t) /\ InSource(t)
                                       /\ Table("src", t).pk # {}}
DuplicateIssues ==
    LET Check(t) == When(t \in Probed /\ Keys(facts.src, t) \cap Keys(facts.tgt, t) # {},
                         Issue("duplicate", "PK_CONFLICTS", "WARNING", t))
    IN EachTable(Check)

Dependencies == AnalyzeDependencies(facts.tables, facts.fks)

EdgeIssues ==
    LET refers(t, kind) == When(kind \in facts.refs[t], Issue("constraint", kind, "INFO", t))
        Check(t) == When(t \in facts.reserved, Issue("constraint", "RESERVED_TABLE_NAME", "WARNING", t))
                    \o refers(t, "ROUTINE_DEPENDENCY")
                    \o (IF facts.engine = "mysql" THEN refers(t, "EVENT_DEPENDENCY") ELSE <<>>)
                    \o refers(t, "VIEW_DEPENDENCY")
        Collision(t) == When(InSource(t) /\ SeenInTarget(t) /\ facts.mode = "append"
                               /\ \E c \in Range(Columns(facts.src, t)) : c.auto,
                             Issue("constraint", "AUTO_INCREMENT_COLLISION_RISK", "WARNING", t))
        Self(t) == When(t \in Dependencies.selfRef, Issue("constraint", "SELF_REFERENCING_FK", "WARNING", t))
    IN EachTable(Self)
       \o [i \in 1..Cardinality(Dependencies.circular) |-> Issue("constraint", "CIRCULAR_DEPENDENCY", "WARNING", NULL)]
       \o EachTable(Check) \o EachTable(Collision)

\* What the report proposes to do, in order.
Plan ==
    LET dep == Dependencies
        missing == Filter(facts.tables, {t \in Range(facts.tables) : facts.tgt.up /\ ~InTarget(t)})
        lacking == Filter(facts.tables,
                       {issues[i].table : i \in {j \in DOMAIN issues : issues[j].code = "TARGET_COLUMN_MISSING"}})
        parents == Filter(dep.order, {t \in Range(dep.order) : dep.parents[t] = {}})
        children == Filter(dep.order, {t \in Range(dep.order) : dep.parents[t] # {}})
        step(name, tables) == IF tables = <<>> THEN <<>> ELSE <<[action |-> name, tables |-> tables]>>
    IN step("create", missing) \o step("create columns", lacking)
       \o <<[action |-> "migrate", tables |-> parents]>> \o step("migrate", children)

-----------------------------------------------------------------------------
(* The service                                                             *)

ValidationInit ==
    /\ facts \in Scenarios
    /\ phase = "connect" /\ issues = <<>> /\ validation = NULL /\ open = {} /\ started = FALSE

\* One after the other; the second that fails leaves the first one open.
Connect ==
    /\ phase = "connect"
    /\ \/ open' = {"src", "tgt"} /\ phase' = "source"
       \/ open' \in {{}, {"src"}} /\ phase' = "thrown"
    /\ UNCHANGED <<facts, issues, validation, started>>

Found(p) == CASE p = "source" -> SourceIssues [] p = "target" -> TargetIssues [] p = "schema" -> SchemaIssues
              [] p = "data" -> DataIssues [] p = "duplicates" -> DuplicateIssues [] p = "edge" -> EdgeIssues

\* A statement the database refuses: any one of a connection that is gone,
\* from the foreign keys on; a probe of too many keys.
Throws(p) ==
    \/ ~facts.src.up
    \/ ~facts.tgt.up /\ p = "schema" /\ \E t \in Range(facts.tables) : InSource(t)
    \/ ~facts.tgt.up /\ p = "duplicates" /\ facts.mode = "append"
    \/ p = "duplicates" /\ \E t \in Probed : SqlServerRefuses(t) \/ OracleRefuses(t)

Inspect(p) ==
    /\ phase = p /\ p # "report" /\ ~Throws(p)
    /\ issues' = issues \o Found(p)
    /\ phase' = Phases[Position(p, Phases) + 1]
    /\ UNCHANGED <<facts, validation, open, started>>

\* finally: both are closed.
Throw(p) ==
    /\ phase = p /\ p # "report" /\ Throws(p)
    /\ phase' = "thrown" /\ open' = {}
    /\ UNCHANGED <<facts, issues, validation, started>>

Total(measure) == FoldLeft(LAMBDA sum, t : sum + (IF InSource(t) THEN Table("src", t)[measure] ELSE 0),
                           0, facts.tables)

MakeReport ==
    /\ phase = "report"
    /\ validation' = [readiness |-> ComputeReadiness(issues), proceed |-> ~Has(issues, "BLOCKER"),
                  strategy |-> RecommendStrategy[ClassifyVolume(Total("thousands"), Total("mib"))],
                  order |-> Dependencies.order, circular |-> Dependencies.circular, plan |-> Plan]
    /\ phase' = "reported" /\ open' = {}
    /\ UNCHANGED <<facts, issues, started>>

\* The gate: only a blocker stops the copy; a validation that could not be
\* completed is logged.
Gate ==
    /\ phase \in {"reported", "thrown"}
    /\ started' = (phase = "thrown" \/ validation.proceed)
    /\ phase' = "gated"
    /\ UNCHANGED <<facts, issues, validation, open>>

ValidationNext == Connect \/ MakeReport \/ Gate \/ \E p \in Range(Phases) : Inspect(p) \/ Throw(p)

ValidationSpec == ValidationInit /\ [][ValidationNext]_validationVars

-----------------------------------------------------------------------------
(* Properties                                                              *)

\* Columns of one name, as the database decides.
SameColumn(s, c) ==
    IF facts.engine \in {"postgres", "oracle"} THEN s.name = c.name ELSE s.lower = c.lower

\* The changes of type that count as no error and whose values nothing
\* measures: a column that becomes unsigned; a string into a tinytext; a
\* number without a precision into one that has a precision; another charset;
\* an enum of Postgres, known by its name only; and a float into a varchar2,
\* which the phase takes for no string.
Unmeasured(s, c) ==
    \/ ~s.type.unsigned /\ c.type.unsigned
    \/ s.type.base \in CharFamily /\ c.type.base = "tinytext"
    \/ In(s.type, c.type, DecimalFamily) /\ s.type.prec = 0 /\ c.type.prec # 0
    \/ Differ(s.charset, c.charset)
    \/ facts.engine = "postgres" /\ c.type.enum # {} /\ (s.type.enum = {} \/ ~(s.type.enum \subseteq c.type.enum))
    \/ s.type.base \in DecimalFamily /\ c.type.name = "varchar2"

\* A row goes in if every column it has is there and takes its value, unless
\* its change of type is one of those, and the columns it does not have can do
\* without.  Keys and generated columns are another matter.
Fits(row, t) ==
    LET src == Range(Table("src", t).cols) tgt == Range(Table("tgt", t).cols)
    IN /\ \A s \in src : \E c \in tgt : SameColumn(s, c) /\ (Unmeasured(s, c) \/ Takes(facts.engine, c, row[s.name]))
       /\ \A c \in tgt : (\E s \in src : SameColumn(s, c)) \/ c.nullable \/ c.default # "" \/ c.auto

\* Names that differ in case only are other columns to Postgres and Oracle,
\* and are the same to the comparison.
CaseApart(t) ==
    \E s \in Range(Table("src", t).cols), c \in Range(Table("tgt", t).cols) :
        s.lower = c.lower /\ ~SameColumn(s, c)

\* phase45Data, compareTableColumns: a report that does not say NOT_READY
\* means that every row of every selected table goes into its target, but for
\* the values of changes nothing measures and names told apart by their case.
CleanReportCopies ==
    (phase = "reported" /\ validation.readiness.status # "NOT_READY") =>
        \A t \in Range(facts.tables) : InTarget(t) /\ ~CaseApart(t) =>
            \A row \in Range(Table("src", t).rows) : Fits(row, t)

\* Whether a table is behind another, over any number of references: it is in
\* every set that has what the other refers to and what its tables refer to.
Behind(t, u) ==
    \A S \in SUBSET Range(facts.tables) :
        (\A s \in S \cup {t} : Deps(s, facts.tables, facts.fks) \subseteq S) => u \in S

\* analyzeDependencies, phase11Plan: the order and the plan have every table
\* once, after those it refers to where that is possible, and the groups
\* reported as circular are exactly the tables that refer to each other.
OrderSound ==
    phase = "reported" =>
        LET planned == FlattenSeq([i \in DOMAIN validation.plan |->
                           IF validation.plan[i].action = "migrate" THEN validation.plan[i].tables ELSE <<>>])
            mutual(t) == {u \in Range(facts.tables) : t = u \/ (Behind(t, u) /\ Behind(u, t))}
        IN /\ ParentsFirstIn(validation.order, facts.tables, facts.fks)
           /\ ParentsFirstIn(planned, facts.tables, facts.fks)
           /\ validation.circular = {g \in {mutual(t) : t \in Range(facts.tables)} : Cardinality(g) > 1}

\* DataMigrationService.run: "never start if a BLOCKER is present".
GateHolds ==
    started => \A p \in Range(Phases) \ {"report"} : ~Has(Found(p), "BLOCKER")
=============================================================================
