----------------------------- MODULE SchemaAudit -----------------------------
(***************************************************************************)
(* The schema audit, apps/api/src/connections/schema-audit.service.ts and  *)
(* audit-dialect.ts: how each engine's catalog is read into one model of   *)
(* tables, the rules that look for bad practice in it, the report, and     *)
(* what the statement offered with a finding does to the database.         *)
(*                                                                         *)
(* A live schema is a function from table names to                         *)
(*   [view, storage, utf8mb4, large, columns, pk, key, fks, indexes]       *)
(* with columns a set of [name, type, len, nullable, auto] (len 0: none),  *)
(* pk, key and fks sets of column names, and indexes a set of [columns,    *)
(* includes, unique]; key is what MySQL's COLUMN_KEY calls primary.  What  *)
(* the regular expressions find in a name is the constant Class; the       *)
(* catalogs' own type names are Native.                                    *)
(***************************************************************************)
EXTENDS AiOrchestrator

CONSTANTS
    Class,  \* what each name is: a set of classes
    RefersTo \* for each column name x_id: <<x, xs, xes>>

Engines == {"mysql", "mariadb", "postgres", "redshift", "sqlserver", "snowflake", "oracle"}
ConnectQueryOnly(engine) == engine \in {"redshift", "snowflake"}
MysqlFamily(engine) == engine \in {"mysql", "mariadb"}

\* The names the catalogs have for the types used here.
Native(engine) ==
    CASE engine = "postgres" ->
            [int |-> "integer", big |-> "bigint", single |-> "real", double |-> "double precision",
             exact |-> "numeric", string |-> "character varying", text |-> "text", flag |-> "boolean",
             time |-> "timestamp"]
      [] engine = "sqlserver" ->
            [int |-> "int", big |-> "bigint", single |-> "real", double |-> "float",
             exact |-> "numeric", string |-> "nvarchar", text |-> "ntext", flag |-> "bit",
             time |-> "datetime2"]
      [] engine = "oracle" ->
            [int |-> "number", big |-> "number", single |-> "binary_float", double |-> "binary_double",
             exact |-> "number", string |-> "varchar2", text |-> "clob", flag |-> "number",
             time |-> "timestamp"]
      [] OTHER ->
            [int |-> "int", big |-> "bigint", single |-> "float", double |-> "double",
             exact |-> "decimal", string |-> "varchar", text |-> "text", flag |-> "tinyint",
             time |-> "timestamp"]

Names(t) == {c.name : c \in t.columns}
Nullable(t) == {c.name : c \in {d \in t.columns : d.nullable}}
Autos(t) == {c.name : c \in {d \in t.columns : d.auto}}
\* COLUMN_KEY: without a primary key, MySQL calls the columns of a unique
\* index over NOT NULL columns primary, of the first one it was given.
MysqlKeys(t) ==
    LET candidates == {ToSet(i.columns) : i \in {j \in t.indexes : j.unique /\ ToSet(j.columns) \cap Nullable(t) = {}}}
    IN IF t.pk # {} THEN {t.pk} ELSE IF candidates = {} THEN {{}} ELSE candidates

\* What a customer's database may hold.
IsTable(t) ==
    /\ DOMAIN t = {"view", "storage", "utf8mb4", "large", "columns", "pk", "key", "fks", "indexes"}
    /\ IsFiniteSet(t.columns)
    /\ \A c \in t.columns :
        DOMAIN c = {"name", "type", "len", "nullable", "auto"} /\ c.type \in DOMAIN Native("mysql")
    /\ \A i \in t.indexes : i.columns \in Seq(Names(t)) /\ i.columns # <<>>
    /\ t.pk \cap Nullable(t) = {} /\ t.fks \subseteq Names(t) /\ t.key \in MysqlKeys(t)
\* Only Postgres has tables with several auto-increment columns.
OneAuto(t) == \A x, y \in Autos(t) : x = y
IsSchema(live) == IsFiniteSet(DOMAIN live) /\ \A n \in DOMAIN live : IsTable(live[n])

\* The columns the audit offers to add are none a rule could find fault with.
ASSUME SchemaAuditAssumption ==
    \A name \in {"id", "created_at", "updated_at"} :
        Lower[name] = name /\ name \notin DOMAIN RefersTo
        /\ Class[name] \cap {"money", "flag", "password", "sensitive", "natural"} = {}

-----------------------------------------------------------------------------
(* introspect                                                              *)

\* A type the map does not name keeps its name.
Renamed(map, type) == IF type \in DOMAIN map THEN map[type] ELSE type

\* Mutant: double precision is left as it is.
MapPgTypeShort(type) ==
    CASE type = "character varying" -> "varchar"
      [] OTHER -> Renamed([integer |-> "int", real |-> "float", numeric |-> "decimal", character |-> "char"], type)

MapPgType(type) ==
    CASE type = "double precision" -> "double"
      [] type = "character varying" -> "varchar"
      [] OTHER -> Renamed([integer |-> "int", real |-> "float", numeric |-> "decimal", character |-> "char"], type)
MapMssqlType(type) ==
    Renamed([float |-> "double", real |-> "float", numeric |-> "decimal", money |-> "decimal",
             smallmoney |-> "decimal", nvarchar |-> "varchar", nchar |-> "char",
             ntext |-> "text", bit |-> "boolean"], type)
MapOracleType(type) ==
    Renamed([varchar2 |-> "varchar", nvarchar2 |-> "varchar", nchar |-> "char", clob |-> "text",
             nclob |-> "text", long |-> "text", number |-> "decimal", binary_float |-> "float",
             binary_double |-> "double"], type)

ColumnModel(c, type) ==
    [name |-> c.name, type |-> type, nullable |-> c.nullable, auto |-> c.auto,
     len |-> IF c.len > 0 THEN c.len ELSE 999]

\* The model of a table whose columns are read with Type, whose primary key
\* is key and whose indexes list the columns Listed gives.
TableModel(t, engine, Type(_), key, Listed(_)) ==
    [view |-> t.view, large |-> t.large, pk |-> key, fks |-> t.fks,
     storage |-> IF MysqlFamily(engine) THEN t.storage ELSE "",
     utf8mb4 |-> MysqlFamily(engine) => t.utf8mb4,
     columns |-> {ColumnModel(c, Type(Native(engine)[c.type])) : c \in t.columns},
     indexes |-> {[columns |-> Listed(i), unique |-> i.unique] : i \in t.indexes}]

IntrospectMysql(t) ==
    TableModel(t, "mysql", LAMBDA type : type, t.key, LAMBDA i : i.columns)
\* indkey holds the included columns after the others.
IntrospectPostgres(t) ==
    TableModel(t, "postgres", MapPgType, t.pk, LAMBDA i : i.columns \o i.includes)
\* An included column has the key_ordinal 0 the rows are sorted by.
IntrospectSqlServer(t) ==
    TableModel(t, "sqlserver", MapMssqlType, t.pk, LAMBDA i : i.includes \o i.columns)
IntrospectOracle(t) ==
    TableModel(t, "oracle", MapOracleType, t.pk, LAMBDA i : i.columns)

Introspect(engine, live) ==
    [n \in DOMAIN live |->
        CASE engine = "postgres" -> IntrospectPostgres(live[n])
          [] engine = "sqlserver" -> IntrospectSqlServer(live[n])
          [] engine = "oracle" -> IntrospectOracle(live[n])
          [] OTHER -> IntrospectMysql(live[n])]

-----------------------------------------------------------------------------
(* RULES                                                                   *)

NoFix == [kind |-> "none"]
Fix(kind, table, column, target) == [kind |-> kind, table |-> table, column |-> column, target |-> target]
Finding(rule, severity, table, column, fix) ==
    [rule |-> rule, severity |-> severity, table |-> table, column |-> column, fix |-> fix]
TableFinding(rule, severity, n, kind) ==
    Finding(rule, severity, n, "", IF kind = "none" THEN NoFix ELSE Fix(kind, n, "", ""))
ColumnFinding(rule, severity, n, c, kind) ==
    Finding(rule, severity, n, c.name, IF kind = "none" THEN NoFix ELSE Fix(kind, n, c.name, ""))

BaseTables(m) == {n \in DOMAIN m : ~m[n].view}
Places(m, tables) == UNION {{<<n, c>> : c \in m[n].columns} : n \in tables}

NoPk(m) == {TableFinding("no_pk", "high", n, "addIdPk") : n \in {x \in BaseTables(m) : m[x].pk = {}}}

\* The first of x, xs and xes that is a table, whatever its case.
Target(tables, column) ==
    LET names == {Lower[n] : n \in tables}
        hits == SelectSeq(RefersTo[Lower[column]], LAMBDA x : x \in names)
    IN IF hits = <<>> THEN {} ELSE {hits[1]}
IsRef(column) == Lower[column] \in DOMAIN RefersTo

ImplicitFk(m) ==
    UNION {{Finding("implicit_fk", "medium", p[1], p[2].name, Fix("addForeignKey", p[1], p[2].name, ref)) :
               ref \in Target(DOMAIN m, p[2].name)} :
           p \in {q \in Places(m, BaseTables(m)) :
                    IsRef(q[2].name) /\ q[2].name \notin m[q[1]].fks \cup m[q[1]].pk}}

IndexedFirst(t, column) == \E i \in t.indexes : i.columns[1] = column
UnindexedId(m) ==
    {ColumnFinding("unindexed_id", "medium", p[1], p[2], "createIndex") :
        p \in {q \in Places(m, BaseTables(m)) :
                IsRef(q[2].name) /\ q[2].name \notin m[q[1]].pk /\ ~IndexedFirst(m[q[1]], q[2].name)}}

NullableFk(m) ==
    {ColumnFinding("nullable_fk", "low", p[1], p[2], "none") :
        p \in {q \in Places(m, DOMAIN m) : q[2].name \in m[q[1]].fks /\ q[2].nullable}}

NoTimestamps(m) ==
    LET Lacks(n, names) == {Lower[c.name] : c \in m[n].columns} \cap names = {}
    IN {TableFinding("no_timestamps", "low", n, "addTimestamps") :
            n \in {x \in BaseTables(m) : Lacks(x, {"created_at", "created", "createdat"})
                                         \/ Lacks(x, {"updated_at", "updated", "updatedat"})}}

\* A column of a class with a type that does not suit it.
Mistyped(m, class, types) ==
    {p \in Places(m, DOMAIN m) : class \in Class[p[2].name] /\ p[2].type \in types}
MoneyFloat(m) ==
    {ColumnFinding("money_float", "medium", p[1], p[2], "setColumnDecimal") :
        p \in Mistyped(m, "money", {"float", "double"})}
BoolString(m) ==
    {ColumnFinding("bool_string", "low", p[1], p[2], "setColumnBoolean") :
        p \in Mistyped(m, "flag", {"varchar", "char", "text"})}

\* Only when at least six tables in ten are in snake case.
Naming(m) ==
    LET snake == {n \in BaseTables(m) : "snake" \in Class[n]}
    IN IF 10 * Cardinality(snake) < 6 * Cardinality(BaseTables(m)) THEN {}
       ELSE {TableFinding("naming", "medium", n, "none") :
                n \in {x \in BaseTables(m) \ snake : "underscore" \notin Class[x]}}

StorageEngine(m) ==
    {TableFinding("engine", "medium", n, "useInnoDB") : n \in {x \in BaseTables(m) : m[x].storage \notin {"", "InnoDB"}}}
Charset(m) ==
    {TableFinding("charset", "low", n, "useUtf8mb4") : n \in {x \in BaseTables(m) : ~m[x].utf8mb4}}

\* `find' takes the first auto-increment column of the key.  Columns have no
\* order here, so that it is any of them, but always the same.
FirstSerial(t) == CHOOSE name \in Autos(t) \cap t.pk : TRUE
IntPk(m) ==
    {ColumnFinding("int_pk", IF m[p[1]].large THEN "medium" ELSE "low", p[1], p[2], "widenPkToBigint") :
        p \in {q \in Places(m, BaseTables(m)) :
                /\ q[2].name \in m[q[1]].pk /\ q[2].auto /\ q[2].type = "int"
                /\ q[2].name = FirstSerial(m[q[1]])}}

PlaintextPw(m) ==
    {ColumnFinding("plaintext_pw", "high", p[1], p[2], "none") :
        p \in {q \in Mistyped(m, "password", {"varchar", "char", "text"}) : q[2].len < 60}}

Sensitive(m) ==
    {ColumnFinding("sensitive", "medium", p[1], p[2], "none") :
        p \in {q \in Places(m, DOMAIN m) : "sensitive" \in Class[q[2].name]}}

UniqueKey(m) ==
    {ColumnFinding("unique_key", "low", p[1], p[2], "createUniqueIndex") :
        p \in {q \in Places(m, BaseTables(m)) :
                "natural" \in Class[q[2].name] /\
                ~\E i \in m[q[1]].indexes : i.unique /\ i.columns = <<q[2].name>>}}

Findings(m) ==
    NoPk(m) \cup ImplicitFk(m) \cup UnindexedId(m) \cup NullableFk(m) \cup NoTimestamps(m)
    \cup MoneyFloat(m) \cup BoolString(m) \cup Naming(m) \cup StorageEngine(m) \cup Charset(m)
    \cup IntPk(m) \cup PlaintextPw(m) \cup Sensitive(m) \cup UniqueKey(m)

-----------------------------------------------------------------------------
(* audit                                                                   *)

CountOf(findings, severity) == Cardinality({f \in findings : f.severity = severity})
\* Of each severity so many points; "info" costs none.
Weigh == [high |-> 12, medium |-> 5, low |-> 2]
Penalty(findings) ==
    LET Points(s) == Weigh[s] * CountOf(findings, s) IN Points("high") + Points("medium") + Points("low")
Score(penalty) == Max({0, 100 - penalty})

\* What the providers advise comes on top of the rules' findings.
Report(engine, live, replies) ==
    LET m == Introspect(engine, live)
        advice == ReviewSchema(replies)
    IN [findings |-> Findings(m), advice |-> advice,
        score |-> Score(Penalty(Findings(m)) + Penalty(advice)),
        tables |-> Cardinality(BaseTables(m)),
        counts |-> [s \in {"high", "medium", "low", "info"} |-> CountOf(Findings(m), s) + CountOf(advice, s)]]

-----------------------------------------------------------------------------
(* audit-dialect: the statements offered                                   *)

NewColumn(name, type, auto) == [name |-> name, type |-> type, len |-> 0, nullable |-> ~auto, auto |-> auto]
NewIndex(column, unique) == [columns |-> <<column>>, includes |-> <<>>, unique |-> unique]
HasKey(t, column) == t.pk = {column} \/ \E i \in t.indexes : i.unique /\ i.columns = <<column>>

Retypes == {"setColumnDecimal", "setColumnBoolean", "widenPkToBigint"}
\* Neither SQL Server nor MySQL alters a column of a foreign key, SQL Server
\* none of a key or an index either; nobody alters a view.
Alterable(engine, t, column) ==
    /\ ~t.view
    /\ MysqlFamily(engine) \/ engine = "sqlserver" => column \notin t.fks
    /\ engine = "sqlserver" =>
        column \notin t.pk \cup UNION {ToSet(i.columns) \cup ToSet(i.includes) : i \in t.indexes}

\* What the engine makes of a statement run as it is: a column that exists
\* cannot be added, nor a second auto-increment column but in Postgres; a
\* reference needs a table of just that name with a key `id', and MySQL
\* indexes no text without a length.
Accepted(engine, live, fix) ==
    LET t == live[fix.table]
        Only(name) == engine # "postgres" => Autos(t) \subseteq {name}
    IN CASE fix.kind = "addIdPk" -> "id" \notin Names(t) /\ Only("id")
         [] fix.kind = "addTimestamps" -> Names(t) \cap {"created_at", "updated_at"} = {}
         [] fix.kind = "addForeignKey" -> fix.target \in DOMAIN live /\ HasKey(live[fix.target], "id")
         [] fix.kind \in {"createIndex", "createUniqueIndex"} ->
               \A c \in t.columns : c.name = fix.column /\ MysqlFamily(engine) => c.type # "text"
         [] fix.kind \in Retypes ->
               Alterable(engine, t, fix.column) /\ (fix.kind = "widenPkToBigint" => Only(fix.column))
         [] OTHER -> TRUE

\* What is left of a column: MySQL's MODIFY says all of it anew, NOT NULL and
\* AUTO_INCREMENT with the rest, and SQL Server's ALTER COLUMN lets it be NULL.
NullLeft(engine, t, c, type) ==
    IF MysqlFamily(engine) THEN type = "exact" /\ c.name \notin t.pk ELSE engine = "sqlserver" \/ c.nullable
AutoLeft(engine, c, type) == IF MysqlFamily(engine) THEN type = "big" ELSE c.auto
Altered(engine, t, c, type) ==
    [c EXCEPT !.type = type, !.len = 0,
              !.nullable = NullLeft(engine, t, c, type), !.auto = AutoLeft(engine, c, type)]

\* Mutant: the type of the column is not changed.
RetypedNot(engine, t, column, type) == t

Retyped(engine, t, column, type) ==
    [t EXCEPT !.columns = {IF c.name = column THEN Altered(engine, t, c, type) ELSE c : c \in @}]

\* The table after an accepted statement.  MySQL indexes a column with a
\* foreign key, and ignores the key for a table that is not InnoDB.
Changed(engine, t, fix) ==
    CASE fix.kind = "addIdPk" ->
            [t EXCEPT !.columns = @ \cup {NewColumn("id", "big", TRUE)}, !.pk = {"id"}, !.key = {"id"},
                      !.indexes = @ \cup {NewIndex("id", TRUE)}]
      [] fix.kind = "addForeignKey" ->
            [t EXCEPT !.fks = IF MysqlFamily(engine) /\ t.storage # "InnoDB" THEN @ ELSE @ \cup {fix.column},
                      !.indexes = IF MysqlFamily(engine) THEN @ \cup {NewIndex(fix.column, FALSE)} ELSE @]
      [] fix.kind = "createIndex" -> [t EXCEPT !.indexes = @ \cup {NewIndex(fix.column, FALSE)}]
      [] fix.kind = "createUniqueIndex" ->
            [t EXCEPT !.indexes = @ \cup {NewIndex(fix.column, TRUE)},
                      !.key = IF @ = {} /\ fix.column \notin Nullable(t) THEN {fix.column} ELSE @]
      [] fix.kind = "addTimestamps" ->
            [t EXCEPT !.columns = @ \cup {NewColumn(n, "time", FALSE) : n \in {"created_at", "updated_at"}}]
      [] fix.kind = "setColumnDecimal" -> Retyped(engine, t, fix.column, "exact")
      [] fix.kind = "setColumnBoolean" -> Retyped(engine, t, fix.column, "flag")
      [] fix.kind = "widenPkToBigint" -> Retyped(engine, t, fix.column, "big")
      [] fix.kind = "useInnoDB" -> [t EXCEPT !.storage = "InnoDB"]
      [] fix.kind = "useUtf8mb4" -> [t EXCEPT !.utf8mb4 = TRUE]

\* What MySQL may call the primary key of an altered table: still what it
\* did, unless an index has become NOT NULL that may come before it.
KeysAfter(t, u) ==
    IF t.key \in MysqlKeys(u) /\ MysqlKeys(u) \subseteq MysqlKeys(t) THEN {t.key} ELSE MysqlKeys(u)
Outcomes(engine, t, fix) ==
    LET u == Changed(engine, t, fix)
    IN IF fix.kind \in Retypes THEN {[u EXCEPT !.key = key] : key \in KeysAfter(t, u)} ELSE {u}

\* The databases an accepted statement may leave.
RunFix(engine, live, fix) == {[live EXCEPT ![fix.table] = u] : u \in Outcomes(engine, live[fix.table], fix)}
=============================================================================
