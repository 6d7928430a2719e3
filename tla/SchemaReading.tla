---------------------------- MODULE SchemaReading ----------------------------
(***************************************************************************)
(* discoverSchema of apps/api/src/connections/schema-discovery.service.ts, *)
(* which reads the tables, columns and keys of a customer's database, and  *)
(* selectRelevantTables of ai/prompts/schema-relevance.ts, which chooses   *)
(* from what was read the tables a question is answered with.              *)
(*                                                                         *)
(* Each catalog query is a step: the customer may change the schema        *)
(* between any two, as nothing holds a snapshot.  A database is its tables *)
(* and its constraints; what each engine's catalog shows of them is        *)
(* external, how the queries join and filter it is not.  The words of a    *)
(* question are what they score for each table.                            *)
(***************************************************************************)
EXTENDS Naturals, FiniteSets, Functions

CONSTANTS
    Readings,        \* what is read: [engine, live, after] (see ReadingOK)
    NoReference,     \* a column that refers to nothing
    RowOrder,        \* where the metadata of a table stands among the rows
    WordScores,      \* what the words of a question may score for a table
    MaxTables,       \* maxTables
    AlwaysAllUnder,  \* alwaysAllUnder
    MoreTables       \* what the hard cap allows beyond maxTables

MysqlLike == {"mysql", "mariadb"}
PostgresLike == {"postgres", "redshift"}

\* A database is [columns, nullable, constraints]: the columns of each table,
\* those that may be NULL, and the constraints [name, kind, table, columns,
\* target, refs], where refs are columns of a key of target, in its order.
\* A table has one primary key at most.  Names of constraints are unique in SQL Server and Oracle; in Postgres
\* those of foreign keys are so in one table only, in MySQL no query reads them.
DatabaseOK(engine, db) ==
    /\ IsFiniteSet(DOMAIN db.columns) /\ DOMAIN db.columns \subseteq DOMAIN RowOrder
    /\ \A k \in db.constraints :
        /\ k.kind \in {"primary", "unique", "foreign"}
        /\ k.table \in DOMAIN db.columns /\ Range(k.columns) \subseteq db.columns[k.table]
        /\ k.kind = "foreign" =>
              /\ DOMAIN k.refs = DOMAIN k.columns
              /\ \A n \in DOMAIN k.refs : <<k.target, k.refs[n]>> # NoReference
              /\ \E p \in db.constraints : p.kind # "foreign" /\ p.table = k.target /\ p.columns = k.refs
        /\ \A j \in db.constraints \ {k} :
              /\ j.kind = "primary" /\ k.kind = "primary" => j.table # k.table
              /\ j.name = k.name =>
                    \/ engine \in MysqlLike
                    \/ engine \in PostgresLike /\ "foreign" \in {j.kind, k.kind} /\ j.table # k.table
ReadingOK(r) ==
    /\ r.engine \in MysqlLike \cup PostgresLike \cup {"sqlserver", "oracle", "snowflake"}
    /\ DatabaseOK(r.engine, r.live) /\ DatabaseOK(r.engine, r.after)

ASSUME SchemaReadingAssumption ==
    /\ \A r \in Readings : ReadingOK(r)
    /\ WordScores \subseteq Nat
    /\ IsInjective(RowOrder) /\ Range(RowOrder) \subseteq Nat
    /\ {MaxTables, AlwaysAllUnder, MoreTables} \subseteq Nat

VARIABLES
    reading,     \* the engine and the database
    live,        \* the database now
    met,         \* history: what it was since the reading began
    at,          \* the next query
    tableRows,   \* tableRows of discoverX
    columnRows,  \* columnRows
    keyRows,     \* pkRows, or the columns with COLUMN_KEY = 'PRI'
    schema,      \* what discoverSchema returned: the keys of each column
    best,        \* the tables chosen for what the words of a question score
    sent         \* the tables sent to the model
rvars == <<reading, live, met, at, tableRows, columnRows, keyRows, schema, best, sent>>

-----------------------------------------------------------------------------
(* What the catalogs show                                                  *)

OfKind(db, kind) == {k \in db.constraints : k.kind = kind}

\* information_schema.key_column_usage and constraint_column_usage: the
\* columns a constraint is about, and for a foreign key those it refers to.
\* table_constraints tells the kind of a constraint.  Postgres shows the second
\* of tables whose owner asks: that one is meant here.
KeyColumnUsage(db) ==
    UNION {{[name |-> k.name, table |-> k.table, column |-> c] : c \in Range(k.columns)} : k \in db.constraints}
ConstraintColumnUsage(db) ==
    UNION {IF k.kind = "foreign"
           THEN {[name |-> k.name, table |-> k.target, column |-> c] : c \in Range(k.refs)}
           ELSE {[name |-> k.name, table |-> k.table, column |-> c] : c \in Range(k.columns)} : k \in db.constraints}

\* COLUMN_KEY: without a primary key, MySQL calls the columns of a unique key
\* over NOT NULL columns primary.
ColumnKeyPri(db) ==
    LET keyed(t) == {k \in OfKind(db, "primary") : k.table = t}
        unique(t) == {k \in OfKind(db, "unique") : k.table = t /\ Range(k.columns) \cap db.nullable[t] = {}}
        first(t) == IF keyed(t) # {} THEN keyed(t) ELSE unique(t)
    IN UNION {IF first(t) = {} THEN {} ELSE {<<t, c>> : c \in Range((CHOOSE k \in first(t) : TRUE).columns)} :
              t \in DOMAIN db.columns}

-----------------------------------------------------------------------------
(* What the queries make of it                                             *)

\* The columns of primary keys, joined by the name of the constraint.
PrimaryKeyRows(db) ==
    {<<u.table, u.column>> : u \in {v \in KeyColumnUsage(db) : v.name \in {k.name : k \in OfKind(db, "primary")}}}

\* fkRows of Postgres and Redshift: the two usages of a name are joined, each
\* column with each.
JoinedByName(db) ==
    {<<p[1].table, p[1].column, p[2].table, p[2].column>> :
        p \in {q \in KeyColumnUsage(db) \X ConstraintColumnUsage(db) :
                  q[1].name = q[2].name /\ q[1].name \in {k.name : k \in OfKind(db, "foreign")}}}

\* fkRows of MySQL (REFERENCED_COLUMN_NAME) and SQL Server
\* (foreign_key_columns): each column with the one it refers to.
ByColumn(db) ==
    UNION {{<<k.table, k.columns[n], k.target, k.refs[n]>> : n \in DOMAIN k.columns} : k \in OfKind(db, "foreign")}

\* Mutant: the positions are not compared.
ByPositionOrNot(db) ==
    LET key(k) == CHOOSE p \in db.constraints : p.kind # "foreign" /\ p.table = k.target /\ p.columns = k.refs
    IN UNION {{<<k.table, k.columns[n], key(k).table, key(k).columns[m]>> :
                  n \in DOMAIN k.columns, m \in DOMAIN key(k).columns} : k \in OfKind(db, "foreign")}

\* fkRows of Oracle: through the constraint referred to, by position.
ByPosition(db) ==
    LET key(k) == CHOOSE p \in db.constraints : p.kind # "foreign" /\ p.table = k.target /\ p.columns = k.refs
    IN UNION {{<<k.table, k.columns[n], key(k).table, key(k).columns[n]>> : n \in DOMAIN k.columns} :
              k \in OfKind(db, "foreign")}

ForeignKeyRows(engine, db) ==
    CASE engine \in PostgresLike -> JoinedByName(db)
      [] engine = "oracle" -> ByPosition(db)
      [] OTHER -> ByColumn(db)

-----------------------------------------------------------------------------
(* discoverSchema                                                          *)

Empty == [t \in {} |-> {}]

ReadingInit ==
    /\ reading \in Readings
    /\ live = reading.live
    /\ met = {live}
    /\ at = "tables"
    /\ tableRows = {} /\ columnRows = {} /\ keyRows = {}
    /\ schema = Empty
    /\ best = {} /\ sent = {}

\* Without tables nothing more is read.
ReadTables ==
    /\ at = "tables"
    /\ tableRows' = DOMAIN live.columns
    /\ at' = IF tableRows' = {} THEN "read" ELSE "columns"
    /\ UNCHANGED <<reading, live, met, columnRows, keyRows, schema, best, sent>>

\* assemble: the tables of the first query with the columns there are for
\* them; of several references of a column the last row is kept, and the rows
\* come in any order.
Assemble(columns, primary, references) ==
    LET referring == {<<r[1], r[2]>> : r \in references}
    IN \E row \in [referring -> references] :
        /\ \A c \in referring : <<row[c][1], row[c][2]>> = c
        /\ schema' = [t \in tableRows |->
               [c \in {x[2] : x \in {y \in columns : y[1] = t}} |->
                   [primary |-> <<t, c>> \in primary,
                    reference |-> IF <<t, c>> \in referring THEN <<row[<<t, c>>][3], row[<<t, c>>][4]>>
                                  ELSE NoReference]]]
        /\ at' = "read"

\* MySQL lists the primary key with the columns; of Snowflake no keys are read.
ReadColumns ==
    /\ at = "columns"
    /\ columnRows' = UNION {{<<t, c>> : c \in live.columns[t]} : t \in DOMAIN live.columns}
    /\ keyRows' = IF reading.engine \in MysqlLike THEN ColumnKeyPri(live) ELSE {}
    /\ IF reading.engine = "snowflake" THEN Assemble(columnRows', {}, {})
       ELSE /\ at' = IF reading.engine \in MysqlLike THEN "references" ELSE "keys"
            /\ UNCHANGED schema
    /\ UNCHANGED <<reading, live, met, tableRows, best, sent>>

ReadPrimaryKeys ==
    /\ at = "keys"
    /\ keyRows' = PrimaryKeyRows(live)
    /\ at' = "references"
    /\ UNCHANGED <<reading, live, met, tableRows, columnRows, schema, best, sent>>

ReadForeignKeys ==
    /\ at = "references"
    /\ Assemble(columnRows, keyRows, ForeignKeyRows(reading.engine, live))
    /\ UNCHANGED <<reading, live, met, tableRows, columnRows, keyRows, best, sent>>

\* The customer changes the schema between two queries.
AlterDatabase ==
    /\ at \in {"columns", "keys", "references"}
    /\ live # reading.after
    /\ live' = reading.after
    /\ met' = met \cup {live'}
    /\ UNCHANGED <<reading, at, tableRows, columnRows, keyRows, schema, best, sent>>

-----------------------------------------------------------------------------
(* selectRelevantTables                                                    *)

\* The n tables of S with the highest scores, of equal ones the first: the
\* sorts are stable.
Before(score, t, u) == score[t] > score[u] \/ (score[t] = score[u] /\ RowOrder[t] < RowOrder[u])
Top(S, score, n) == {t \in S : Cardinality({u \in S : Before(score, u, t)}) < n}

\* The tables that were read and that those of S refer to.
Referred(S) ==
    {t \in DOMAIN schema : \E s \in S : \E c \in DOMAIN schema[s] :
        schema[s][c].reference # NoReference /\ schema[s][c].reference[1] = t}

\* A small schema, and one in which no word is found, goes whole.
SendAll ==
    /\ at = "read" /\ schema # Empty
    /\ sent' = DOMAIN schema
    /\ at' = "asked"
    /\ UNCHANGED <<reading, live, met, tableRows, columnRows, keyRows, schema, best>>

\* The tables the words are about, and those they refer to, up to a cap that
\* keeps the higher scores.
SendRelevant ==
    /\ at = "read"
    /\ Cardinality(DOMAIN schema) > AlwaysAllUnder
    /\ \E score \in [DOMAIN schema -> WordScores] :
        LET matched == {t \in DOMAIN schema : score[t] > 0}
        IN /\ matched # {}
           /\ best' = Top(matched, score, MaxTables)
           /\ sent' = Top(best' \cup Referred(best'), score, MaxTables + MoreTables)
    /\ at' = "asked"
    /\ UNCHANGED <<reading, live, met, tableRows, columnRows, keyRows, schema>>

\* "No schema found": nothing is asked of an empty schema.
ReadingDone ==
    /\ at = "asked" \/ (at = "read" /\ schema = Empty)
    /\ UNCHANGED rvars

ReadingNext ==
    \/ ReadTables \/ ReadColumns \/ ReadPrimaryKeys \/ ReadForeignKeys \/ AlterDatabase
    \/ SendAll \/ SendRelevant \/ ReadingDone

ReadingSpec == ReadingInit /\ [][ReadingNext]_rvars

-----------------------------------------------------------------------------
(* Properties                                                              *)

\* Postgres joins by name: columns of a foreign key with several of them, or
\* whose name another constraint has.
Mixed(t, c) ==
    reading.engine \in PostgresLike /\ \E d \in met :
        \E k \in d.constraints, f \in OfKind(d, "foreign") :
            /\ k.name = f.name /\ k.table = t /\ c \in Range(k.columns)
            /\ Range(f.columns) # {c} \/ \E j \in d.constraints \ {f} : j.name = f.name

InPrimaryKey(d, t, c) == \E k \in OfKind(d, "primary") : k.table = t /\ c \in Range(k.columns)
Keyless(d, t) == ~\E k \in OfKind(d, "primary") : k.table = t
ReferencesOf(d, t, c) ==
    UNION {{<<k.target, k.refs[n]>> : n \in {m \in DOMAIN k.columns : k.columns[m] = c}} :
           k \in {f \in OfKind(d, "foreign") : f.table = t}}
KeysAreRead == reading.engine # "snowflake"

\* What is said of a column's keys was declared at some time while they were
\* read, and what was declared all that time is said.
KeysTold ==
    \A t \in DOMAIN schema : \A c \in DOMAIN schema[t] : ~Mixed(t, c) =>
        LET told == schema[t][c] IN
        /\ told.primary => \E d \in met : InPrimaryKey(d, t, c) \/ (Keyless(d, t) /\ reading.engine \in MysqlLike)
        /\ KeysAreRead /\ (\A d \in met : InPrimaryKey(d, t, c)) => told.primary
        /\ told.reference # NoReference => \E d \in met : told.reference \in ReferencesOf(d, t, c)
        /\ KeysAreRead /\ (\A d \in met : ReferencesOf(d, t, c) # {}) => told.reference # NoReference

\* The tables chosen by their words are sent, with the table each of their
\* columns refers to unless the cap is reached.
ParentsSent ==
    /\ best \subseteq sent
    /\ \A t \in best : \A c \in DOMAIN schema[t] : \A p \in DOMAIN schema :
          KeysAreRead /\ ~Mixed(t, c) /\ (\A d \in met : {r[1] : r \in ReferencesOf(d, t, c)} = {p}) =>
              p \in sent \/ Cardinality(sent) = MaxTables + MoreTables

\* discoverX, assemble and selectRelevantTables together: the tables a question
\* is answered with carry the keys the database declares and come with the
\* tables they refer to, although no two catalog queries see the same schema.
\* Left out are keys that Postgres mixes up by their names.
PromptTellsSchema == at = "asked" => KeysTold /\ ParentsSent

\* "expands the selection along foreign keys so the chosen tables remain
\* joinable" (schema-relevance.ts:7): two chosen tables that are related by a
\* third come with it.
ChosenJoinable ==
    at = "asked" /\ met = {live} /\ KeysAreRead => \A t \in best : \A u \in best \ {t} :
        LET between == {m \in DOMAIN schema : {t, u} \subseteq {r[1] : r \in UNION {ReferencesOf(live, m, c) : c \in live.columns[m]}}}
        IN between # {} => between \cap sent # {}
=============================================================================
