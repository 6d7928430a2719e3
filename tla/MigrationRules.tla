---------------------------- MODULE MigrationRules ----------------------------
(***************************************************************************)
(* The pure rules of apps/api/src/migrations/validation/rules: type        *)
(* changes, column comparison, dependencies, volume and readiness.         *)
(*                                                                         *)
(* A parsed type is a record: the name its engine has for it, the base     *)
(* that name begins with, and length, precision and scale, of which an     *)
(* absent one is 0, which is what the rules make of it.  Two types are     *)
(* written alike if they are equal.  Messages are left out.                *)
(***************************************************************************)
EXTENDS Integers, FiniteSets, TableOrder

Issue(phase, code, sev, table) == [phase |-> phase, code |-> code, sev |-> sev, table |-> table]

\* An issue if the condition holds.
When(condition, issue) == IF condition THEN <<issue>> ELSE <<>>

Has(issues, sev) == \E i \in DOMAIN issues : issues[i].sev = sev

-----------------------------------------------------------------------------
(* type-compatibility                                                      *)

\* parseType: the letters a name begins with.
Base(name) ==
    CASE name = "character varying" -> "character" [] name = "double precision" -> "double"
      [] name = "varchar2" -> "varchar" [] OTHER -> name

IntOrder == <<"tinyint", "smallint", "mediumint", "int", "integer", "bigint">>
TextOrder == <<"tinytext", "text", "mediumtext", "longtext">>
BlobOrder == <<"tinyblob", "blob", "mediumblob", "longblob">>
CharFamily == {"varchar", "char"}
DecimalFamily == {"decimal", "numeric", "float", "double"}

Rank(t, order) == Position(t.base, order)
In(s, t, family) == s.base \in family /\ t.base \in family
Verdict(sev, code) == [sev |-> sev, code |-> code]

\* A type of a family ordered by capacity.
OrderedChange(s, t, order, name) ==
    IF Rank(t, order) < Rank(s, order) THEN Verdict("ERROR", name \o "_NARROWING")
                                       ELSE Verdict("WARNING", name \o "_WIDENING")

IntChange(s, t) ==
    IF s.base # t.base THEN OrderedChange(s, t, IntOrder, "INT")
    ELSE IF s.unsigned /\ ~t.unsigned THEN Verdict("ERROR", "UNSIGNED_TO_SIGNED")
    ELSE Verdict("WARNING", "INT_SIGN_CHANGE")

CharChange(s, t) ==
    IF t.len < s.len THEN Verdict("ERROR", "STRING_NARROWING")
    ELSE IF t.len > s.len THEN Verdict("WARNING", "STRING_WIDENING")
    ELSE Verdict("INFO", "TYPE_SAME")

\* Mutant: all digits are compared, and not those before the point.
DecimalChangeByPrecision(s, t) ==
    IF t.prec < s.prec \/ t.scale < s.scale
    THEN Verdict("ERROR", "DECIMAL_NARROWING") ELSE Verdict("WARNING", "DECIMAL_WIDENING")

\* The digits before the point, and those after it.
DecimalChange(s, t) ==
    IF t.prec - t.scale < s.prec - s.scale \/ t.scale < s.scale
    THEN Verdict("ERROR", "DECIMAL_NARROWING") ELSE Verdict("WARNING", "DECIMAL_WIDENING")

ClassifyTypeChange(s, t) ==
    IF s = t THEN Verdict("INFO", "TYPE_SAME")
    ELSE CASE In(s, t, CharFamily) -> CharChange(s, t)
           [] s.base \in Range(TextOrder) /\ t.base \in CharFamily -> Verdict("ERROR", "TEXT_TO_VARCHAR")
           [] s.base \in CharFamily /\ t.base \in Range(TextOrder) -> Verdict("WARNING", "VARCHAR_TO_TEXT")
           [] In(s, t, Range(TextOrder)) -> OrderedChange(s, t, TextOrder, "TEXT")
           [] In(s, t, Range(IntOrder)) -> IntChange(s, t)
           [] In(s, t, DecimalFamily) -> DecimalChange(s, t)
           [] In(s, t, {"enum"}) -> IF s.enum \subseteq t.enum THEN Verdict("INFO", "ENUM_OK")
                                                               ELSE Verdict("ERROR", "ENUM_VALUE_MISSING")
           [] In(s, t, Range(BlobOrder)) -> OrderedChange(s, t, BlobOrder, "BLOB")
           [] s.base \in Range(IntOrder) \cup DecimalFamily /\ t.base \in CharFamily \cup Range(TextOrder)
                -> Verdict("WARNING", "NUMERIC_TO_STRING")
           [] OTHER -> Verdict("ERROR", "TYPE_FAMILY_CHANGE")

\* The limits of the integer types by their rank: 127, 255, 32767, 65535, ...
Width(base) == CASE base = "tinyint" -> 0 [] base = "smallint" -> 1 [] base = "mediumint" -> 2
                 [] base \in {"int", "integer"} -> 3 [] base = "bigint" -> 4
IntMax(t) == 2 * Width(t.base) + (IF t.unsigned THEN 2 ELSE 1)

-----------------------------------------------------------------------------
(* schema-comparison: columns are sequences of records; the first whose     *)
(* name is a given one in lower case is found                              *)

Named(cols, lower) == {i \in DOMAIN cols : cols[i].lower = lower}
Column(cols, lower) == cols[CHOOSE i \in Named(cols, lower) : \A j \in Named(cols, lower) : i <= j]

\* Charset and collation are compared when both sides have one ("" is none).
Differ(s, t) == s # "" /\ t # "" /\ s # t

CompareColumn(table, s, t) ==
    LET tc == ClassifyTypeChange(s.type, t.type) IN
    When(tc.sev # "INFO", Issue("schema", tc.code, tc.sev, table))
    \o When(s.nullable /\ ~t.nullable, Issue("schema", "NULLABILITY_MISMATCH", "ERROR", table))
    \o When(Differ(s.charset, t.charset), Issue("schema", "CHARSET_MISMATCH", "WARNING", table))
    \o When(Differ(s.collation, t.collation), Issue("schema", "COLLATION_MISMATCH", "WARNING", table))
    \o When(s.auto # t.auto, Issue("schema", "AUTO_INCREMENT_MISMATCH", "INFO", table))
    \o When(s.default # t.default, Issue("schema", "DEFAULT_MISMATCH", "INFO", table))

TargetOnly(table, t) ==
    Issue("schema", "TARGET_ONLY_COLUMN",
          IF ~t.nullable /\ t.default = "" /\ ~t.auto THEN "ERROR" ELSE "INFO", table)

CompareTableColumns(table, src, tgt) ==
    FlattenSeq([i \in DOMAIN src |->
        IF Named(tgt, src[i].lower) = {} THEN <<Issue("schema", "TARGET_COLUMN_MISSING", "ERROR", table)>>
        ELSE CompareColumn(table, src[i], Column(tgt, src[i].lower))])
    \o FlattenSeq([i \in DOMAIN tgt |-> When(Named(src, tgt[i].lower) = {}, TargetOnly(table, tgt[i]))])

-----------------------------------------------------------------------------
(* dependency                                                              *)

\* Mutant: a table is done before those it refers to are.
PassEager(tables, fks, order) ==
    order \o Filter(tables, {t \in Range(tables) \ Range(order) : Cardinality(Deps(t, tables, fks)) < 2})

\* One pass of Kahn's loop: a table may follow one of the same pass.
Pass(tables, fks, order) ==
    LET out[n \in 0..Len(tables)] ==
            IF n = 0 THEN order
            ELSE LET sofar == out[n - 1] t == tables[n]
                 IN IF t \notin Range(sofar) /\ Deps(t, tables, fks) \subseteq Range(sofar)
                    THEN Append(sofar, t) ELSE sofar
    IN out[Len(tables)]

\* Passes until none finds a table: at most one for each.
Sorted(tables, fks) ==
    LET out[n \in 0..Len(tables)] == IF n = 0 THEN <<>> ELSE Pass(tables, fks, out[n - 1])
    IN out[Len(tables)]

\* findCycles: Tarjan's algorithm, with the calls of strongConnect as a function
\* of how deep they may nest.  Indices start at 1; 0 is the index of what has none.
Searches(V) == [index : [V -> Nat], low : [V -> Nat], count : Nat, stack : Seq(V), cycles : SUBSET SUBSET V]

Least(a, b) == IF a < b THEN a ELSE b
Lowered(st, v, n) == [st EXCEPT !.low = [st.low EXCEPT ![v] = Least(@, n)]]

Entered(v, st) ==
    [st EXCEPT !.index = [st.index EXCEPT ![v] = st.count], !.low = [st.low EXCEPT ![v] = st.count],
               !.count = @ + 1, !.stack = Append(@, v)]
\* One table w that v refers to, in the loop of strongConnect(v).
Visited(v, w, st, connect) ==
    IF st.index[w] = 0 THEN LET after == connect[<<w, st>>] IN Lowered(after, v, after.low[w])
    ELSE IF w \in Range(st.stack) THEN Lowered(st, v, st.index[w]) ELSE st
AllVisited(v, ws, st, connect) ==
    LET after[k \in 0..Len(ws)] == IF k = 0 THEN st ELSE Visited(v, ws[k], after[k - 1], connect)
    IN after[Len(ws)]
\* From v on the stack is popped; a component of several tables is a cycle.
Left(v, st) ==
    LET below == {n \in DOMAIN st.stack : \A m \in 1..n : st.stack[m] # v}
        component == {st.stack[n] : n \in DOMAIN st.stack \ below}
    IN IF st.low[v] # st.index[v] THEN st
       ELSE [st EXCEPT !.stack = [n \in below |-> st.stack[n]],
                       !.cycles = IF Cardinality(component) > 1 THEN @ \cup {component} ELSE @]

StrongConnect(V, deps) ==
    LET connect[n \in 0..Cardinality(V)] ==
            [call \in V \X Searches(V) |->
                IF n = 0 THEN call[2]
                ELSE Left(call[1], AllVisited(call[1], deps[call[1]], Entered(call[1], call[2]), connect[n - 1]))]
    IN connect[Cardinality(V)]

FindCycles(nodes, fks) ==
    LET V == Range(nodes)
        connect == StrongConnect(V, [v \in V |-> Filter(nodes, Deps(v, nodes, fks))])
        none == [index |-> [v \in V |-> 0], low |-> [v \in V |-> 0], count |-> 1, stack |-> <<>>, cycles |-> {}]
        found[k \in 0..Len(nodes)] ==
            IF k = 0 THEN none
            ELSE LET st == found[k - 1] IN IF st.index[nodes[k]] # 0 THEN st ELSE connect[<<nodes[k], st>>]
    IN found[Len(nodes)].cycles

\* Topological order, the tables on or behind a cycle after it in input order.
AnalyzeDependencies(tables, fks) ==
    LET order == Sorted(tables, fks)
        remaining == Filter(tables, Range(tables) \ Range(order))
    IN [order |-> order \o remaining,
        parents |-> [t \in Range(tables) |-> Deps(t, tables, fks)],
        circular |-> FindCycles(remaining, fks),
        selfRef |-> {t \in Range(tables) : <<t, t>> \in fks}]

-----------------------------------------------------------------------------
(* volume: rows in thousands, size in MiB                                  *)

ClassifyVolume(rows, size) ==
    IF rows >= 10000 \/ size >= 5120 THEN "VERY_LARGE"
    ELSE IF rows >= 1000 \/ size >= 1024 THEN "LARGE"
    ELSE IF rows >= 100 \/ size >= 100 THEN "MEDIUM" ELSE "SMALL"

RecommendStrategy == [SMALL |-> "SINGLE_TRANSACTION", MEDIUM |-> "BATCH", LARGE |-> "CHUNKED",
                      VERY_LARGE |-> "PARALLEL"]

-----------------------------------------------------------------------------
(* readiness                                                               *)

Category(phase) ==
    CASE phase \in {"source", "target", "connection"} -> "connection"
      [] phase = "schema" -> "schema"
      [] phase \in {"data", "nullability", "duplicate"} -> "data"
      [] phase = "dependency" -> "dependency"
      [] OTHER -> "constraint"

Weights == [connection |-> 25, schema |-> 25, data |-> 25, dependency |-> 15, constraint |-> 10]
Penalty == [BLOCKER |-> 100, ERROR |-> 35, WARNING |-> 8, INFO |-> 0]

Reduced(part, penalty) == IF part > penalty THEN part - penalty ELSE 0

SubScores(issues) ==
    FoldLeft(LAMBDA sub, i : [sub EXCEPT ![Category(i.phase)] = Reduced(@, Penalty[i.sev])],
             [c \in DOMAIN Weights |-> 100], issues)

\* In hundredths until Math.round; a blocker caps it.
Score(sum, issues) == ((IF Has(issues, "BLOCKER") /\ sum > 3000 THEN 3000 ELSE sum) + 50) \div 100

ComputeReadiness(issues) ==
    LET sub == SubScores(issues)
        sum == 25 * sub.connection + 25 * sub.schema + 25 * sub.data + 15 * sub.dependency + 10 * sub.constraint
    IN [score |-> Score(sum, issues),
        status |-> IF Has(issues, "BLOCKER") \/ Has(issues, "ERROR") THEN "NOT_READY"
                   ELSE IF Has(issues, "WARNING") THEN "READY_WITH_WARNINGS" ELSE "READY"]
=============================================================================
