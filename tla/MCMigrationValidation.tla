------------------------- MODULE MCMigrationValidation -------------------------
EXTENDS MigrationValidation

TYPE(name) == [name |-> name, base |-> Base(name), len |-> 0, prec |-> 0, scale |-> 0, unsigned |-> FALSE, enum |-> {}]
UNSIGNED(type) == [type EXCEPT !.unsigned = TRUE]
CHARS(name, len) == [TYPE(name) EXCEPT !.len = len]
DECIMAL(name, prec, scale) == [TYPE(name) EXCEPT !.prec = prec, !.scale = scale]
ENUM(name, labels) == [TYPE(name) EXCEPT !.enum = labels]

\* Types of each engine.
TypesOf == [
    mysql |-> {TYPE("tinyint"), UNSIGNED(TYPE("tinyint")), TYPE("int"), UNSIGNED(TYPE("int")), TYPE("bigint"),
               CHARS("varchar", 1), CHARS("varchar", 3), TYPE("tinytext"), TYPE("text"), TYPE("float"),
               DECIMAL("decimal", 3, 0), DECIMAL("decimal", 4, 2), DECIMAL("decimal", 5, 2),
               ENUM("enum", {"x"}), ENUM("enum", {"x", "y"})},
    postgres |-> {TYPE("integer"), TYPE("bigint"), CHARS("character varying", 1), CHARS("character varying", 3),
                  CHARS("character", 3), TYPE("text"), TYPE("numeric"), DECIMAL("numeric", 4, 2), DECIMAL("numeric", 5, 2),
                  TYPE("double precision"), ENUM("mood", {"x"}), ENUM("mood", {"x", "y"})},
    sqlserver |-> {UNSIGNED(TYPE("tinyint")), TYPE("smallint"), CHARS("varchar", 1), TYPE("varchar"),
                   CHARS("nvarchar", 3), TYPE("text"), DECIMAL("decimal", 4, 2), DECIMAL("decimal", 5, 2), TYPE("float")},
    oracle |-> {DECIMAL("number", 4, 2), CHARS("varchar2", 1), CHARS("varchar2", 3), CHARS("char", 1), TYPE("float"),
                TYPE("clob")}]

Col(name, type) == [name |-> name, lower |-> IF name = "V" THEN "v" ELSE name, type |-> type, nullable |-> FALSE,
                    default |-> "", charset |-> "", collation |-> "", auto |-> FALSE, generated |-> FALSE, large |-> type.base = "text"]
Tab(cols, rows) == [cols |-> cols, rows |-> rows, view |-> FALSE, pk |-> {"id"}, triggers |-> FALSE,
                    partitioned |-> FALSE, thousands |-> 0, mib |-> 0]
DB(tables) == [up |-> TRUE, exists |-> TRUE, grantsReadable |-> TRUE, tables |-> tables,
               grants |-> {[on |-> s, privileges |-> Privileges] : s \in {"database", "table"}}]
Request(engine, mode, tables, fks, src, tgt) ==
    [engine |-> engine, mode |-> mode, allowViews |-> FALSE, tables |-> tables, fks |-> fks, reserved |-> {},
     refs |-> [t \in Range(tables) |-> {}], src |-> src, tgt |-> tgt]

\* An integer, a decimal number, a text and a word.
Integer(rank, neg) == [rank |-> rank, neg |-> neg, len |-> 1, size |-> 1, digits |-> 1, scale |-> 0, word |-> "", charsets |-> {}]
Decimal(digits, scale, neg) == [Integer(0, neg) EXCEPT !.digits = digits, !.scale = scale, !.len = digits + scale]
Text(len, size, charsets) == [Integer(9, FALSE) EXCEPT !.len = len, !.size = size, !.charsets = charsets]
Word(w) == [Integer(9, FALSE) EXCEPT !.word = w]
ValuesFor(type) ==
    CASE type.base \in Range(IntOrder) -> {Integer(r, n) : r \in {1, 2, 7, 8}, n \in BOOLEAN}
      [] type.base \in DecimalFamily \cup {"number"} -> {Decimal(d, c, FALSE) : d \in {2, 3, 4}, c \in {0, 2}} \cup {Decimal(1, 0, TRUE)}
      [] type.enum # {} -> {Word("x"), Word("y")}
      [] OTHER -> {Text(1, 1, {}), Text(3, 1, {}), Text(3, 2, {}), Text(4, 2, {}), Text(1, 1, {"utf8mb4"})}
One == Integer(1, FALSE)
Id == Col("id", TYPE("bigint"))
IdOf == [mysql |-> Id, postgres |-> Id, sqlserver |-> Id, oracle |-> Col("id", DECIMAL("number", 10, 0))]

Charset(e, type, charset) ==
    IF e = "mysql" /\ type.base \in CharFamily \cup Range(TextOrder) \cup {"enum"} THEN charset ELSE ""

\* One table whose column v changes its type, its nullability or its charset, is missing, or has a name
\* of another case.
From(c) == [Col("v", c.s) EXCEPT !.nullable = c.sn, !.charset = Charset(c.e, c.s, "utf8mb4")]
To(c) == [Col(c.name, c.t) EXCEPT !.nullable = c.tn, !.charset = Charset(c.e, c.t, c.charset)]
Change(e, s, t, sn, tn, name, charset, v) ==
    [e |-> e, s |-> s, t |-> t, sn |-> sn, tn |-> tn, name |-> name, charset |-> charset, v |-> v]
Changes(e, s, t) ==
    {Change(e, s, t, FALSE, FALSE, name, "utf8mb4", v) : name \in {"v", "V"}, v \in ValuesFor(s)}
    \cup {Change(e, s, t, TRUE, tn, name, "utf8mb4", NULL) : tn \in BOOLEAN, name \in {"v", "w"}}
    \cup {Change("mysql", s, t, FALSE, FALSE, "v", "latin1", v) : v \in IF e = "mysql" THEN ValuesFor(s) ELSE {}}
Valued(e) ==
    {Request(e, "append", <<"a">>, {}, DB("a" :> Tab(<<IdOf[e], From(c)>>, <<[id |-> One, v |-> c.v]>>)),
             DB("a" :> Tab(<<IdOf[e], To(c)>>, <<>>))) :
        c \in {d \in UNION {Changes(e, s, t) : s \in TypesOf[e], t \in TypesOf[e]} : Takes(e, From(d), d.v)}}

\* Three tables with any references between them.
abc == <<"a", "b", "c">>
Plain(e) == Tab(<<IdOf[e]>>, <<[id |-> One]>>)
AllPlain(e, D) == DB([t \in D |-> Plain(e)])
Referring == {Request("mysql", "overwrite", abc, fks, AllPlain("mysql", Range(abc)), AllPlain("mysql", {"a"})) :
                 fks \in SUBSET (Range(abc) \X Range(abc))}
\* Two pairs that refer to each other, with any references between the pairs.
Pairs == {Request("mysql", "append", <<"a", "c", "b", "d">>, {<<"a", "b">>, <<"b", "a">>, <<"c", "d">>, <<"d", "c">>} \cup fks,
                  AllPlain("mysql", {"a", "b", "c", "d"}), AllPlain("mysql", {})) :
             fks \in SUBSET ({"a", "b"} \X {"c", "d"}) \cup SUBSET ({"c", "d"} \X {"a", "b"})}

\* One thing at a time that is not as it should be.
Normal(e, m) == Request(e, m, <<"a", "b">>, {<<"b", "a">>}, AllPlain(e, {"a", "b"}), AllPlain(e, {"a"}))
Tables(f, side) == f[side].tables
Trouble(f) ==
    {f, [f EXCEPT !.src.up = FALSE], [f EXCEPT !.tgt.up = FALSE], [f EXCEPT !.tgt.up = FALSE, !.src.tables = <<>>],
     [f EXCEPT !.tgt.exists = FALSE], [f EXCEPT !.tgt.tables = <<>>],
     [f EXCEPT !.src.tables = "a" :> Plain(f.engine)], [f EXCEPT !.src.tables["a"].view = TRUE],
     [f EXCEPT !.src.tables["a"].view = TRUE, !.allowViews = TRUE],
     [f EXCEPT !.src.tables["a"].thousands = 3], [f EXCEPT !.src.tables["a"].thousands = 6000],
     [f EXCEPT !.src.tables["a"].pk = {}], [f EXCEPT !.src.tables["a"].triggers = TRUE],
     [f EXCEPT !.src.tables["a"].partitioned = TRUE], [f EXCEPT !.src.tables["a"].cols[1].auto = TRUE],
     [f EXCEPT !.src.tables["a"].cols[1].generated = TRUE],
     [f EXCEPT !.tgt.grantsReadable = FALSE], [f EXCEPT !.reserved = {"a"}],
     [f EXCEPT !.refs["a"] = {"ROUTINE_DEPENDENCY", "EVENT_DEPENDENCY", "VIEW_DEPENDENCY"}]}
    \cup {[f EXCEPT !.tgt.grants = {[on |-> s, privileges |-> p]}] :
             s \in {"database", "table", "elsewhere"},
             p \in {{"select", "insert"}, {"insert", "create view"}, {"select", "insert", "delete", "update"}}}

MCScenarios == UNION {Valued(e) : e \in Engines} \cup Referring \cup Pairs
               \cup UNION {Trouble(Normal(e, m)) : e \in Engines, m \in {"append", "overwrite"}}
=============================================================================
