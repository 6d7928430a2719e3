---------------------------- MODULE MCDataImport ----------------------------
(* A small instance of DataImport.  Tables of up to two rows are written in *)
(* every format; a few files are followed through the wizard.               *)
EXTENDS DataImport

Name(n) == <<n>>
Grid(headers, rows) == [headers |-> headers, rows |-> rows]
\* The table a grid of cells stands for.
Meant(name, g) ==
    <<[name |-> name, parsed |-> [headers |-> g.headers,
        rows |-> [r \in DOMAIN g.rows |->
            [h \in ToSet(g.headers) |->
                LET c == g.rows[r][CHOOSE i \in DOMAIN g.headers : g.headers[i] = h]
                IN IF c = <<>> THEN Null ELSE c]]]]>>

Cells == {<<>>, <<"a">>, <<"a", ",", "b">>, <<"quote">>, <<"lf", ";">>}
RowsOf(width, cells) == {row \in [1..width -> cells] : \E i \in 1..width : row[i] # <<>>}
Grids(cells, headers) ==
    {Grid(headers, rows) : rows \in [1..1 -> RowsOf(Len(headers), cells)]
                               \cup [1..2 -> RowsOf(Len(headers), cells)]}
H1 == <<Name("id")>>
H2 == <<<<"h", ",">>, Name("k")>>

(* How each format writes a grid.                                          *)
Join(parts, separator) ==
    FoldLeft(LAMBDA text, part : text \o separator \o part, parts[1], Tail(parts))
Quoted(cell) ==
    IF ToSet(cell) \cap {"quote", "lf", "cr", ",", ";", "tab", "|"} = {} THEN cell
    ELSE <<"quote">> \o FlattenSeq([i \in DOMAIN cell |->
            IF cell[i] = "quote" THEN <<"quote", "quote">> ELSE <<cell[i]>>]) \o <<"quote">>
CsvLine(cells, d) == Join([i \in DOMAIN cells |-> Quoted(cells[i])], <<d>>)
Csv(g, d, end) ==
    Join([k \in 1..(Len(g.rows) + 1) |-> CsvLine(IF k = 1 THEN g.headers ELSE g.rows[k - 1], d)], end) 

MdCell(cell) == <<" ">> \o [i \in DOMAIN cell |-> IF cell[i] = "|" THEN "esc" ELSE cell[i]] \o <<" ">>
MdLine(cells) == <<"|">> \o FlattenSeq([i \in DOMAIN cells |-> MdCell(cells[i]) \o <<"|">>])
Markdown(g) ==
    Join(<<<<"text">>, MdLine(g.headers), MdLine([i \in DOMAIN g.headers |-> <<"-", "-", ":">>])>>
         \o [r \in DOMAIN g.rows |-> MdLine(g.rows[r])] \o <<<<>>, <<"a", "|">>>>, <<"lf">>)

Scalar(cell) == IF cell = <<>> THEN [kind |-> "null"] ELSE [kind |-> "scalar", text |-> cell]
Object(g, r) == [kind |-> "object", items |-> [i \in DOMAIN g.headers |-> <<g.headers[i], Scalar(g.rows[r][i])>>]]
Objects(g) == [r \in DOMAIN g.rows |-> Object(g, r)]
Array(g) == [kind |-> "array", items |-> Objects(g)]
Jsons(g) ==
    {[value |-> Array(g), lines |-> <<>>],
     [value |-> [kind |-> "object", items |-> <<<<Name("n"), Scalar(Name("2"))>>, <<Name("rows"), Array(g)>>>>], lines |-> <<>>],
     [value |-> [kind |-> "bad"], lines |-> Objects(g)]}

Element(parent, tag, attributes, text) ==
    [parent |-> parent, tag |-> tag, attributes |-> attributes, text |-> text]
\* A field is an attribute or a child; the rows are beside a title.
XmlRow(g, r) ==
    LET width == Len(g.headers) IN
    <<Element(3, Name("row"), << <<g.headers[1], g.rows[r][1]>> >>, <<>>)>>
    \o [i \in 1..(width - 1) |-> Element(4 + (r - 1) * width, g.headers[i + 1], <<>>, g.rows[r][i + 1])]
Xml(g) == <<Element(0, Name("doc"), <<>>, <<>>), Element(1, Name("title"), <<>>, Name("t")),
            Element(1, Name("rows"), <<>>, <<>>)>>
          \o FlattenSeq([r \in DOMAIN g.rows |-> XmlRow(g, r)])

\* A tiling of three rows of two columns by cells that span; a tile is the
\* corner and the size of its cell.
Tiles == {t \in [r : 1..3, c : 1..2, h : 1..3, w : 1..2] : t.r + t.h <= 4 /\ t.c + t.w <= 3}
Covers(t) == (t.r..(t.r + t.h - 1)) \X (t.c..(t.c + t.w - 1))
RECURSIVE Tilings(_)
Tilings(left) ==
    IF left = {} THEN {{}}
    ELSE LET first == CHOOSE p \in left : \A q \in left : p[1] < q[1] \/ (p[1] = q[1] /\ p[2] <= q[2])
         IN UNION {{{t} \cup rest : rest \in Tilings(left \ Covers(t))} :
                   t \in {u \in Tiles : <<u.r, u.c>> = first /\ Covers(u) \subseteq left}}
TileName(t) == <<"t" \o ToString(t.r) \o ToString(t.c)>>
TileText(tiling, r, c) == TileName(CHOOSE t \in tiling : <<r, c>> \in Covers(t))
HtmlRow(tiling, r) ==
    LET cells == SetToSortSeq({t \in tiling : t.r = r}, LAMBDA a, b : a.c < b.c)
    IN [k \in DOMAIN cells |-> [text |-> TileName(cells[k]), colspan |-> cells[k].w, rowspan |-> cells[k].h]]
HeadRow == <<[text |-> Name("h1"), colspan |-> 1, rowspan |-> 1], [text |-> Name("h2"), colspan |-> 1, rowspan |-> 1]>>
Html(tiling) == <<<<HeadRow>>, <<HeadRow>> \o [r \in 1..3 |-> HtmlRow(tiling, r)]>>
TileGrid(tiling) == Grid(<<Name("h1"), Name("h2")>>, [r \in 1..3 |-> [c \in 1..2 |-> TileText(tiling, r, c)]])

Workbook(g) == <<[name |-> "empty", grid |-> <<<<Null, Null>>>>],
                 [name |-> "data", grid |-> <<<<Null, Null>>, g.headers>> \o g.rows]>>

SqlCells == {<<>>, <<"a">>, <<"'">>, <<"\\">>, <<")", ";", ",", "(">>, <<"--">>}
SqlLiteral(cell, doubled) ==
    IF cell = <<>> THEN <<"null">>
    ELSE <<"'">> \o FlattenSeq([i \in DOMAIN cell |->
            IF cell[i] = "'" /\ doubled THEN <<"'", "'">>
            ELSE IF cell[i] \in {"'", "\\"} THEN <<"\\", cell[i]>> ELSE <<cell[i]>>]) \o <<"'">>
SqlTuple(cells, doubled) ==
    <<"(">> \o Join([i \in DOMAIN cells |-> SqlLiteral(cells[i], doubled)], <<",", " ">>) \o <<")">>
Dump(g, doubled) ==
    [text |-> <<"create", ";", "--", "'", "lf", "insert">>
              \o Join([r \in DOMAIN g.rows |-> SqlTuple(g.rows[r], doubled)], <<",">>) \o <<";">>,
     heads |-> "create" :> [verb |-> "create", table |-> "t", columns |-> g.headers]
               @@ "insert" :> [verb |-> "insert", table |-> "t", columns |-> <<>>]]

File(name, format, content, written) ==
    [name |-> name, format |-> format, content |-> content, written |-> written]
Written(format, grids, Texts(_), sheet) ==
    UNION {{File("f", format, text, Meant(sheet, g)) : text \in Texts(g)} : g \in grids}
PlainCells == {<<>>, <<"a">>, <<"|", "b">>}
MCOnlyRead ==
    Written("CSV", Grids(Cells, H1) \cup Grids(Cells, H2),
            LAMBDA g : {Csv(g, d, end) : d \in {",", ";"}, end \in {<<"lf">>, <<"cr", "lf">>, <<"cr">>}}
                       \cup {Csv(g, ",", <<"lf">>) \o <<"lf">>}, NONE)
    \cup Written("Pasted", Grids(Cells \cup PlainCells, H1), LAMBDA g : {Csv(g, "tab", <<"lf">>)}, NONE)
    \cup Written("Markdown", Grids(PlainCells, H1) \cup Grids(PlainCells, H2), LAMBDA g : {Markdown(g)}, NONE)
    \cup Written("JSON", Grids(PlainCells, H1) \cup Grids(PlainCells, H2), Jsons, NONE)
    \cup Written("XML", Grids(PlainCells, H2), LAMBDA g : IF Len(g.rows) = 2 THEN {Xml(g)} ELSE {}, NONE)
    \cup {File("f", "HTML", Html(t), Meant(NONE, TileGrid(t))) : t \in Tilings((1..3) \X (1..2))}
    \cup Written("Excel", Grids(PlainCells, H2), LAMBDA g : {Workbook(g)}, "data")
    \cup Written("SQL", Grids(SqlCells, H2), LAMBDA g : {Dump(g, d) : d \in BOOLEAN}, "t")

\* A document of one record with two fields.
MCSingleRecord ==
    {File("f", "XML", <<Element(0, Name("person"), <<>>, <<>>), Element(1, Name("id"), <<>>, Name("1")),
                        Element(1, Name("name"), <<>>, Name("a"))>>, NONE)}

-----------------------------------------------------------------------------
(* Files that are followed: a workbook of two sheets, and the same with a    *)
(* header corrected.                                                         *)
Book(second) == File("a.xlsx", "Excel",
    <<[name |-> "s1", grid |-> <<<<Name("Id"), second>>, <<Name("1"), Name("a")>>, <<Name("2"), Name("b")>>>>],
      [name |-> "s2", grid |-> <<<<Name("Name")>>, <<Name("a")>>>>]>>, NONE)
MCFiles == {Book(Name("Note")), Book(Name("Name"))}
MCPasted == {<<"Id", "tab", "Name", "lf", "1", "tab", "a">>}
MCSheets == {<<"Id", "lf", "2">>, <<>>}

Column(name, required, auto) == [name |-> Name(name), required |-> required, auto |-> auto]
People == {Column("id", TRUE, FALSE), Column("name", FALSE, FALSE)}
Logs == {Column("key", FALSE, TRUE), Column("note", TRUE, FALSE)}
MCSchema0 == "c1" :> (Name("people") :> People @@ Name("logs") :> Logs) @@ "c2" :> (Name("people") :> Logs)
MCConnections == {"c1", "c2"}

HeaderSet == {Name("Id"), Name("Name"), Name("Note")}
MCLower == [h \in HeaderSet \cup {Name("id")} |-> IF h = Name("Id") THEN Name("id") ELSE h]
Condition(column, operator, value) == [column |-> column, operator |-> operator, value |-> value]
Answer(conditions) == [any |-> FALSE, conditions |-> conditions]
MCReplies == {<<NoReply, Answer({Condition(Name("id"), "gt", Name("1"))}), NoReply>>, <<NoReply, NoReply, NoReply>>}

MCWordToken == [t \in {"Id", "Name", "Note", "id", "name", "1", "2"} |->
    CASE t = "Id" -> "id" [] t = "Name" -> "name" [] t = "Note" -> "note" [] OTHER -> t]
MCShape(c) == [is |-> IF c \in {Name("1"), Name("2")} THEN {"int", "decimal"} ELSE {}, big |-> c = Name("2"), long |-> FALSE]
MCNumber(c) == CASE c = Name("1") -> 1 [] c = Name("2") -> 2 [] OTHER -> Null
MCNorm(c) == IF c = Null THEN 0 ELSE Len(c)
MCIncludes(a, b) == a = b
MCTypedNames == {Name("new")}

\* The tables that are only read are not followed, nor is what comes after the
\* last import has ended.
Followed == upload # NONE => upload.file.written = NONE
Ended == Len(imports) = MaxImports /\ \A i \in DOMAIN imports : imports[i].status # "running"
MCNext == Followed /\ ~Ended /\ WizardNext
MCSpec == WizardInit /\ [][MCNext]_wizardVars
=============================================================================
