----------------------------- MODULE FileParsing -----------------------------
(***************************************************************************)
(* apps/web/src/features/chat/lib/data-import.ts: the table that is read   *)
(* out of a file, the types and names guessed for its columns, and the     *)
(* filter on its rows.                                                     *)
(*                                                                         *)
(* A text is a sequence of tokens: the characters the parsers look at      *)
(* ("quote", "lf", "\\", ",") and pieces of plain text.  A cell is a text,  *)
(* or Null.                                                                *)
(***************************************************************************)
EXTENDS Integers, FiniteSets, FiniteSetsExt, SequencesExt, ArrayOps, TLC

CONSTANTS
    Null,         \* an empty cell
    NoTable,      \* the parser throws, or finds no row
    WordToken,    \* the identifier token of each token that may be in a name
    DigitTokens,  \* those that begin with a digit
    Shape(_),     \* the patterns a cell matches, and whether it is big or long
    Number(_),    \* the number a cell spells, or Null
    Norm(_),      \* a cell trimmed and in lower case, as its rank among texts
    Includes(_, _) \* the one text, so normalized, contains the other

Solid(text) == {i \in DOMAIN text : text[i] # " "}
Trim(text) == IF Solid(text) = {} THEN <<>> ELSE SubSeq(text, Min(Solid(text)), Max(Solid(text)))
Blank(text) == Trim(text) = <<>>
BlankCell(cell) == IF cell = Null THEN TRUE ELSE Blank(cell)

\* Some positions of a text in order.
InOrder(text, S) == Only([i \in 1..Len(text) |-> i], S)

\* The pieces of a text between the positions it is cut at.
Pieces(text, cuts) ==
    LET at == <<0>> \o InOrder(text, cuts) \o <<Len(text) + 1>>
    IN [k \in 1..(Len(at) - 1) |-> SubSeq(text, at[k] + 1, at[k + 1] - 1)]

\* The first of equal values, and the first of the longest lists.
Distinct(s) == Only(s, {i \in DOMAIN s : \A j \in 1..(i - 1) : s[j] # s[i]})
Longest(s) == s[Min({i \in DOMAIN s : \A j \in DOMAIN s : Len(s[j]) <= Len(s[i])})]

HeaderName(text, i) == IF Blank(text) THEN <<"column_" \o ToString(i)>> ELSE Trim(text)
Headers(cells) == [i \in DOMAIN cells |-> HeaderName(cells[i], i)]

\* The cells of a line as an object by header: of equal headers the last one
\* counts.
Record(headers, cells) ==
    [h \in ToSet(headers) |->
        LET i == Max({j \in DOMAIN headers : headers[j] = h})
        IN IF i \in DOMAIN cells THEN cells[i] ELSE Null]
EmptyIsNull(record) == [h \in DOMAIN record |-> IF record[h] = <<>> THEN Null ELSE record[h]]

Table(headers, rows) ==
    IF headers = <<>> \/ rows = <<>> THEN NoTable ELSE [headers |-> headers, rows |-> rows]

\* Objects given as lists of pairs, over all their keys.
TableOf(objects) ==
    LET headers == Distinct(FlattenSeq([i \in DOMAIN objects |->
                       [k \in DOMAIN objects[i] |-> objects[i][k][1]]]))
        Row(object) == Record([k \in DOMAIN object |-> object[k][1]],
                              [k \in DOMAIN object |-> object[k][2]])
    IN [headers |-> headers,
        rows |-> [i \in DOMAIN objects |->
            LET row == Row(objects[i])
            IN [h \in ToSet(headers) |-> IF h \in DOMAIN row THEN row[h] ELSE Null]]]

\* fromRecords: rows without a value are dropped.
FromRecords(objects) ==
    LET all == TableOf(objects)
        rows == [i \in DOMAIN all.rows |-> EmptyIsNull(all.rows[i])]
    IN Table(all.headers, Only(rows, {i \in DOMAIN rows : \E h \in DOMAIN rows[i] : rows[i][h] # Null}))

\* A grid whose first line names the columns.
FromGrid(headers, lines) ==
    LET names == Distinct(headers)
    IN FromRecords([k \in DOMAIN lines |->
           LET row == Record(headers, lines[k])
           IN [i \in DOMAIN names |-> <<names[i], row[names[i]]>>]])

-----------------------------------------------------------------------------
(* Delimited text                                                          *)

Delimiters == <<",", "tab", ";", "|">>

\* Quotes before a position: a doubled one closes and opens again.
Unquoted(text, i) == Cardinality({j \in 1..(i - 1) : text[j] = "quote"}) % 2 = 0

Lines(text) ==
    LET lines == Pieces(text, {i \in DOMAIN text : text[i] = "lf"})
    IN [k \in DOMAIN lines |->
        IF k < Len(lines) /\ lines[k] # <<>> /\ Last(lines[k]) = "cr" THEN Front(lines[k]) ELSE lines[k]]

\* detectDelimiter: the most frequent one on the first line that is not blank.
DetectDelimiter(text) ==
    LET all == Lines(text)
        lines == Only(all, {i \in DOMAIN all : ~Blank(all[i])})
        Count(d) == IF lines = <<>> THEN 0
                    ELSE Cardinality({i \in DOMAIN lines[1] : lines[1][i] = d /\ Unquoted(lines[1], i)})
        best == Max({Count(Delimiters[k]) : k \in 1..4})
    IN Delimiters[Min({k \in 1..4 : Count(Delimiters[k]) = best})]

\* What is left of a field without its quotes: a doubled one within quotes
\* stands for itself.
FieldText(text) ==
    LET kept == {i \in DOMAIN text :
            IF text[i] = "quote" THEN i > 1 /\ text[i - 1] = "quote" /\ ~Unquoted(text, i - 1)
            ELSE text[i] = "cr" => ~Unquoted(text, i)}
    IN Only(text, kept)

\* The lines of the text as lists of fields; nothing after the last line end is
\* no line.
DelimitedRecords(text, delimiter) ==
    LET ends == {i \in DOMAIN text : Unquoted(text, i) /\
            (text[i] = "lf" \/ (text[i] = "cr" /\ ~(i < Len(text) /\ text[i + 1] = "lf")))}
        lines == Pieces(text, ends)
        Fields(line) == LET fields == Pieces(line, {i \in DOMAIN line : line[i] = delimiter /\ Unquoted(line, i)})
                        IN [k \in DOMAIN fields |-> FieldText(fields[k])]
        records == [k \in DOMAIN lines |-> Fields(lines[k])]
    IN IF Last(records) = << <<>> >> THEN Front(records) ELSE records

ParseDelimited(text, delimiter) ==
    LET records == DelimitedRecords(text, delimiter)
        headers == Headers(records[1])
        data == Only(records, {i \in DOMAIN records \ {1} : ~(Len(records[i]) = 1 /\ Blank(records[i][1]))})
    IN IF records = <<>> THEN NoTable
       ELSE Table(headers, [k \in DOMAIN data |-> EmptyIsNull(Record(headers, data[k]))])

ParseCsv(text) == ParseDelimited(text, DetectDelimiter(text))

-----------------------------------------------------------------------------
(* JSON: a value is a scalar with its text, a null, an array of items or an *)
(* object, a list of pairs; a document that does not parse as one value may *)
(* do so line by line.                                                      *)

IsObject(value) == value.kind = "object"

\* serializeJsonValue: what is nested is stored as text.
Serialize(value) == CASE value.kind = "null" -> Null
                      [] value.kind = "scalar" -> value.text
                      [] OTHER -> <<"json">>

\* The arrays of objects in a wrapper.
Wrapped(value) == {k \in DOMAIN value.items : LET v == value.items[k][2] IN
                      v.kind = "array" /\ \A i \in DOMAIN v.items : IsObject(v.items[i])}
\* extractRecords: an array, the only array of objects in a wrapper, or the
\* object itself; anything else is an error.
ExtractRecords(value) ==
    IF value.kind = "array" THEN value.items
    ELSE IF Cardinality(Wrapped(value)) = 1 THEN value.items[CHOOSE k \in Wrapped(value) : TRUE][2].items
    ELSE <<value>>

ParseJson(document) ==
    LET whole == document.value.kind \in {"array", "object"}
        records == IF whole THEN ExtractRecords(document.value) ELSE document.lines
        Fields(value) == [k \in DOMAIN value.items |-> <<value.items[k][1], Serialize(value.items[k][2])>>]
        all == TableOf([i \in DOMAIN records |-> Fields(records[i])])
    IN IF \A i \in DOMAIN records : IsObject(records[i])
       THEN Table(all.headers, all.rows) ELSE NoTable

-----------------------------------------------------------------------------
(* XML: the elements of a document in its order, each with its tag, its     *)
(* attributes, all of its text and the element it is in, 0 for the root     *)

Children(document, i) == {j \in DOMAIN document : document[j].parent = i}
\* The siblings of an element with its tag.
Siblings(document, i) ==
    {j \in Children(document, document[i].parent) : document[j].tag = document[i].tag}

\* The largest group of equal siblings.  Elements are visited in the order of
\* the document, the groups below one in that of their first elements, and
\* the first of the largest counts.
RowElements(document) ==
    LET groups == {Siblings(document, i) : i \in DOMAIN document \ {1}}
        largest == {g \in groups : \A h \in groups : Cardinality(h) <= Cardinality(g)}
        Before(g, h) == LET a == document[Min(g)].parent b == document[Min(h)].parent
                        IN a < b \/ (a = b /\ Min(g) <= Min(h))
    IN IF groups = {} THEN {1} ELSE CHOOSE g \in largest : \A h \in largest : Before(g, h)

ParseXml(document) ==
    LET rows == InOrder(document, RowElements(document))
        Field(i) == <<document[i].tag, Trim(document[i].text)>>
        Fields(i) ==
            LET children == InOrder(document, Children(document, i))
            IN document[i].attributes \o
                   (IF children = <<>> THEN <<Field(i)>> ELSE [k \in DOMAIN children |-> Field(children[k])])
    IN FromRecords([k \in DOMAIN rows |-> Fields(rows[k])])

-----------------------------------------------------------------------------
(* HTML: a document is a list of tables, a table a list of rows of cells   *)

\* Mutant: a cell is carried down once more than it spans.
SpillLonger(cell) == cell.rowspan

\* How many rows below its own a cell is carried into.
Spill(cell) == cell.rowspan - 1

\* tableToGrid, one step of a row: a cell carried from above comes in its
\* column, else the next cell, and then the row is done.
GridStep(line) ==
    LET col == Len(line.row) + 1
        cell == Head(line.cells)
        text == Trim(cell.text)
        span == IF cell.rowspan > 1 THEN col..(col + cell.colspan - 1) ELSE {}
    IN IF col \in DOMAIN line.carry /\ line.carry[col].rows > 0
       THEN [line EXCEPT !.carry[col].rows = @ - 1, !.row = Append(@, line.carry[col].text)]
       ELSE IF line.cells = <<>> THEN line
       ELSE [cells |-> Tail(line.cells), row |-> line.row \o [i \in 1..cell.colspan |-> text],
             carry |-> [c \in DOMAIN line.carry \cup span |->
                 IF c \in span THEN [text |-> text, rows |-> Spill(cell)] ELSE line.carry[c]]]
\* A row takes a step for each of its cells and each that was carried.
GridRow(cells, carry) ==
    LET steps == Len(cells) + Cardinality(DOMAIN carry)
        line[n \in 0..steps] == IF n = 0 THEN [cells |-> cells, row |-> <<>>, carry |-> carry]
                                ELSE GridStep(line[n - 1])
    IN line[steps]
TableToGrid(rows) ==
    LET line[n \in 0..Len(rows)] == IF n = 0 THEN [cells |-> <<>>, row |-> <<>>, carry |-> <<>>]
                                    ELSE GridRow(rows[n], line[n - 1].carry)
    IN [n \in DOMAIN rows |-> line[n].row]

\* parseHtml: the table with the most rows, the first of equals.
ParseHtml(tables) ==
    LET table == Longest(tables)
        grid == TableToGrid(table)
    IN IF tables = <<>> THEN NoTable ELSE IF table = <<>> THEN NoTable
       ELSE FromGrid(Headers(grid[1]), Tail(grid))

-----------------------------------------------------------------------------
(* Markdown: "esc" is an escaped pipe                                      *)

\* A line without the pipes around it, and where it has others.
WithoutEnds(line) ==
    LET s == Trim(line)
        open == IF s # <<>> /\ s[1] = "|" THEN Tail(s) ELSE s
    IN IF open # <<>> /\ Last(open) = "|" THEN Front(open) ELSE open
Pipes(row) == {i \in DOMAIN row : row[i] = "|"}
Unescaped(text) == [i \in DOMAIN text |-> IF text[i] = "esc" THEN "|" ELSE text[i]]
SplitMarkdownRow(line) ==
    LET row == WithoutEnds(line)
        cells == Pieces(row, Pipes(row))
    IN [k \in DOMAIN cells |-> Trim(Unescaped(cells[k]))]

IsSeparatorRow(cells) ==
    \A k \in DOMAIN cells : LET c == cells[k] IN
        Contains(c, "-") /\ \A i \in DOMAIN c : c[i] = "-" \/ (c[i] = ":" /\ i \in {1, Len(c)})

HasPipe(line) == Contains(line, "|") \/ Contains(line, "esc")
HeaderLines(lines) ==
    {i \in 1..(Len(lines) - 1) : HasPipe(lines[i]) /\ IsSeparatorRow(SplitMarkdownRow(lines[i + 1]))}
IsLikelyMarkdownTable(text) == HeaderLines(Lines(text)) # {}

\* The table ends at a blank line or one without a pipe.
MarkdownRows(lines, header) ==
    LET ends == {i \in (header + 2)..Len(lines) : Blank(lines[i]) \/ ~HasPipe(lines[i])} \cup {Len(lines) + 1}
    IN [k \in 1..(Min(ends) - header - 2) |-> SplitMarkdownRow(lines[header + 1 + k])]
MarkdownTable(lines, headers) ==
    IF headers = {} THEN NoTable
    ELSE FromGrid(Headers(SplitMarkdownRow(lines[Min(headers)])), MarkdownRows(lines, Min(headers)))

\* parseMarkdown
ParseMarkdown(text) == MarkdownTable(Lines(text), HeaderLines(Lines(text)))

\* parsePastedTable
ParsePasted(text) == IF IsLikelyMarkdownTable(text) THEN ParseMarkdown(text) ELSE ParseCsv(text)

-----------------------------------------------------------------------------
(* Workbooks and SQL dumps: several tables, each like a sheet              *)

\* aoaToParsed: the first row with a value names the columns.
AoaToParsed(grid) ==
    LET filled == {i \in DOMAIN grid : \E j \in DOMAIN grid[i] : ~BlankCell(grid[i][j])}
        Cell(c) == IF BlankCell(c) THEN <<>> ELSE c
        clean == [i \in DOMAIN grid |-> [j \in DOMAIN grid[i] |-> Cell(grid[i][j])]]
    IN IF filled = {} THEN NoTable
       ELSE FromGrid(Headers(clean[Min(filled)]), SubSeq(clean, Min(filled) + 1, Len(clean)))

WithData(sheets) == Only(sheets, {i \in DOMAIN sheets : sheets[i].parsed # NoTable})
ParseExcel(book) ==
    WithData([k \in DOMAIN book |-> [name |-> book[k].name, parsed |-> AoaToParsed(book[k].grid)]])

\* The scanner of the dump: where it is inside a string (of either quote) or a
\* comment.  A backslash takes the next token with it; a doubled quote closes
\* the string and opens it again.
Scan(text) ==
    LET Step(state, token) ==
            CASE state = "escaped" -> "string"
              [] state = "string" /\ token = "\\" -> "escaped"
              [] state = "string" /\ token = "'" -> "code"
              [] state = "code" /\ token = "'" -> "string"
              [] state = "code" /\ token = "--" -> "comment"
              [] state = "comment" /\ token = "lf" -> "code"
              [] OTHER -> state
        states[i \in 0..Len(text)] == IF i = 0 THEN "code" ELSE Step(states[i - 1], text[i])
    IN [i \in DOMAIN text |-> states[i - 1]]
CodeAt(text, token) == LET state == Scan(text) IN {i \in DOMAIN text : text[i] = token /\ state[i] = "code"}

\* The text without its comments; statements end at a semicolon.
SqlCode(text) ==
    LET comments == {i \in DOMAIN text : Scan(text)[i] = "comment"} \cup CodeAt(text, "--")
    IN Only(text, DOMAIN text \ comments)
StatementEnds(code) == CodeAt(code, ";")
SplitSqlStatements(text) ==
    LET pieces == Pieces(SqlCode(text), StatementEnds(SqlCode(text)))
        trimmed == [k \in DOMAIN pieces |-> Trim(pieces[k])]
    IN Only(trimmed, {k \in DOMAIN trimmed : trimmed[k] # <<>>})

\* decodeSqlValue: a string without its quotes and escapes, NULL, or the text.
DecodeSqlValue(raw) ==
    LET t == Trim(raw)
        state == Scan(t)
        kept == {i \in 2..(Len(t) - 1) :
            state[i] = "escaped" \/ (state[i] = "string" /\ t[i] \notin {"\\", "'"})
            \/ (state[i] = "code" /\ t[i] = "'")}
    IN IF t = <<"null">> THEN Null
       ELSE IF Len(t) >= 2 /\ t[1] = "'" /\ Last(t) = "'"
       THEN Only(t, kept) ELSE t

\* parseValueTuples: from each parenthesis to the next one that closes.
TupleAt(text, i) ==
    LET values == SubSeq(text, i + 1, Min({j \in CodeAt(text, ")") : j > i}) - 1)
        cells == Pieces(values, CodeAt(values, ","))
    IN [k \in DOMAIN cells |-> DecodeSqlValue(cells[k])]
TupleStarts(text) ==
    LET opens == CodeAt(text, "(")
        closes == CodeAt(text, ")")
        Inside(i) == \E j \in opens : j < i /\ ~\E k \in closes : j < k /\ k < i
    IN {i \in opens : ~Inside(i) /\ \E j \in closes : j > i}
ParseValueTuples(text) ==
    LET starts == InOrder(text, TupleStarts(text))
    IN [k \in DOMAIN starts |-> TupleAt(text, starts[k])]

\* The columns of an INSERT: its own, or those of the CREATE TABLE before it.
InsertColumns(head, k, width) ==
    LET created == {j \in 1..(k - 1) : head[j].verb = "create" /\ head[j].table = head[k].table}
    IN IF head[k].columns # <<>> THEN head[k].columns
       ELSE IF created # {} THEN head[Max(created)].columns
       ELSE [i \in 1..width |-> <<"col_" \o ToString(i)>>]
Named(columns, tuple) ==
    [i \in DOMAIN columns |-> <<columns[i], IF i \in DOMAIN tuple THEN tuple[i] ELSE Null>>]
InsertObjects(head, k, tuples) ==
    [t \in DOMAIN tuples |-> Named(InsertColumns(head, k, Len(tuples[t])), tuples[t])]

\* The rows of the INSERT statements of a table, in order.
InsertedRows(table, statements, head) ==
    FlattenSeq([k \in DOMAIN head |-> IF head[k].verb = "insert" /\ head[k].table = table
                                      THEN InsertObjects(head, k, ParseValueTuples(Tail(statements[k])))
                                      ELSE <<>>])
InsertedTables(statements, head) ==
    LET inserts == Only(head, {k \in DOMAIN head : head[k].verb = "insert"})
        tables == Distinct([k \in DOMAIN inserts |-> inserts[k].table])
    IN WithData([t \in DOMAIN tables |->
        [name |-> tables[t], parsed |-> FromRecords(InsertedRows(tables[t], statements, head))]])
Headed(statements, heads) ==
    InsertedTables(statements, [k \in DOMAIN statements |-> heads[statements[k][1]]])

\* parseSqlDump: a statement begins with a token that is read by `heads`: its
\* verb, table and column list, <<>> for none.
ParseSqlDump(text, heads) ==
    LET statements == SplitSqlStatements(text)
    IN Headed(Only(statements, {k \in DOMAIN statements : statements[k][1] \in DOMAIN heads}), heads)

-----------------------------------------------------------------------------
(* Types, names and filters                                                *)

NewTableTypes == {"INT", "BIGINT", "DOUBLE", "DECIMAL(18,4)", "VARCHAR(255)", "TEXT", "DATE", "DATETIME", "BOOLEAN"}

InferColumnType(values) ==
    LET sample == {Shape(v) : v \in {w \in values : ~BlankCell(w)}}
        All(pattern) == \A s \in sample : pattern \in s.is
    IN IF sample = {} THEN "VARCHAR(255)"
       ELSE IF All("bool") THEN "BOOLEAN"
       ELSE IF All("int") THEN IF \E s \in sample : s.big THEN "BIGINT" ELSE "INT"
       ELSE IF \A s \in sample : s.is \cap {"int", "decimal"} # {} THEN "DECIMAL(18,4)"
       ELSE IF All("datetime") THEN "DATETIME"
       ELSE IF All("date") THEN "DATE"
       ELSE IF \E s \in sample : s.long THEN "TEXT" ELSE "VARCHAR(255)"

\* toIdentifier: runs of other characters become one underscore, none at an
\* end; different headers may get the same name.
ToIdentifier(header) ==
    LET words == {i \in DOMAIN header : header[i] \in DOMAIN WordToken}
        gaps == {i \in DOMAIN header : i \notin words /\ i + 1 \in words /\ \E j \in words : j < i}
        at == InOrder(header, words \cup gaps)
        name == [k \in DOMAIN at |-> IF at[k] \in words THEN WordToken[header[at[k]]] ELSE "_"]
    IN IF words = {} THEN <<"column">>
       ELSE IF name[1] \in DigitTokens THEN <<"col_">> \o name ELSE name

Operators == {"eq", "ne", "contains", "not_contains", "gt", "lt", "gte", "lte", "empty", "not_empty"}

\* matchesCondition: numbers are compared as numbers when both sides are some.
MatchesCondition(cell, c) ==
    LET numbers == Number(cell) # Null /\ Number(c.value) # Null
        x == IF numbers THEN Number(cell) ELSE Norm(cell)
        y == IF numbers THEN Number(c.value) ELSE Norm(c.value)
    IN CASE c.operator = "empty" -> BlankCell(cell)
         [] c.operator = "not_empty" -> ~BlankCell(cell)
         [] c.operator = "eq" -> Norm(cell) = Norm(c.value)
         [] c.operator = "ne" -> Norm(cell) # Norm(c.value)
         [] c.operator = "contains" -> Includes(cell, c.value)
         [] c.operator = "not_contains" -> ~Includes(cell, c.value)
         [] c.operator = "gt" -> x > y
         [] c.operator = "lt" -> x < y
         [] c.operator = "gte" -> x >= y
         [] c.operator = "lte" -> x <= y

\* applyRowFilter: a condition on a column the rows do not have sees no value.
ApplyRowFilter(rows, filter) ==
    LET Cell(row, h) == IF h \in DOMAIN row THEN row[h] ELSE Null
        Matches(row) ==
            IF filter.match = "any"
            THEN \E c \in filter.conditions : MatchesCondition(Cell(row, c.column), c)
            ELSE \A c \in filter.conditions : MatchesCondition(Cell(row, c.column), c)
    IN IF filter.conditions = {} THEN rows ELSE Only(rows, {i \in DOMAIN rows : Matches(rows[i])})
=============================================================================
