--------------------------- MODULE ChatScreenProofs ---------------------------
(***************************************************************************)
(* What reaches the customer's database from a conversation, and what the  *)
(* footer of a result says, for any replies of the providers, any queries, *)
(* engines, pages, visits and edits; and what a file imported beside it is *)
(* sent and recorded as, for any files, tables, filters and late answers.  *)
(***************************************************************************)
EXTENDS ChatScreen, DataImport, FiniteSetTheorems, WellFoundedInduction, TLAPS

\* What the footer of a result r of query q has to say.
CountsRowsOf(q, r) ==
    q.skip = 0 =>
        LET total == IF q.limit = None THEN q.rows ELSE Min({q.rows, q.limit})
        IN /\ r.totalCount = total
           /\ r.rows = ((r.page - 1) * r.pageSize + 1)..Min({r.page * r.pageSize, total})
FooterRight(r) == CountsRowsOf(Facts[r.sql].query, r)

PageResult ==
    [type : {"rows"}, rows : SUBSET Int, totalCount : Nat,
     page : Nat \ {0}, pageSize : Nat, totalPages : Int]
ShownResult ==
    [type : {"rows", "repaired"}, rows : SUBSET Int, totalCount : Nat,
     page : Nat \ {0}, pageSize : Nat, totalPages : Int, sql : Sqls, asked : Sqls]
RunRequest ==
    [at : Cards, sql : Sqls, page : Nat \ {0}, stage : {"sent", "answered", "done"},
     result : ShownResult \cup {None}]
Messages ==
    [role : {"USER", "ASSISTANT"}, ask : Nat,
     type : {"question", "sql", "clarification", "chat", "cannot_answer"},
     sql : Sqls \cup {NoSql}, options : SUBSET Sqls]

Typed ==
    /\ engine \in Engines
    /\ conv \in Seq(Messages) /\ cached \in Seq(Messages)
    /\ asks \in Seq([stage : {"sent", "saved", "done", "error", "read", "lost"}, mount : Nat])
    /\ mount \in Nat
    /\ edited \in [Cards -> Sqls \cup {None}]
    /\ runs \in Seq(RunRequest)
    /\ results \in [Cards -> ShownResult \cup {None}]

\* Every result on its way or kept has a footer that counts its rows.
FootersRight ==
    /\ \A r \in DOMAIN runs : runs[r].result # None => FooterRight(runs[r].result)
    /\ \A n \in Cards : results[n] # None => FooterRight(results[n])

ScreenInv == Typed /\ FootersRight /\ RanSqlIsGuarded

-----------------------------------------------------------------------------
(* One page of a query                                                     *)

LEMMA Smaller ==
    ASSUME NEW a \in Int, NEW b \in Int
    PROVE  Min({a, b}) = IF a <= b THEN a ELSE b
<1>1. CASE a <= b
    <2>1. \A x \in {a, b} : (\A y \in {a, b} : x <= y) => x = a
        BY <1>1
    <2>2. \A y \in {a, b} : a <= y
        BY <1>1
    <2> QED
        BY <1>1, <2>1, <2>2 DEF Min
<1>2. CASE b < a
    <2>1. \A x \in {a, b} : (\A y \in {a, b} : x <= y) => x = b
        BY <1>2
    <2>2. \A y \in {a, b} : b <= y
        BY <1>2
    <2> QED
        BY <1>2, <2>1, <2>2 DEF Min
<1> QED
    BY <1>1, <1>2

LEMMA Larger ==
    ASSUME NEW a \in Int, NEW b \in Int
    PROVE  Max({a, b}) = IF a >= b THEN a ELSE b
<1>1. CASE a >= b
    <2>1. \A x \in {a, b} : (\A y \in {a, b} : x >= y) => x = a
        BY <1>1
    <2>2. \A y \in {a, b} : a >= y
        BY <1>1
    <2> QED
        BY <1>1, <2>1, <2>2 DEF Max
<1>2. CASE b > a
    <2>1. \A x \in {a, b} : (\A y \in {a, b} : x >= y) => x = b
        BY <1>2
    <2>2. \A y \in {a, b} : b >= y
        BY <1>2
    <2> QED
        BY <1>2, <2>1, <2>2 DEF Max
<1> QED
    BY <1>1, <1>2

LEMMA PageBounds ==
    ASSUME NEW page \in Nat \ {0}, NEW size \in Nat
    PROVE  (page - 1) * size \in Nat /\ page * size = (page - 1) * size + size
<1>1. page - 1 \in Nat
    OBVIOUS
<1>2. \A n \in Nat : n * size \in Nat /\ (n + 1) * size = n * size + size
    OBVIOUS
<1>3. page = (page - 1) + 1
    OBVIOUS
<1> QED
    BY <1>1, <1>2, <1>3

LEMMA WholeQueryCounts ==
    ASSUME NEW q \in Query
    PROVE  WholeQuery(q) \in PageResult /\ CountsRowsOf(q, WholeQuery(q))
<1> DEFINE last == IF q.limit = None THEN q.rows ELSE Min({q.rows, q.skip + q.limit})
           rows == (q.skip + 1)..last
<1>1. q.rows \in Nat /\ q.skip \in Nat /\ (q.limit # None => q.limit \in Nat)
    BY DEF Query
<1>2. last \in Nat
    <2>1. CASE q.limit = None
        BY <1>1, <2>1
    <2>2. CASE q.limit # None
        BY <1>1, <2>2, Smaller
    <2> QED
        BY <2>1, <2>2
<1>3. WholeQuery(q) = Result(rows, Cardinality(rows), 1, Cardinality(rows), 1)
    BY DEF WholeQuery
<1>4. q.skip = 0 => last = IF q.limit = None THEN q.rows ELSE Min({q.rows, q.limit})
    BY <1>1
<1> HIDE DEF last
<1>5. Cardinality(rows) = IF q.skip + 1 > last THEN 0 ELSE last - (q.skip + 1) + 1
    <2>1. q.skip + 1 \in Int /\ last \in Int
        BY <1>1, <1>2
    <2>2. \A a, b \in Int : Cardinality(a..b) = IF a > b THEN 0 ELSE b - a + 1
        BY FS_Interval
    <2> QED
        BY <2>1, <2>2
<1>6. Cardinality(rows) \in Nat /\ (q.skip = 0 => Cardinality(rows) = last)
    BY <1>1, <1>2, <1>5
<1>7. rows \in SUBSET Int
    BY <1>1, <1>2
<1>8. WholeQuery(q) \in PageResult
    BY <1>3, <1>6, <1>7 DEF Result, PageResult
<1>9. ASSUME q.skip = 0 PROVE CountsRowsOf(q, WholeQuery(q))
    <2> DEFINE w == WholeQuery(q)
    <2>1. rows = 1..last
        BY <1>9
    <2> HIDE DEF rows
    <2>2. w.rows = 1..last /\ w.totalCount = last /\ w.page = 1 /\ w.pageSize = last
        BY <1>3, <1>6, <1>9, <2>1 DEF Result
    <2> HIDE DEF w
    <2>3. (w.page - 1) * w.pageSize + 1 = 1 /\ w.page * w.pageSize = last
        BY <1>2, <2>2
    <2>4. Min({last, last}) = last
        BY <1>2, Smaller
    <2>5. CountsRowsOf(q, w)
        BY <1>4, <1>9, <2>2, <2>3, <2>4 DEF CountsRowsOf
    <2> QED
        BY <2>5 DEF w
<1> QED
    BY <1>8, <1>9 DEF CountsRowsOf

LEMMA CountedPageCounts ==
    ASSUME NEW style \in {"limit", "fetch", "top"}, NEW q \in Query,
           q.form = "none" => q.limit = None,
           NEW page \in Nat \ {0}, NEW size \in Nat \ {0},
           CountedPage(style, q, page, size).type = "rows"
    PROVE  /\ CountedPage(style, q, page, size) \in PageResult
           /\ CountsRowsOf(q, CountedPage(style, q, page, size))
<1> DEFINE offset == (page - 1) * size
           limit == OwnLimit(style, q)
           eff == EffLimit(limit, size, offset)
           last == Min({offset + eff, q.rows})
           total == CappedTotal(q.rows, limit)
           c == CountedPage(style, q, page, size)
<1>1. /\ q.rows \in Nat /\ q.skip \in Nat /\ (q.limit # None => q.limit \in Nat)
      /\ q.form \in {"none", "limit", "fetch", "top"}
    BY DEF Query
<1>2. offset \in Nat /\ page * size = offset + size
    BY PageBounds
<1>3. q.form \in {"none", style}
    BY DEF CountedPage, Failed
<1>4. limit = q.limit
    BY <1>1, <1>3 DEF OwnLimit
<1>5. c = Result((offset + 1)..last, total, page, size, PagesOf(total, size))
    BY <1>3 DEF CountedPage
<1> HIDE DEF offset, limit
<1>6. eff \in Nat /\ eff <= size
      /\ (limit = None => eff = size)
      /\ (limit # None => eff = IF limit <= offset THEN 0
                                ELSE IF size <= limit - offset THEN size ELSE limit - offset)
    <2>1. CASE limit = None
        BY <2>1 DEF EffLimit
    <2>2. CASE limit # None
        <3>1. limit \in Nat
            BY <1>1, <1>4, <2>2
        <3>2. limit - offset \in Int /\ Min({size, limit - offset}) \in Int
              /\ Min({size, limit - offset}) = IF size <= limit - offset THEN size ELSE limit - offset
            BY <1>2, <3>1, Smaller
        <3>3. eff = IF 0 >= Min({size, limit - offset}) THEN 0 ELSE Min({size, limit - offset})
            <4> DEFINE m == Min({size, limit - offset})
            <4>1. eff = Max({0, m})
                BY <2>2 DEF EffLimit
            <4>2. m \in Int
                BY <3>2
            <4> HIDE DEF m, eff
            <4>3. eff = IF 0 >= m THEN 0 ELSE m
                BY <4>1, <4>2, Larger
            <4> QED
                BY <4>3 DEF m
        <3> HIDE DEF eff
        <3> QED
            BY <1>2, <2>2, <3>1, <3>2, <3>3
    <2> QED
        BY <2>1, <2>2
<1> HIDE DEF eff
<1>7. total \in Nat /\ total = IF limit = None THEN q.rows ELSE Min({q.rows, limit})
    BY <1>1, <1>4, Smaller DEF CappedTotal
<1>8. last \in Int /\ last = IF offset + eff <= q.rows THEN offset + eff ELSE q.rows
    BY <1>1, <1>2, <1>6, Smaller
<1> HIDE DEF last, total
<1>9. c.rows = (offset + 1)..last /\ c.totalCount = total /\ c.page = page /\ c.pageSize = size
      /\ c.totalPages = PagesOf(total, size) /\ c.type = "rows"
    BY <1>5 DEF Result
<1>10. c \in PageResult
    <2>1. (offset + 1)..last \in SUBSET Int /\ PagesOf(total, size) \in Int
        BY <1>2, <1>7, <1>8 DEF PagesOf
    <2> QED
        BY <1>5, <1>7, <2>1 DEF Result, PageResult
<1>11. (offset + 1)..last = (offset + 1)..Min({page * size, total})
    <2>1. Min({page * size, total}) \in Int
          /\ Min({page * size, total}) = IF offset + size <= total THEN offset + size ELSE total
        BY <1>2, <1>7, Smaller
    <2>2. CASE limit = None
        BY <1>1, <1>2, <1>6, <1>7, <1>8, <2>1, <2>2
    <2>3. CASE limit # None
        <3>1. limit \in Nat /\ total = IF q.rows <= limit THEN q.rows ELSE limit
            BY <1>1, <1>4, <1>7, <2>3, Smaller
        <3>2. CASE limit <= offset
            <4>1. last < offset + 1
                BY <1>1, <1>2, <1>6, <1>8, <2>3, <3>1, <3>2
            <4>2. Min({page * size, total}) < offset + 1
                BY <1>1, <1>2, <2>1, <3>1, <3>2
            <4>3. (offset + 1)..last = {} /\ (offset + 1)..Min({page * size, total}) = {}
                BY <1>2, <1>8, <2>1, <4>1, <4>2
            <4> QED
                BY <4>3
        <3>3. CASE limit > offset
            <4>1. eff = IF size <= limit - offset THEN size ELSE limit - offset
                BY <1>2, <1>6, <2>3, <3>1, <3>3
            <4>2. last = Min({page * size, total})
                BY <1>1, <1>2, <1>8, <2>1, <3>1, <3>3, <4>1
            <4> QED
                BY <4>2
        <3> QED
            BY <1>2, <3>1, <3>2, <3>3
    <2> QED
        BY <2>2, <2>3
<1>12. CountsRowsOf(q, c)
    BY <1>4, <1>7, <1>9, <1>11 DEF CountsRowsOf, offset
<1> QED
    BY <1>10, <1>12

LEMMA PageCounts ==
    ASSUME NEW e \in Engines, NEW q \in Query, q.form = "none" => q.limit = None,
           NEW page \in Nat \ {0}, NEW size \in Nat \ {0},
           ExecutePaginated(e, q, page, size).type = "rows"
    PROVE  /\ ExecutePaginated(e, q, page, size) \in PageResult
           /\ CountsRowsOf(q, ExecutePaginated(e, q, page, size))
<1> DEFINE p == ExecutePaginated(e, q, page, size)
<1>1. p # Blocked /\ p # Failed
    BY DEF Blocked, Failed
<1>2. \E style \in {"limit", "fetch", "top"} : p = Paged(style, q, page, size)
    BY <1>1 DEF Engines, ExecutePaginated, MysqlPage, PostgresPage, RedshiftPage, SnowflakePage, OraclePage,
                SqlServerPage
<1>3. PICK style \in {"limit", "fetch", "top"} : p = Paged(style, q, page, size)
    BY <1>2
<1>4. p = CountedPage(style, q, page, size) \/ p = WholeQuery(q)
    BY <1>1, <1>3 DEF Paged
<1>5. p.type = "rows"
    OBVIOUS
<1> HIDE DEF p
<1>6. CASE p = CountedPage(style, q, page, size)
    <2>1. CountedPage(style, q, page, size).type = "rows"
        BY <1>5, <1>6
    <2>2. p \in PageResult /\ CountsRowsOf(q, p)
        BY <1>6, <2>1, CountedPageCounts
    <2> QED
        BY <2>2 DEF p
<1>7. CASE p = WholeQuery(q)
    BY <1>7, WholeQueryCounts DEF p
<1> QED
    BY <1>4, <1>6, <1>7

\* What the scan limits let through.
Scanned(e, q) ==
    /\ e = "mysql" => MysqlScanAllowed(q)
    /\ e = "postgres" => PostgresScanAllowed(q)
LEMMA PageScanned ==
    ASSUME NEW e, NEW q, NEW page, NEW size, ExecutePaginated(e, q, page, size) # Blocked
    PROVE  Scanned(e, q)
BY DEF ExecutePaginated, MysqlPage, PostgresPage, Scanned

-----------------------------------------------------------------------------
(* What the providers reply                                                *)

LEMMA FirstOfSome ==
    ASSUME NEW T, T \subseteq Nat, T # {}
    PROVE  Min(T) \in T
<1>1. \E x \in T : \A y \in T : ~(<<y, x>> \in OpToRel(<, Nat))
    BY NatLessThanWellFounded, WFMin, Zenon
<1>2. PICK x \in T : \A y \in T : ~(y < x)
    BY <1>1 DEF OpToRel
<1>3. \A y \in T : x <= y
    BY <1>2
<1> QED
    BY <1>3 DEF Min

\* One of the replies that say something.
LEMMA ReplyChosen ==
    ASSUME NEW replies \in Replies, NEW usable, usable # {},
           usable \subseteq {i \in DOMAIN replies : replies[i] # NoReply}
    PROVE  replies[Min(usable)] \in UsableReply
<1>1. replies \in Seq(UsableReply \cup {NoReply}) /\ DOMAIN replies \subseteq Nat
    BY ChatScreenAssumption
<1>2. Min(usable) \in usable
    BY <1>1, FirstOfSome
<1> QED
    BY <1>1, <1>2

AnswerTyped(answer) ==
    /\ answer.type \in {"sql", "clarification", "chat", "cannot_answer"}
    /\ answer.type = "sql" => answer.sql \in Sqls
    /\ answer.type = "clarification" => answer.options \subseteq Sqls

LEMMA AnswersTyped ==
    ASSUME NEW replies \in Replies, GenerateSQL(replies) # Nothing
    PROVE  AnswerTyped(GenerateSQL(replies))
<1> DEFINE usable == {i \in DOMAIN replies : replies[i] # NoReply /\ ReadAnswer(replies[i]) # Nothing}
           reply == replies[Min(usable)]
<1>1. usable # {} /\ GenerateSQL(replies) = ReadAnswer(reply)
    BY DEF GenerateSQL, FirstUsable
<1>2. reply \in UsableReply
    BY <1>1, ReplyChosen
<1> HIDE DEF reply
<1>3. ReadAnswer(reply) # Nothing
    BY <1>1
<1>4. AnswerTyped(ReadAnswer(reply))
    <2>1. CASE Cardinality(ValidOptions(reply)) >= 2
        <3>1. ReadAnswer(reply) =
                [type |-> "clarification", options |-> {reply.options[i] : i \in ValidOptions(reply)}]
            BY <2>1 DEF ReadAnswer
        <3>2. \A i \in ValidOptions(reply) : reply.options[i] \in Sqls
            BY <1>2 DEF UsableReply, ValidOptions
        <3> QED
            BY <3>1, <3>2 DEF AnswerTyped
    <2>2. CASE ~(Cardinality(ValidOptions(reply)) >= 2) /\ reply.says # "sql"
        BY <1>2, <2>2 DEF ReadAnswer, AnswerTyped, UsableReply
    <2>3. CASE ~(Cardinality(ValidOptions(reply)) >= 2) /\ reply.says = "sql"
        BY <1>2, <1>3, <2>3 DEF ReadAnswer, AnswerTyped, UsableReply
    <2> QED
        BY <2>1, <2>2, <2>3
<1> QED
    BY <1>1, <1>4

\* A correction is one of the known queries, and valid.
LEMMA RepairsValid ==
    ASSUME NEW replies \in Replies, NEW s, Repaired(replies, s) # NoSql
    PROVE  Repaired(replies, s) \in Sqls /\ Valid(Repaired(replies, s))
<1> DEFINE Read(reply) ==
               IF reply.says = "cannot_answer" THEN GiveUp
               ELSE IF reply.sql # NoSql /\ Valid(reply.sql)
               THEN [type |-> "sql", sql |-> reply.sql] ELSE Nothing
           usable == {i \in DOMAIN replies : replies[i] # NoReply /\ Read(replies[i]) # Nothing}
           reply == replies[Min(usable)]
<1>1. RepairSQL(replies) = IF usable = {} THEN Nothing ELSE Read(reply)
    BY DEF RepairSQL, FirstUsable
<1>2. /\ RepairSQL(replies) # Nothing /\ RepairSQL(replies) # GiveUp
      /\ Repaired(replies, s) = RepairSQL(replies).sql
    BY DEF Repaired
<1>3. usable # {}
    BY <1>1, <1>2
<1>4. reply \in UsableReply
    BY <1>3, ReplyChosen
<1>5. RepairSQL(replies) = Read(reply)
    BY <1>1, <1>3
<1> HIDE DEF reply
<1>6. Read(reply) = [type |-> "sql", sql |-> reply.sql] /\ reply.sql # NoSql /\ Valid(reply.sql)
    BY <1>2, <1>5
<1> QED
    BY <1>2, <1>4, <1>5, <1>6 DEF UsableReply

-----------------------------------------------------------------------------
(* A run                                                                   *)

LEMMA PagesOfQueries ==
    ASSUME engine \in Engines, NEW s \in Sqls, NEW page \in Nat \ {0}, Page(s, page).type = "rows"
    PROVE  Page(s, page) \in PageResult /\ CountsRowsOf(Facts[s].query, Page(s, page))
<1> DEFINE size == CappedPageSize(PageSize, PageSize)
<1>1. size \in Nat \ {0}
    <2>1. PageSize \in Int /\ MaxPageSize \in Int /\ PageSize >= 1 /\ MaxPageSize >= 1
        BY ChatScreenAssumption
    <2> QED
        BY <2>1, Smaller DEF CappedPageSize
<1>2. Page(s, page) = ExecutePaginated(engine, Facts[s].query, page, size)
    BY DEF Page
<1>3. Facts[s].query \in Query /\ (Facts[s].query.form = "none" => Facts[s].query.limit = None)
    BY ChatScreenAssumption
<1> HIDE DEF size
<1> QED
    BY <1>1, <1>2, <1>3, PageCounts

LEMMA NothingReplaced ==
    ASSUME NEW T, NEW q \in Seq(T), NEW i, i \notin DOMAIN q, NEW e
    PROVE  [q EXCEPT ![i] = e] = q
<1>1. q \in [1..Len(q) -> T]
    OBVIOUS
<1> QED
    BY <1>1

LEMMA Replaced ==
    ASSUME NEW T, NEW q \in Seq(T), NEW i \in DOMAIN q, NEW e \in T
    PROVE  /\ [q EXCEPT ![i] = e] \in Seq(T)
           /\ DOMAIN [q EXCEPT ![i] = e] = DOMAIN q
           /\ [q EXCEPT ![i] = e][i] = e
           /\ \A j \in DOMAIN q \ {i} : [q EXCEPT ![i] = e][j] = q[j]
<1> DEFINE r == [q EXCEPT ![i] = e]
<1>1. Len(q) \in Nat /\ DOMAIN q = 1..Len(q) /\ \A j \in 1..Len(q) : q[j] \in T
    OBVIOUS
<1>2. r \in [1..Len(q) -> T]
    BY <1>1
<1>3. r \in Seq(T)
    BY <1>1, <1>2
<1> QED
    BY <1>3

\* A result is kept with the SQL that gave it.
LEMMA WithItsSql ==
    ASSUME NEW p \in PageResult, NEW s \in Sqls, NEW a \in Sqls, CountsRowsOf(Facts[s].query, p)
    PROVE  Response(p, s, a) \in ShownResult /\ FooterRight(Response(p, s, a))
<1> DEFINE r == Response(p, s, a)
<1>1. r \in ShownResult
    BY DEF PageResult, ShownResult, Response
<1>2. /\ r.sql = s /\ r.rows = p.rows /\ r.totalCount = p.totalCount
      /\ r.page = p.page /\ r.pageSize = p.pageSize
    BY DEF Response
<1>3. FooterRight(r)
    BY <1>2 DEF FooterRight, CountsRowsOf
<1> QED
    BY <1>1, <1>3

LEMMA AnsweredKeeps ==
    ASSUME Typed, FootersRight, NEW r \in DOMAIN runs, NEW result, NEW s,
           result.type = "rows" =>
               s \in Sqls /\ result \in PageResult /\ CountsRowsOf(Facts[s].query, result),
           Answered(r, result, s)
    PROVE  /\ runs' \in Seq(RunRequest)
           /\ \A q \in DOMAIN runs' : runs'[q].result # None => FooterRight(runs'[q].result)
<1> DEFINE new == IF result.type = "rows" THEN Response(result, s, runs[r].sql) ELSE None
           run == [runs[r] EXCEPT !.stage = "answered", !.result = new]
<1>1. runs \in Seq(RunRequest) /\ runs[r] \in RunRequest /\ runs[r].sql \in Sqls
    <2>1. runs \in Seq(RunRequest)
        BY DEF Typed
    <2>2. runs[r] \in RunRequest
        BY <2>1
    <2> QED
        BY <2>1, <2>2 DEF RunRequest
<1>2. new \in ShownResult \cup {None} /\ (new # None => FooterRight(new))
    BY <1>1, WithItsSql
<1>3. runs' = [runs EXCEPT ![r] = run]
    BY DEF Answered
<1> HIDE DEF new
<1>4. run \in RunRequest /\ run.result = new
    BY <1>1, <1>2 DEF RunRequest
<1> HIDE DEF run
<1>5. /\ runs' \in Seq(RunRequest) /\ DOMAIN runs' = DOMAIN runs
      /\ runs'[r] = run /\ \A q \in DOMAIN runs \ {r} : runs'[q] = runs[q]
    BY <1>1, <1>3, <1>4, Replaced
<1> QED
    BY <1>2, <1>4, <1>5 DEF FootersRight

LEMMA ExecuteKeeps ==
    ASSUME ScreenInv, NEW r \in DOMAIN runs, ExecuteSQL(r)
    PROVE  ScreenInv'
<1> DEFINE s == runs[r].sql
           first == Page(s, runs[r].page)
           refused == ~Valid(s) \/ ~StructureAllowed(s)
<1>1. runs[r] \in RunRequest
    BY DEF ScreenInv, Typed
<1>2. s \in Sqls /\ runs[r].page \in Nat \ {0} /\ engine \in Engines
    BY <1>1 DEF ScreenInv, Typed, RunRequest
<1>3. /\ engine' = engine /\ UNCHANGED <<asks, mount, cached, refetch, pending, optimistic>>
      /\ UNCHANGED <<edited, results, running>>
    BY DEF ExecuteSQL, screen
<1>4. \A q \in Sqls, page \in Nat \ {0} : Page(q, page) # Blocked => Scanned(engine, Facts[q].query)
    BY PageScanned DEF Page
<1>5. \A q \in Sqls, page \in Nat \ {0} : Page(q, page).type = "rows" =>
          Page(q, page) \in PageResult /\ CountsRowsOf(Facts[q].query, Page(q, page))
    BY <1>2, PagesOfQueries
<1>6. /\ runs' \in Seq(RunRequest)
      /\ \A q \in DOMAIN runs' : runs'[q].result # None => FooterRight(runs'[q].result)
      /\ conv' \in Seq(Messages)
      /\ \A q \in ran' \ ran : Valid(q) /\ Scanned(engine, Facts[q].query)
    <2>1. CASE refused \/ first.type # "failed" \/ runs[r].page # 1
        <3> DEFINE result == IF refused THEN Blocked ELSE first
        <3>1. /\ ran' = IF refused \/ first = Blocked THEN ran ELSE ran \cup {s}
              /\ Answered(r, result, s) /\ conv' = conv
            BY <2>1 DEF ExecuteSQL
        <3>2. result.type = "rows" => result \in PageResult /\ CountsRowsOf(Facts[s].query, result)
            BY <1>2, <1>5 DEF Blocked
        <3>3. refused \/ first = Blocked \/ (Valid(s) /\ Scanned(engine, Facts[s].query))
            BY <1>2, <1>4
        <3> HIDE DEF s, first, refused, result
        <3> QED
            BY <1>2, <3>1, <3>2, <3>3, AnsweredKeeps DEF ScreenInv, Typed
    <2>2. CASE ~(refused \/ first.type # "failed" \/ runs[r].page # 1)
        <3>1. PICK replies \in Replies :
                LET fixed == Repaired(replies, s)
                    second == IF fixed = NoSql THEN Failed ELSE Page(fixed, 1)
                IN /\ ran' = ran \cup {s} \cup (IF fixed = NoSql \/ second = Blocked THEN {} ELSE {fixed})
                   /\ Answered(r, second, fixed)
                   /\ conv' = IF second.type = "rows"
                              THEN [conv EXCEPT ![runs[r].at].sql = fixed] ELSE conv
            BY <2>2 DEF ExecuteSQL
        <3> DEFINE fixed == Repaired(replies, s)
                   second == IF fixed = NoSql THEN Failed ELSE Page(fixed, 1)
        <3>2. fixed # NoSql => fixed \in Sqls /\ Valid(fixed)
            BY RepairsValid
        <3>3. Valid(s) /\ Scanned(engine, Facts[s].query)
            <4>1. first # Blocked
                BY <2>2 DEF Blocked
            <4> QED
                BY <1>2, <1>4, <2>2, <4>1
        <3>4. /\ ran' = ran \cup {s} \cup (IF fixed = NoSql \/ second = Blocked THEN {} ELSE {fixed})
              /\ Answered(r, second, fixed)
              /\ conv' = IF second.type = "rows" THEN [conv EXCEPT ![runs[r].at].sql = fixed] ELSE conv
            BY <3>1
        <3> HIDE DEF fixed, s
        <3>5. second.type = "rows" =>
                fixed \in Sqls /\ second \in PageResult /\ CountsRowsOf(Facts[fixed].query, second)
            BY <1>5, <3>2 DEF Failed
        <3>6. fixed = NoSql \/ second = Blocked \/ (Valid(fixed) /\ Scanned(engine, Facts[fixed].query))
            BY <1>4, <3>2
        <3> HIDE DEF second
        <3>7. conv' \in Seq(Messages)
            <4>1. conv \in Seq(Messages)
                BY DEF ScreenInv, Typed
            <4> DEFINE n == runs[r].at
                       message == [conv[n] EXCEPT !.sql = fixed]
            <4>2. CASE second.type = "rows" /\ n \in DOMAIN conv
                <5>1. conv' = [conv EXCEPT ![n] = message]
                    BY <3>4, <4>2
                <5>2. conv[n] \in Messages
                    BY <4>1, <4>2
                <5>3. message \in Messages
                    BY <3>5, <4>2, <5>2 DEF Messages
                <5> HIDE DEF message, n
                <5> QED
                    BY <4>1, <4>2, <5>1, <5>3, Replaced
            <4>3. CASE second.type = "rows" /\ n \notin DOMAIN conv
                <5>1. conv' = [conv EXCEPT ![n] = message]
                    BY <3>4, <4>3
                <5> HIDE DEF message, n
                <5> QED
                    BY <4>1, <4>3, <5>1, NothingReplaced
            <4>4. CASE second.type # "rows"
                BY <3>4, <4>1, <4>4
            <4> QED
                BY <4>2, <4>3, <4>4
        <3>8. \A q \in ran' \ ran : Valid(q) /\ Scanned(engine, Facts[q].query)
            BY <3>3, <3>4, <3>6
        <3> QED
            BY <3>4, <3>5, <3>7, <3>8, AnsweredKeeps DEF ScreenInv
    <2> QED
        BY <2>1, <2>2
<1>7. Typed'
    BY <1>3, <1>6 DEF ScreenInv, Typed
<1>8. FootersRight'
    BY <1>3, <1>6 DEF ScreenInv, FootersRight
<1>9. RanSqlIsGuarded'
    BY <1>3, <1>6 DEF ScreenInv, RanSqlIsGuarded, Scanned
<1> QED
    BY <1>7, <1>8, <1>9 DEF ScreenInv

-----------------------------------------------------------------------------
(* The other steps                                                         *)

\* Steps that run nothing and keep no result.
LEMMA NothingRunKeeps ==
    ASSUME ScreenInv, UNCHANGED <<engine, ran, runs, results>>,
           conv' \in Seq(Messages), cached' \in Seq(Messages), mount' \in Nat,
           asks' \in Seq([stage : {"sent", "saved", "done", "error", "read", "lost"}, mount : Nat]),
           edited' \in [Cards -> Sqls \cup {None}]
    PROVE  ScreenInv'
<1>1. Typed'
    BY DEF ScreenInv, Typed
<1>2. FootersRight' /\ RanSqlIsGuarded'
    BY DEF ScreenInv, FootersRight, RanSqlIsGuarded
<1> QED
    BY <1>1, <1>2 DEF ScreenInv

AskRecord == [stage : {"sent", "saved", "done", "error", "read", "lost"}, mount : Nat]

LEMMA StageTyped ==
    ASSUME Typed, NEW a \in DOMAIN asks,
           NEW stage \in {"sent", "saved", "done", "error", "read", "lost"}, Stage(a, stage)
    PROVE  asks' \in Seq(AskRecord)
<1> DEFINE new == [asks[a] EXCEPT !.stage = stage]
<1>1. asks \in Seq(AskRecord)
    BY DEF Typed, AskRecord
<1>2. asks[a] \in AskRecord
    BY <1>1
<1>3. new \in AskRecord
    BY <1>2 DEF AskRecord
<1>4. asks' = [asks EXCEPT ![a] = new]
    BY DEF Stage
<1> HIDE DEF new
<1> QED
    BY <1>1, <1>3, <1>4, Replaced

LEMMA AskingKeeps ==
    ASSUME ScreenInv,
           \/ Send
           \/ \E a \in DOMAIN asks : SaveQuestion(a) \/ Answer(a) \/ Interrupted(a)
                                     \/ ReadDone(a) \/ ReadError(a) \/ LoseEvent(a)
    PROVE  ScreenInv'
<1> USE DEF ScreenInv
<1>1. /\ conv \in Seq(Messages) /\ cached \in Seq(Messages) /\ mount \in Nat
      /\ asks \in Seq(AskRecord) /\ edited \in [Cards -> Sqls \cup {None}]
    BY DEF Typed, AskRecord
<1>2. UNCHANGED <<engine, ran, runs, results, cached, mount, edited>>
    BY DEF Send, SaveQuestion, Answer, Interrupted, ReadDone, ReadError, LoseEvent, screen, cards
<1>3. CASE Send
    <2>1. [stage |-> "sent", mount |-> mount] \in AskRecord
        BY <1>1 DEF AskRecord
    <2>2. asks' \in Seq(AskRecord) /\ conv' = conv
        BY <1>1, <1>3, <2>1 DEF Send
    <2> QED
        BY <1>1, <1>2, <2>2, NothingRunKeeps DEF AskRecord
<1>4. ASSUME NEW a \in DOMAIN asks,
             SaveQuestion(a) \/ Answer(a) \/ Interrupted(a) \/ ReadDone(a) \/ ReadError(a) \/ LoseEvent(a)
      PROVE  ScreenInv'
    <2>1. a \in Nat
        BY <1>1
    <2>2. \E stage \in {"sent", "saved", "done", "error", "read", "lost"} : Stage(a, stage)
        BY <1>4 DEF SaveQuestion, Answer, Interrupted, ReadDone, ReadError, LoseEvent
    <2>3. asks' \in Seq(AskRecord)
        BY <2>2, StageTyped
    <2>4. conv' \in Seq(Messages)
        <3>1. CASE SaveQuestion(a)
            <4>1. Message("USER", a, "question", NoSql, {}) \in Messages
                BY <2>1 DEF Message, Messages
            <4> QED
                BY <1>1, <3>1, <4>1 DEF SaveQuestion
        <3>2. CASE Answer(a)
            <4>1. PICK replies \in Replies :
                    LET answer == GenerateSQL(replies) IN
                    IF answer = Nothing THEN UNCHANGED conv
                    ELSE conv' = Append(conv, Message("ASSISTANT", a, answer.type,
                            IF answer.type = "sql" THEN answer.sql ELSE NoSql,
                            IF answer.type = "clarification" THEN answer.options ELSE {}))
                BY <3>2 DEF Answer
            <4> DEFINE answer == GenerateSQL(replies)
            <4>2. CASE answer = Nothing
                BY <1>1, <4>1, <4>2
            <4>3. CASE answer # Nothing
                <5> DEFINE message == Message("ASSISTANT", a, answer.type,
                                              IF answer.type = "sql" THEN answer.sql ELSE NoSql,
                                              IF answer.type = "clarification" THEN answer.options ELSE {})
                <5>1. AnswerTyped(answer)
                    BY <4>3, AnswersTyped
                <5>2. conv' = Append(conv, message)
                    BY <4>1, <4>3
                <5> HIDE DEF answer
                <5>3. message \in Messages
                    BY <2>1, <5>1 DEF AnswerTyped, Message, Messages
                <5> HIDE DEF message
                <5> QED
                    BY <1>1, <5>2, <5>3
            <4> QED
                BY <4>2, <4>3
        <3>3. CASE Interrupted(a) \/ ReadDone(a) \/ ReadError(a) \/ LoseEvent(a)
            BY <1>1, <3>3 DEF Interrupted, ReadDone, ReadError, LoseEvent
        <3> QED
            BY <1>4, <3>1, <3>2, <3>3
    <2> QED
        BY <1>1, <1>2, <2>3, <2>4, NothingRunKeeps DEF AskRecord
<1> QED
    BY <1>3, <1>4

LEMMA ChooseKeeps ==
    ASSUME ScreenInv, NEW n \in Cards, Choose(n)
    PROVE  ScreenInv'
<1>1. /\ conv \in Seq(Messages) /\ cached \in Seq(Messages) /\ mount \in Nat
      /\ asks \in Seq([stage : {"sent", "saved", "done", "error", "read", "lost"}, mount : Nat])
      /\ edited \in [Cards -> Sqls \cup {None}]
    BY DEF ScreenInv, Typed
<1>2. cached[n] \in Messages
    BY <1>1 DEF Choose
<1>3. PICK option \in cached[n].options : conv' = [conv EXCEPT ![n].sql = option, ![n].type = "sql"]
    BY DEF Choose
<1> DEFINE message == [conv[n] EXCEPT !.sql = option, !.type = "sql"]
<1>4. conv' = [conv EXCEPT ![n] = message]
    BY <1>3
<1>5. option \in Sqls
    BY <1>2 DEF Messages
<1>6. conv' \in Seq(Messages)
    <2>1. CASE n \in DOMAIN conv
        <3>1. conv[n] \in Messages
            BY <1>1, <2>1
        <3>2. message \in Messages
            BY <1>5, <3>1 DEF Messages
        <3> HIDE DEF message
        <3> QED
            BY <1>1, <1>4, <2>1, <3>2, Replaced
    <2>2. CASE n \notin DOMAIN conv
        <3> HIDE DEF message
        <3> QED
            BY <1>1, <1>4, <2>2, NothingReplaced
    <2> QED
        BY <2>1, <2>2
<1> QED
    BY <1>1, <1>6, NothingRunKeeps DEF Choose, cards

LEMMA ScreenKeeps ==
    ASSUME ScreenInv, Refetched \/ Reopen \/ \E n \in Cards : Edit(n)
    PROVE  ScreenInv'
<1>1. /\ conv \in Seq(Messages) /\ cached \in Seq(Messages) /\ mount \in Nat
      /\ asks \in Seq([stage : {"sent", "saved", "done", "error", "read", "lost"}, mount : Nat])
      /\ edited \in [Cards -> Sqls \cup {None}]
    BY DEF ScreenInv, Typed
<1>2. CASE Refetched
    BY <1>1, <1>2, NothingRunKeeps DEF Refetched, cards
<1>3. CASE Reopen
    BY <1>1, <1>3, NothingRunKeeps DEF Reopen
<1>4. CASE \E n \in Cards : Edit(n)
    <2>1. edited' \in [Cards -> Sqls \cup {None}]
        BY <1>1, <1>4, ChatScreenAssumption DEF Edit
    <2> QED
        BY <1>1, <1>4, <2>1, NothingRunKeeps DEF Edit, screen
<1> QED
    BY <1>2, <1>3, <1>4

LEMMA RunKeeps ==
    ASSUME ScreenInv, NEW n \in Cards, Run(n)
    PROVE  ScreenInv'
<1>1. /\ UNCHANGED <<engine, conv, ran, asks, mount, cached, edited, results>>
      /\ HasSql(n)
      /\ \E page \in PagesOffered(n) :
            runs' = Append(runs, [at |-> n, sql |-> ShownSql(n), page |-> page,
                                  stage |-> "sent", result |-> None])
    BY DEF Run, screen
<1>2. cached \in Seq(Messages) /\ edited[n] \in Sqls \cup {None} /\ runs \in Seq(RunRequest)
    BY DEF ScreenInv, Typed
<1>3. ShownSql(n) \in Sqls
    <2>1. cached[n] \in Messages /\ cached[n].sql # NoSql
        BY <1>1, <1>2 DEF HasSql
    <2>2. cached[n].sql \in Sqls
        BY <2>1 DEF Messages
    <2> QED
        BY <1>2, <2>2 DEF ShownSql
<1>4. PICK page \in PagesOffered(n) :
          runs' = Append(runs, [at |-> n, sql |-> ShownSql(n), page |-> page,
                                stage |-> "sent", result |-> None])
    BY <1>1
<1>5. page \in Nat \ {0}
    BY DEF PagesOffered
<1> DEFINE run == [at |-> n, sql |-> ShownSql(n), page |-> page, stage |-> "sent", result |-> None]
<1>6. run \in RunRequest /\ run.result = None
    BY <1>3, <1>5 DEF RunRequest
<1> HIDE DEF run
<1>7. /\ runs' \in Seq(RunRequest)
      /\ \A r \in DOMAIN runs' : (r \in DOMAIN runs /\ runs'[r] = runs[r]) \/ runs'[r] = run
    <2>1. runs' = Append(runs, run)
        BY <1>4 DEF run
    <2> QED
        BY <1>2, <1>6, <2>1
<1>8. Typed'
    BY <1>1, <1>7 DEF ScreenInv, Typed
<1>9. FootersRight' /\ RanSqlIsGuarded'
    BY <1>1, <1>6, <1>7 DEF ScreenInv, FootersRight, RanSqlIsGuarded
<1> QED
    BY <1>8, <1>9 DEF ScreenInv

LEMMA ReturnKeeps ==
    ASSUME ScreenInv, NEW r \in DOMAIN runs, RunReturns(r)
    PROVE  ScreenInv'
<1> DEFINE run == [runs[r] EXCEPT !.stage = "done"]
           n == runs[r].at
<1>1. /\ UNCHANGED <<engine, conv, ran, asks, mount, cached, edited>>
      /\ runs' = [runs EXCEPT ![r] = run]
      /\ IF runs[r].result = None THEN UNCHANGED results
         ELSE results' = [results EXCEPT ![n] = runs[r].result]
    BY DEF RunReturns
<1>2. runs \in Seq(RunRequest) /\ results \in [Cards -> ShownResult \cup {None}]
    BY DEF ScreenInv, Typed
<1>3. runs[r] \in RunRequest
    BY <1>2
<1>4. /\ run \in RunRequest /\ run.result = runs[r].result
      /\ n \in Cards /\ runs[r].result \in ShownResult \cup {None}
    BY <1>3 DEF RunRequest
<1> HIDE DEF run, n
<1>5. /\ runs' \in Seq(RunRequest) /\ DOMAIN runs' = DOMAIN runs
      /\ runs'[r] = run /\ \A q \in DOMAIN runs \ {r} : runs'[q] = runs[q]
    BY <1>1, <1>2, <1>4, Replaced
<1>6. results' \in [Cards -> ShownResult \cup {None}]
    BY <1>1, <1>2, <1>4
<1>7. Typed'
    BY <1>1, <1>5, <1>6 DEF ScreenInv, Typed
<1>8. \A m \in Cards : results'[m] = results[m] \/ results'[m] = runs[r].result
    BY <1>1, <1>2, <1>4
<1>9. FootersRight' /\ RanSqlIsGuarded'
    BY <1>1, <1>4, <1>5, <1>8 DEF ScreenInv, FootersRight, RanSqlIsGuarded
<1> QED
    BY <1>7, <1>9 DEF ScreenInv

-----------------------------------------------------------------------------
(* The theorems                                                            *)

LEMMA ScreenInductive == Spec => []ScreenInv
<1>1. ASSUME Init PROVE ScreenInv
    <2>1. Typed
        BY <1>1 DEF Init, Typed
    <2>2. FootersRight /\ RanSqlIsGuarded
        BY <1>1 DEF Init, FootersRight, RanSqlIsGuarded
    <2> QED
        BY <2>1, <2>2 DEF ScreenInv
<1>2. ASSUME ScreenInv, [Next]_vars PROVE ScreenInv'
    <2>1. CASE \/ Send
               \/ \E a \in DOMAIN asks : SaveQuestion(a) \/ Answer(a) \/ Interrupted(a)
                                         \/ ReadDone(a) \/ ReadError(a) \/ LoseEvent(a)
        BY <1>2, <2>1, AskingKeeps
    <2>2. CASE Refetched \/ Reopen \/ \E n \in Cards : Edit(n)
        BY <1>2, <2>2, ScreenKeeps
    <2>3. CASE \E n \in Cards : Choose(n)
        BY <1>2, <2>3, ChooseKeeps
    <2>4. CASE \E n \in Cards : Run(n)
        BY <1>2, <2>4, RunKeeps
    <2>5. CASE \E r \in DOMAIN runs : ExecuteSQL(r)
        BY <1>2, <2>5, ExecuteKeeps
    <2>6. CASE \E r \in DOMAIN runs : RunReturns(r)
        BY <1>2, <2>6, ReturnKeeps
    <2>7. CASE UNCHANGED vars
        BY <1>2, <2>7 DEF vars, screen, cards, ScreenInv, Typed, FootersRight, RanSqlIsGuarded
    <2> QED
        BY <1>2, <2>1, <2>2, <2>3, <2>4, <2>5, <2>6, <2>7 DEF Next
<1> QED
    BY <1>1, <1>2, PTL DEF Spec

\* The messages, runs and results of a conversation are well typed; above all,
\* every query among them is one the model, an option or a person wrote.
THEOREM ScreenTyped == Spec => []Typed
BY ScreenInductive, PTL DEF ScreenInv

\* No statement reaches the database that is not a single read-only one, nor a
\* scan over the limit where the engine estimates it, whoever wrote it and
\* however often it was corrected (executeSQL, tryRepair, executePaginated).
THEOREM SqlGuarded == Spec => []RanSqlIsGuarded
BY ScreenInductive, PTL DEF ScreenInv

\* The rows of a result are those its footer counts, on every page, for every
\* engine, limit and page size (executePaginated and its six variants).
THEOREM FootersCount == Spec => []FooterCountsRows
<1>1. ScreenInv => FooterCountsRows
    BY DEF ScreenInv, FootersRight, FooterRight, CountsRowsOf, FooterCountsRows
<1> QED
    BY <1>1, ScreenInductive, PTL

-----------------------------------------------------------------------------
(* The import of a file: numbers                                           *)

\* A set of numbers has a least one.
LEMMA LeastOf ==
    ASSUME NEW T, T \subseteq Nat, T # {}
    PROVE  \E x \in T : \A y \in T : x <= y
<1>1. \E x \in T : \A y \in T : ~(<<y, x>> \in OpToRel(<, Nat))
    BY NatLessThanWellFounded, WFMin, Zenon
<1>2. PICK x \in T : \A y \in T : ~(y < x)
    BY <1>1 DEF OpToRel
<1> QED
    BY <1>2

\* What holds of 0 and of the successor of each number it holds of, up to N.
LEMMA Counting ==
    ASSUME NEW N \in Nat, NEW S, 0 \in S, \A n \in 0..N : n \in S /\ n < N => n + 1 \in S
    PROVE  0..N \subseteq S
<1> SUFFICES ASSUME ~(0..N \subseteq S) PROVE FALSE
    OBVIOUS
<1> DEFINE T == (0..N) \ S
<1>1. T \subseteq Nat /\ T # {}
    OBVIOUS
<1>2. PICK x \in T : \A y \in T : x <= y
    <2> HIDE DEF T
    <2> QED
        BY <1>1, LeastOf
<1>3. x \in Nat /\ x # 0 /\ x <= N
    OBVIOUS
<1>4. x - 1 \in S
    <2>1. x - 1 \notin T
        BY <1>2, <1>3
    <2> QED
        BY <1>3, <2>1
<1> QED
    BY <1>3, <1>4

\* A value for each step from 0 to N, each made of the one before.
Iterates(N, T, a, G) ==
    \E f \in [0..N -> T] : f[0] = a /\ \A n \in 1..N : f[n] = G[n][f[n - 1]]

LEMMA Iteration ==
    ASSUME NEW N \in Nat, NEW T, NEW a \in T, NEW G \in [Nat -> [T -> T]]
    PROVE  Iterates(N, T, a, G)
<1> DEFINE Ok(m, f) == f \in [0..m -> T] /\ f[0] = a /\ \A n \in 1..m : f[n] = G[n][f[n - 1]]
           S == {m \in Nat : \E f : Ok(m, f)}
<1>1. 0 \in S
    <2>1. Ok(0, [n \in 0..0 |-> a])
        OBVIOUS
    <2> QED
        BY <2>1
<1>2. ASSUME NEW m \in 0..N, m \in S PROVE m + 1 \in S
    <2>1. PICK f : Ok(m, f)
        BY <1>2
    <2> DEFINE g == [n \in 0..(m + 1) |-> IF n <= m THEN f[n] ELSE G[m + 1][f[m]]]
    <2>2. m \in Nat /\ f[m] \in T /\ m + 1 \in Nat /\ G[m + 1] \in [T -> T]
        BY <2>1
    <2>3. G[m + 1][f[m]] \in T
        BY <2>2
    <2>4. \A n \in 0..m : f[n] \in T
        BY <2>1
    <2>5. g \in [0..(m + 1) -> T] /\ g[0] = a
        BY <2>1, <2>2, <2>3, <2>4
    <2>6. ASSUME NEW n \in 1..(m + 1) PROVE g[n] = G[n][g[n - 1]]
        <3>1. CASE n <= m
            BY <2>1, <2>2, <3>1
        <3>2. CASE n = m + 1
            <4>1. g[n] = G[m + 1][f[m]] /\ g[n - 1] = f[m]
                BY <2>2, <3>2
            <4> QED
                BY <3>2, <4>1
        <3> QED
            BY <2>2, <3>1, <3>2
    <2>7. Ok(m + 1, g)
        BY <2>5, <2>6
    <2> QED
        BY <2>2, <2>7
<1>3. 0..N \subseteq S
    <2> HIDE DEF S
    <2> QED
        BY <1>1, <1>2, Counting
<1>4. N \in S
    BY <1>3
<1> QED
    BY <1>4 DEF Iterates

\* What Min and Max choose.
LEMMA MinIn ==
    ASSUME NEW S, S \subseteq Nat, S # {}
    PROVE  Min(S) \in S /\ \A y \in S : Min(S) <= y
    BY LeastOf DEF Min

LEMMA MaxIn ==
    ASSUME NEW N \in Nat, NEW S, S \subseteq 0..N, S # {}
    PROVE  Max(S) \in S /\ \A y \in S : y <= Max(S)
<1> DEFINE T == {N - x : x \in S}
<1>1. T \subseteq Nat /\ T # {}
    <2>1. \A x \in S : N - x \in Nat
        OBVIOUS
    <2>2. T # {}
        OBVIOUS
    <2> QED
        BY <2>1, <2>2
<1>2. PICK t \in T : \A y \in T : t <= y
    <2> HIDE DEF T
    <2> QED
        BY <1>1, LeastOf
<1>3. PICK x \in S : t = N - x
    OBVIOUS
<1>4. \A y \in S : y <= x
    <2> TAKE y \in S
    <2>1. t <= N - y
        BY <1>2
    <2> QED
        BY <1>3, <2>1
<1> QED
    BY <1>3, <1>4 DEF Max

-----------------------------------------------------------------------------
(* Lists                                                                   *)

LEMMA ListIs ==
    ASSUME NEW s, IsList(s)
    PROVE  /\ Len(s) \in Nat /\ DOMAIN s = 1..Len(s)
           /\ s = [i \in 1..Len(s) |-> s[i]]
           /\ \A i \in DOMAIN s : s[i] \in ToSet(s)
           /\ s # <<>> => 1 \in DOMAIN s
    BY DEF IsList

\* A function of the numbers up to one is a list.
LEMMA ListMade ==
    ASSUME NEW n \in Nat, NEW s, s = [i \in 1..n |-> s[i]]
    PROVE  IsList(s) /\ Len(s) = n
<1>1. \A i \in 1..n : s[i] \in ToSet(s)
    BY DEF ToSet
<1>2. DOMAIN s = 1..n
    OBVIOUS
<1>3. s \in [1..n -> ToSet(s)]
    BY <1>1
<1>4. s \in Seq(ToSet(s))
    BY <1>3, SMT
<1>5. Len(s) = n
    BY <1>2, <1>4
<1> QED
    BY <1>4, <1>5 DEF IsList

LEMMA ListIn ==
    ASSUME NEW U, NEW s \in Seq(U)
    PROVE  IsList(s) /\ ToSet(s) \subseteq U
<1>1. s = [i \in 1..Len(s) |-> s[i]] /\ Len(s) \in Nat
    OBVIOUS
<1>2. IsList(s)
    BY <1>1, ListMade
<1> QED
    BY <1>2 DEF ToSet

LEMMA EmptyList == IsList(<<>>)
    BY <<>> \in Seq({}), ListIn

LEMMA TailOfList ==
    ASSUME NEW s, IsList(s), s # <<>>
    PROVE  IsList(Tail(s)) /\ ToSet(Tail(s)) \subseteq ToSet(s)
<1>1. Tail(s) \in Seq(ToSet(s))
    BY DEF IsList
<1> QED
    BY <1>1, ListIn

LEMMA Joined ==
    ASSUME NEW s, NEW t, IsList(s), IsList(t)
    PROVE  /\ IsList(s \o t) /\ Len(s \o t) = Len(s) + Len(t)
           /\ ToSet(s \o t) \subseteq ToSet(s) \cup ToSet(t)
<1> DEFINE U == ToSet(s) \cup ToSet(t)
<1>1. s \in Seq(U) /\ t \in Seq(U)
    <2>1. \A i \in 1..Len(s) : s[i] \in U
        BY DEF IsList
    <2>2. \A i \in 1..Len(t) : t[i] \in U
        BY DEF IsList
    <2> HIDE DEF U
    <2> QED
        BY <2>1, <2>2 DEF IsList
<1> HIDE DEF U
<1>2. s \o t \in Seq(U) /\ Len(s \o t) = Len(s) + Len(t)
    BY <1>1
<1>3. ToSet(s \o t) \subseteq U
    BY <1>2, ListIn
<1> QED
    BY <1>2, <1>3, ListIn DEF U

LEMMA PartOfList ==
    ASSUME NEW s, NEW m \in Int, NEW n \in Int
    PROVE  IsList(SubSeq(s, m, n)) /\ (m >= 1 /\ m <= n => Len(SubSeq(s, m, n)) = 1 + n - m)
<1> DEFINE t == SubSeq(s, m, n)
           k == IF 1 + n - m > 0 THEN 1 + n - m ELSE 0
<1>1. t = [i \in 1..k |-> t[i]] /\ k \in Nat
    OBVIOUS
<1> HIDE DEF t
<1>2. IsList(t) /\ Len(t) = k
    BY <1>1, ListMade
<1> QED
    BY <1>2 DEF t

\* The elements of a part of a list are its own.
LEMMA PartIn ==
    ASSUME NEW s, IsList(s), NEW m \in Nat \ {0}, NEW n \in 0..Len(s)
    PROVE  ToSet(SubSeq(s, m, n)) \subseteq ToSet(s)
<1>1. DOMAIN SubSeq(s, m, n) = 1..(1 + n - m) /\ \A i \in 1..(1 + n - m) : SubSeq(s, m, n)[i] = s[i + m - 1]
    BY ListIs
<1>2. \A i \in 1..(1 + n - m) : i + m - 1 \in DOMAIN s
    BY ListIs
<1> QED
    BY <1>1, <1>2 DEF ToSet

\* The recursive function of Only.
LEMMA OnlySteps ==
    ASSUME NEW U, NEW s \in Seq(U), NEW at
    PROVE  \E kept \in [0..Len(s) -> Seq(U)] :
              /\ Only(s, at) = kept[Len(s)]
              /\ kept[0] = <<>>
              /\ \A n \in 1..Len(s) : kept[n] = IF n \in at THEN Append(kept[n - 1], s[n]) ELSE kept[n - 1]
<1> DEFINE N == Len(s)
           T == Seq(U)
           none == <<>>
           Next1(n, q) == IF n \in at THEN Append(q, s[n]) ELSE q
           Steps(f) == [n \in 0..N |-> IF n = 0 THEN none ELSE Next1(n, f[n - 1])]
           G == [n \in Nat |-> [q \in T |-> IF n \in 1..N THEN Next1(n, q) ELSE q]]
           kept == CHOOSE g : g = Steps(g)
<1>1. N \in Nat /\ none \in T
    OBVIOUS
<1>2. \A n \in 1..N, q \in T : Next1(n, q) \in T
    OBVIOUS
<1>3. Only(s, at) = kept[N]
    BY DEF Only
<1> HIDE DEF N, T, none, Next1
<1>4. G \in [Nat -> [T -> T]]
    BY <1>2
<1>5. PICK f \in [0..N -> T] : f[0] = none /\ \A n \in 1..N : f[n] = G[n][f[n - 1]]
    <2> HIDE DEF G
    <2>1. Iterates(N, T, none, G)
        BY <1>1, <1>4, Iteration
    <2> QED
        BY <2>1 DEF Iterates
<1>6. \A n \in 1..N : f[n] = Next1(n, f[n - 1])
    <2> TAKE n \in 1..N
    <2>1. n \in Nat /\ f[n - 1] \in T
        BY <1>1, <1>5
    <2> QED
        BY <1>5, <2>1
<1>7. f = Steps(f)
    BY <1>1, <1>5, <1>6
<1>8. kept = Steps(kept)
    <2> HIDE DEF Steps
    <2> QED
        BY <1>7
<1> HIDE DEF kept, G
<1>9. /\ kept[0] = none
      /\ \A n \in 1..N : kept[n] = Next1(n, kept[n - 1])
      /\ kept = [n \in 0..N |-> kept[n]]
    <2>1. kept = [n \in 0..N |-> IF n = 0 THEN none ELSE Next1(n, kept[n - 1])]
        BY <1>8
    <2> HIDE DEF Steps
    <2>2. 0 \in 0..N
        BY <1>1
    <2>3. kept[0] = none
        BY <2>1, <2>2
    <2>4. ASSUME NEW n \in 1..N PROVE kept[n] = Next1(n, kept[n - 1])
        <3>1. n \in 0..N /\ n # 0
            BY <1>1
        <3> QED
            BY <2>1, <3>1
    <2>5. kept = [n \in 0..N |-> kept[n]]
        BY <2>1
    <2> QED
        BY <2>3, <2>4, <2>5
<1> DEFINE S == {n \in 0..N : kept[n] \in T}
<1>10. 0 \in S
    BY <1>1, <1>9
<1>11. ASSUME NEW n \in 0..N, n \in S /\ n < N PROVE n + 1 \in S
    <2>1. n + 1 \in 1..N /\ (n + 1) - 1 = n /\ kept[n] \in T
        BY <1>1, <1>11
    <2>2. kept[n + 1] \in T
        BY <1>2, <1>9, <2>1
    <2> QED
        BY <2>1, <2>2
<1>12. 0..N \subseteq S
    <2> HIDE DEF S
    <2> QED
        BY <1>1, <1>10, <1>11, Counting
<1>13. kept \in [0..N -> T]
    BY <1>9, <1>12
<1> QED
    BY <1>3, <1>9, <1>13 DEF N, T, none, Next1

\* What Only keeps stands at one of the positions.
LEMMA OnlyIn ==
    ASSUME NEW s, IsList(s), NEW at
    PROVE  Only(s, at) \in Seq({s[i] : i \in DOMAIN s \cap at})
<1> DEFINE N == Len(s)
           U == ToSet(s)
           V == {s[i] : i \in DOMAIN s \cap at}
<1>1. PICK kept \in [0..N -> Seq(U)] :
        /\ Only(s, at) = kept[N]
        /\ kept[0] = <<>>
        /\ \A n \in 1..N : kept[n] = IF n \in at THEN Append(kept[n - 1], s[n]) ELSE kept[n - 1]
    BY OnlySteps DEF IsList
<1>2. N \in Nat /\ DOMAIN s = 1..N
    BY ListIs
<1> DEFINE S == {n \in 0..N : kept[n] \in Seq(V)}
<1>3. 0 \in S
    BY <1>1, <1>2
<1>4. ASSUME NEW n \in 0..N, n \in S /\ n < N PROVE n + 1 \in S
    <2>1. n + 1 \in 1..N /\ (n + 1) - 1 = n /\ kept[n] \in Seq(V)
        BY <1>2, <1>4
    <2>2. kept[n + 1] = IF n + 1 \in at THEN Append(kept[n], s[n + 1]) ELSE kept[n]
        BY <1>1, <2>1
    <2>3. n + 1 \in at => s[n + 1] \in V
        BY <1>2, <2>1
    <2> HIDE DEF V
    <2>4. kept[n + 1] \in Seq(V)
        BY <2>1, <2>2, <2>3
    <2> QED
        BY <2>1, <2>4
<1>5. 0..N \subseteq S
    <2> HIDE DEF S, N, V
    <2> QED
        BY <1>2, <1>3, <1>4, Counting
<1> QED
    BY <1>1, <1>2, <1>5

LEMMA OnlyList ==
    ASSUME NEW s, IsList(s), NEW at
    PROVE  /\ IsList(Only(s, at))
           /\ \A k \in DOMAIN Only(s, at) : \E i \in DOMAIN s : i \in at /\ Only(s, at)[k] = s[i]
<1> DEFINE V == {s[i] : i \in DOMAIN s \cap at}
<1>1. Only(s, at) \in Seq(V)
    BY OnlyIn
<1>2. \A k \in DOMAIN Only(s, at) : Only(s, at)[k] \in V
    <2> HIDE DEF V
    <2> QED
        BY <1>1
<1> QED
    BY <1>1, <1>2, ListIn

LEMMA Positions ==
    ASSUME NEW text, IsList(text), NEW at
    PROVE  InOrder(text, at) \in Seq(DOMAIN text \cap at) /\ IsList(InOrder(text, at))
<1> DEFINE all == [i \in 1..Len(text) |-> i]
           N == Len(text)
<1>1. N \in Nat /\ DOMAIN text = 1..N
    BY ListIs
<1>2. all = [i \in 1..N |-> all[i]]
    OBVIOUS
<1>3. DOMAIN all = 1..N /\ \A i \in 1..N : all[i] = i
    OBVIOUS
<1>4. InOrder(text, at) = Only(all, at)
    BY DEF InOrder
<1> HIDE DEF all, N
<1>5. IsList(all)
    BY <1>1, <1>2, ListMade
<1>6. {all[i] : i \in DOMAIN all \cap at} = DOMAIN text \cap at
    BY <1>1, <1>3
<1>7. InOrder(text, at) \in Seq(DOMAIN text \cap at)
    BY <1>4, <1>5, <1>6, OnlyIn
<1> QED
    BY <1>7, ListIn

LEMMA PiecesLists ==
    ASSUME NEW text, IsList(text), NEW cuts
    PROVE  IsLists(Pieces(text, cuts)) /\ Len(Pieces(text, cuts)) >= 1
<1> DEFINE middle == InOrder(text, cuts)
           end == Len(text) + 1
           at == <<0>> \o middle \o <<end>>
           n == Len(at) - 1
           pieces == Pieces(text, cuts)
<1>1. end \in Nat /\ middle \in Seq(Nat)
    <2>1. Len(text) \in Nat /\ DOMAIN text \cap cuts \subseteq Nat
        BY ListIs
    <2>2. middle \in Seq(DOMAIN text \cap cuts)
        BY Positions
    <2>3. middle \in Seq(Nat)
        BY <2>1, <2>2
    <2> QED
        BY <2>1, <2>3
<1> HIDE DEF middle, end
<1>2. at \in Seq(Nat) /\ Len(at) = Len(middle) + 2
    BY <1>1
<1>3. n \in Nat /\ n >= 1
    BY <1>1, <1>2
<1>4. pieces = [k \in 1..n |-> SubSeq(text, at[k] + 1, at[k + 1] - 1)]
    BY DEF Pieces, middle, end
<1> HIDE DEF at
<1>5. ASSUME NEW k \in 1..n PROVE IsList(pieces[k])
    <2>1. at[k] + 1 \in Int /\ at[k + 1] - 1 \in Int
        BY <1>2, <1>3
    <2> QED
        BY <1>4, <2>1, PartOfList
<1>6. DOMAIN pieces = 1..n /\ pieces = [k \in 1..n |-> pieces[k]]
    BY <1>4
<1> HIDE DEF pieces, n
<1>7. IsList(pieces) /\ Len(pieces) = n
    BY <1>3, <1>6, ListMade
<1> QED
    BY <1>3, <1>5, <1>6, <1>7 DEF IsLists, pieces

LEMMA TrimList ==
    ASSUME NEW text, IsList(text)
    PROVE  IsList(Trim(text))
<1>1. CASE Solid(text) = {}
    BY <1>1, EmptyList DEF Trim
<1>2. CASE Solid(text) # {}
    <2>1. Solid(text) \subseteq DOMAIN text
        BY Zenon DEF Solid
    <2>2. Len(text) \in Nat /\ Solid(text) \subseteq 0..Len(text) /\ Solid(text) \subseteq Nat
        BY <2>1, ListIs
    <2>3. Min(Solid(text)) \in Int /\ Max(Solid(text)) \in Int
        BY <1>2, <2>2, MinIn, MaxIn
    <2> QED
        BY <1>2, <2>3, PartOfList DEF Trim
<1> QED
    BY <1>1, <1>2

LEMMA DistinctList ==
    ASSUME NEW s, IsList(s)
    PROVE  IsList(Distinct(s))
    BY OnlyList DEF Distinct

LEMMA ListOver ==
    ASSUME NEW s, IsList(s), NEW f, f = [i \in DOMAIN s |-> f[i]]
    PROVE  IsList(f) /\ Len(f) = Len(s)
    BY ListIs, ListMade

\* Lists end to end are a list.
LEMMA Flattened ==
    ASSUME NEW s, IsLists(s)
    PROVE  /\ IsList(FlattenSeq(s))
           /\ \A x \in ToSet(FlattenSeq(s)) : \E i \in DOMAIN s : x \in ToSet(s[i])
<1> DEFINE N == Len(s)
           U == UNION {ToSet(s[i]) : i \in DOMAIN s}
           T == Seq(U)
           Steps(f) == [i \in 1..N |-> IF i = 1 THEN s[i] ELSE f[i - 1] \o s[i]]
           flat == CHOOSE f : f = Steps(f)
           G == [n \in Nat |-> [q \in T |-> IF n \in 1..(N - 1) THEN q \o s[n + 1] ELSE q]]
<1>1. IsList(s) /\ N \in Nat /\ DOMAIN s = 1..N
    BY ListIs DEF IsLists
<1>2. ASSUME NEW i \in 1..N PROVE s[i] \in T
    <2>1. i \in DOMAIN s /\ IsList(s[i])
        BY <1>1 DEF IsLists
    <2>2. s[i] \in Seq(ToSet(s[i])) /\ ToSet(s[i]) \subseteq U
        BY <2>1 DEF IsList
    <2> HIDE DEF U
    <2> QED
        BY <2>2
<1>3. CASE N = 0
    <2>1. FlattenSeq(s) = s
        BY <1>3 DEF FlattenSeq
    <2>2. ToSet(s) = {}
        BY <1>1, <1>3 DEF ToSet
    <2> QED
        BY <1>1, <2>1, <2>2
<1>4. CASE N # 0
    <2>1. FlattenSeq(s) = flat[N]
        BY <1>4 DEF FlattenSeq
    <2>2. G \in [Nat -> [T -> T]]
        <3>1. ASSUME NEW n \in 1..(N - 1), NEW q \in T PROVE q \o s[n + 1] \in T
            <4>1. n + 1 \in 1..N
                BY <1>1
            <4>2. s[n + 1] \in T
                BY <1>2, <4>1
            <4> QED
                BY <4>2
        <3> HIDE DEF T
        <3> QED
            BY <3>1
    <2>3. N - 1 \in Nat /\ s[1] \in T
        BY <1>1, <1>2, <1>4
    <2>4. PICK f \in [0..(N - 1) -> T] : f[0] = s[1] /\ \A n \in 1..(N - 1) : f[n] = G[n][f[n - 1]]
        <3> HIDE DEF G, T
        <3>1. Iterates(N - 1, T, s[1], G)
            BY <2>2, <2>3, Iteration
        <3> QED
            BY <3>1 DEF Iterates
    <2> HIDE DEF T
    <2> DEFINE g == [i \in 1..N |-> f[i - 1]]
    <2>5. ASSUME NEW i \in 1..N PROVE g[i] = IF i = 1 THEN s[i] ELSE g[i - 1] \o s[i]
        <3>1. CASE i = 1
            BY <1>1, <2>4, <3>1
        <3>2. CASE i # 1
            <4>1. i - 1 \in 1..(N - 1) /\ (i - 1) + 1 = i /\ i - 1 \in 1..N /\ i - 1 \in Nat /\ (i - 1) - 1 \in 0..(N - 1)
                BY <1>1, <3>2
            <4>2. f[(i - 1) - 1] \in T
                BY <2>4, <4>1
            <4>3. g[i] = f[i - 1] /\ g[i - 1] = f[(i - 1) - 1]
                BY <4>1
            <4>4. f[i - 1] = G[i - 1][f[(i - 1) - 1]]
                BY <2>4, <4>1
            <4>5. G[i - 1][f[(i - 1) - 1]] = f[(i - 1) - 1] \o s[i]
                BY <4>1, <4>2
            <4> QED
                BY <3>2, <4>3, <4>4, <4>5
        <3> QED
            BY <3>1, <3>2
    <2>6. g = [i \in 1..N |-> g[i]] /\ \A i \in 1..N : g[i] \in T
        <3>1. \A i \in 1..N : i - 1 \in 0..(N - 1)
            BY <1>1
        <3> QED
            BY <2>4, <3>1
    <2>7. g = Steps(g)
        <3> HIDE DEF g
        <3> QED
            BY <2>5, <2>6
    <2>8. flat = Steps(flat)
        <3> HIDE DEF Steps, g
        <3> QED
            BY <2>7
    <2>9. \A i \in 1..N : flat[i] = IF i = 1 THEN s[i] ELSE flat[i - 1] \o s[i]
        <3> HIDE DEF flat
        <3> QED
            BY <2>8
    <2> DEFINE S == {n \in 0..(N - 1) : flat[n + 1] = g[n + 1]}
    <2> HIDE DEF flat, g
    <2>10. 0 \in S
        <3>1. 0 \in 0..(N - 1) /\ 0 + 1 = 1 /\ 1 \in 1..N
            BY <2>3
        <3>2. flat[1] = s[1] /\ g[1] = s[1]
            BY <2>5, <2>9, <3>1
        <3> QED
            BY <3>1, <3>2
    <2>11. ASSUME NEW n \in 0..(N - 1), n \in S /\ n < N - 1 PROVE n + 1 \in S
        <3>1. n + 1 \in 0..(N - 1) /\ (n + 1) + 1 \in 1..N /\ ((n + 1) + 1) - 1 = n + 1 /\ (n + 1) + 1 # 1
            BY <2>3, <2>11
        <3>2. flat[(n + 1) + 1] = flat[n + 1] \o s[(n + 1) + 1]
            BY <2>9, <3>1
        <3>3. g[(n + 1) + 1] = g[n + 1] \o s[(n + 1) + 1]
            BY <2>5, <3>1
        <3> QED
            BY <2>11, <3>1, <3>2, <3>3
    <2>12. 0..(N - 1) \subseteq S
        <3> HIDE DEF S, N
        <3> QED
            BY <2>3, <2>10, <2>11, Counting
    <2>13. flat[N] = g[N] /\ g[N] \in T
        <3>1. N - 1 \in 0..(N - 1) /\ (N - 1) + 1 = N /\ N \in 1..N
            BY <2>3
        <3>2. N - 1 \in S
            BY <2>12, <3>1
        <3>3. flat[(N - 1) + 1] = g[(N - 1) + 1]
            BY <3>2
        <3> QED
            BY <2>6, <3>1, <3>3
    <2>14. FlattenSeq(s) \in Seq(U)
        BY <2>1, <2>13 DEF T
    <2>15. IsList(FlattenSeq(s)) /\ ToSet(FlattenSeq(s)) \subseteq U
        <3> HIDE DEF U
        <3> QED
            BY <2>14, ListIn
    <2> QED
        BY <2>15
<1> QED
    BY <1>3, <1>4

-----------------------------------------------------------------------------
(* Tables                                                                  *)

\* A table has columns, and each of its rows a value for each of them.
IsTable(t) ==
    /\ IsList(t.headers) /\ t.headers # <<>> /\ IsList(t.rows)
    /\ \A r \in DOMAIN t.rows : DOMAIN t.rows[r] = ToSet(t.headers)
TableOrNone(t) == t = NoTable \/ IsTable(t)

LEMMA TableMade ==
    ASSUME NEW headers, NEW rows, IsList(headers), IsList(rows),
           \A r \in DOMAIN rows : DOMAIN rows[r] = ToSet(headers)
    PROVE  TableOrNone(Table(headers, rows))
<1> DEFINE t == [headers |-> headers, rows |-> rows]
<1>1. CASE headers = <<>> \/ rows = <<>>
    BY <1>1 DEF Table, TableOrNone
<1>2. CASE ~(headers = <<>> \/ rows = <<>>)
    <2>1. Table(headers, rows) = t
        BY <1>2 DEF Table
    <2>2. t.headers = headers /\ t.rows = rows
        OBVIOUS
    <2> HIDE DEF t
    <2>3. IsTable(t)
        BY <1>2, <2>2 DEF IsTable
    <2> QED
        BY <2>1, <2>3 DEF TableOrNone
<1> QED
    BY <1>1, <1>2

\* Objects have all keys, in a table without empty ones or not.
LEMMA TableOfObjects ==
    ASSUME NEW objects, IsLists(objects)
    PROVE  LET t == TableOf(objects) IN
           /\ IsList(t.headers) /\ IsList(t.rows) /\ DOMAIN t.rows = DOMAIN objects
           /\ \A r \in DOMAIN t.rows : DOMAIN t.rows[r] = ToSet(t.headers)
<1> DEFINE t == TableOf(objects)
           keys == [i \in DOMAIN objects |-> [k \in DOMAIN objects[i] |-> objects[i][k][1]]]
           names == Distinct(FlattenSeq(keys))
<1>1. t.headers = names
    BY DEF TableOf
<1>2. IsLists(keys)
    <2>1. IsList(keys)
        BY ListIs, ListMade DEF IsLists
    <2>2. ASSUME NEW i \in DOMAIN keys PROVE IsList(keys[i])
        <3>1. i \in DOMAIN objects /\ keys[i] = [k \in DOMAIN objects[i] |-> objects[i][k][1]]
            OBVIOUS
        <3>2. IsList(objects[i])
            BY <3>1 DEF IsLists
        <3> QED
            BY <3>1, <3>2, ListIs, ListMade
    <2> HIDE DEF keys
    <2> QED
        BY <2>1, <2>2 DEF IsLists
<1>3. IsList(names)
    <2> HIDE DEF keys
    <2> QED
        BY <1>2, Flattened, DistinctList
<1>4. /\ t.rows = [i \in DOMAIN objects |-> t.rows[i]]
      /\ \A i \in DOMAIN objects : DOMAIN t.rows[i] = ToSet(names)
    BY DEF TableOf
<1> HIDE DEF t, names
<1>5. IsList(t.rows) /\ DOMAIN t.rows = DOMAIN objects
    BY <1>4, ListIs, ListMade DEF IsLists
<1> QED
    BY <1>1, <1>3, <1>4, <1>5 DEF t

LEMMA RecordsTable ==
    ASSUME NEW objects, IsLists(objects)
    PROVE  TableOrNone(FromRecords(objects))
<1> DEFINE all == TableOf(objects)
           rows == [i \in DOMAIN all.rows |-> EmptyIsNull(all.rows[i])]
           at == {i \in DOMAIN rows : \E h \in DOMAIN rows[i] : rows[i][h] # Null}
           some == Only(rows, at)
<1>1. FromRecords(objects) = Table(all.headers, some)
    BY DEF FromRecords
<1> HIDE DEF at
<1>2. /\ IsList(all.headers) /\ IsList(all.rows)
      /\ \A r \in DOMAIN all.rows : DOMAIN all.rows[r] = ToSet(all.headers)
    BY TableOfObjects
<1> HIDE DEF all
<1>3. /\ DOMAIN rows = DOMAIN all.rows /\ rows = [i \in DOMAIN all.rows |-> rows[i]]
      /\ \A r \in DOMAIN rows : DOMAIN rows[r] = ToSet(all.headers)
    BY <1>2 DEF EmptyIsNull
<1> HIDE DEF rows
<1>4. IsList(rows)
    BY <1>2, <1>3, ListIs, ListMade
<1>5. IsList(some) /\ \A k \in DOMAIN some : \E i \in DOMAIN rows : i \in at /\ some[k] = rows[i]
    BY <1>4, OnlyList
<1>6. \A k \in DOMAIN some : DOMAIN some[k] = ToSet(all.headers)
    BY <1>3, <1>5
<1> HIDE DEF some
<1> QED
    BY <1>1, <1>2, <1>5, <1>6, TableMade

LEMMA HeadersList ==
    ASSUME NEW cells, IsList(cells)
    PROVE  IsList(Headers(cells))
<1>1. Headers(cells) = [i \in DOMAIN cells |-> Headers(cells)[i]]
    BY DEF Headers
<1> QED
    BY <1>1, ListOver

LEMMA GridTable ==
    ASSUME NEW headers, NEW lines, IsList(headers), IsList(lines)
    PROVE  TableOrNone(FromGrid(headers, lines))
<1> DEFINE names == Distinct(headers)
           Line(k) == LET row == Record(headers, lines[k]) IN [i \in DOMAIN names |-> <<names[i], row[names[i]]>>]
           objects == [k \in DOMAIN lines |-> Line(k)]
<1>1. FromGrid(headers, lines) = FromRecords(objects)
    BY DEF FromGrid
<1>2. IsList(names)
    BY DistinctList
<1> HIDE DEF names
<1>3. ASSUME NEW k PROVE IsList(Line(k))
    <2>1. Line(k) = [i \in DOMAIN names |-> Line(k)[i]]
        OBVIOUS
    <2> HIDE DEF Line
    <2> QED
        BY <1>2, <2>1, ListOver
<1> HIDE DEF Line
<1>4. objects = [k \in DOMAIN lines |-> objects[k]] /\ \A k \in DOMAIN objects : IsList(objects[k])
    BY <1>3
<1> HIDE DEF objects
<1>5. IsLists(objects)
    BY <1>4, ListOver DEF IsLists
<1> QED
    BY <1>1, <1>5, RecordsTable

-----------------------------------------------------------------------------
(* The parsers                                                             *)

LEMMA DelimitedLists ==
    ASSUME NEW text, IsList(text), NEW delimiter
    PROVE  IsLists(DelimitedRecords(text, delimiter))
<1> DEFINE ends == {i \in DOMAIN text : Unquoted(text, i) /\
                (text[i] = "lf" \/ (text[i] = "cr" /\ ~(i < Len(text) /\ text[i + 1] = "lf")))}
           lines == Pieces(text, ends)
           Cuts(line) == {i \in DOMAIN line : line[i] = delimiter /\ Unquoted(line, i)}
           Fields(line) == [k \in DOMAIN Pieces(line, Cuts(line)) |-> FieldText(Pieces(line, Cuts(line))[k])]
           entries == [k \in DOMAIN lines |-> Fields(lines[k])]
           result == DelimitedRecords(text, delimiter)
<1>1. result = IF Last(entries) = << <<>> >> THEN Front(entries) ELSE entries
    BY DEF DelimitedRecords
<1> HIDE DEF ends, Cuts
<1>2. IsLists(lines) /\ Len(lines) >= 1
    BY PiecesLists
<1> HIDE DEF lines
<1>3. ASSUME NEW line, IsList(line) PROVE IsList(Fields(line))
    <2> DEFINE pieces == Pieces(line, Cuts(line))
    <2>1. IsList(pieces)
        BY <1>3, PiecesLists DEF IsLists
    <2>2. Fields(line) = [k \in DOMAIN pieces |-> Fields(line)[k]]
        OBVIOUS
    <2> HIDE DEF Fields, pieces
    <2> QED
        BY <2>1, <2>2, ListOver
<1> HIDE DEF Fields
<1>4. IsList(lines) /\ entries = [k \in DOMAIN lines |-> entries[k]]
    BY <1>2 DEF IsLists
<1>5. \A k \in DOMAIN entries : IsList(entries[k])
    BY <1>2, <1>3 DEF IsLists
<1> HIDE DEF entries
<1>6. IsList(entries) /\ Len(entries) = Len(lines)
    BY <1>4, ListOver
<1>7. CASE result = entries
    BY <1>5, <1>6, <1>7 DEF IsLists
<1>8. CASE result = Front(entries)
    <2>1. Len(entries) \in Nat /\ Len(entries) - 1 \in 0..Len(entries) /\ DOMAIN entries = 1..Len(entries)
        BY <1>2, <1>6, ListIs
    <2>2. result = SubSeq(entries, 1, Len(entries) - 1)
        BY <1>8 DEF Front
    <2>3. IsList(result)
        BY <2>1, <2>2, PartOfList
    <2>4. ToSet(result) \subseteq ToSet(entries)
        BY <1>6, <2>1, <2>2, PartIn
    <2>5. \A x \in ToSet(entries) : IsList(x)
        BY <1>5 DEF ToSet
    <2> HIDE DEF result
    <2>6. \A i \in DOMAIN result : result[i] \in ToSet(result)
        BY <2>3, ListIs
    <2>7. IsLists(result)
        BY <2>3, <2>4, <2>5, <2>6 DEF IsLists
    <2> QED
        BY <2>7 DEF result
<1> HIDE DEF result
<1> QED
    BY <1>1, <1>7, <1>8 DEF result

LEMMA DelimitedTable ==
    ASSUME NEW text, IsList(text), NEW delimiter
    PROVE  TableOrNone(ParseDelimited(text, delimiter))
<1> DEFINE entries == DelimitedRecords(text, delimiter)
           headers == Headers(entries[1])
           at == {i \in DOMAIN entries \ {1} : ~(Len(entries[i]) = 1 /\ Blank(entries[i][1]))}
           data == Only(entries, at)
           rows == [k \in DOMAIN data |-> EmptyIsNull(Record(headers, data[k]))]
<1>1. ParseDelimited(text, delimiter) = IF entries = <<>> THEN NoTable ELSE Table(headers, rows)
    BY DEF ParseDelimited
<1>2. IsLists(entries)
    BY DelimitedLists
<1> HIDE DEF entries, at
<1>3. CASE entries = <<>>
    BY <1>1, <1>3 DEF TableOrNone
<1>4. CASE entries # <<>>
    <2>1. IsList(entries) /\ IsList(entries[1])
        BY <1>2, <1>4, ListIs DEF IsLists
    <2>2. IsList(headers)
        BY <2>1, HeadersList
    <2>3. IsList(data)
        BY <2>1, OnlyList
    <2> HIDE DEF headers, data
    <2>4. rows = [k \in DOMAIN data |-> rows[k]] /\ \A k \in DOMAIN rows : DOMAIN rows[k] = ToSet(headers)
        BY DEF EmptyIsNull, Record
    <2> HIDE DEF rows
    <2>5. IsList(rows)
        BY <2>3, <2>4, ListOver
    <2> QED
        BY <1>1, <1>4, <2>2, <2>4, <2>5, TableMade
<1> QED
    BY <1>3, <1>4

LEMMA JsonTable ==
    ASSUME NEW document, IsJson(document)
    PROVE  TableOrNone(ParseJson(document))
<1> DEFINE value == document.value
           whole == value.kind \in {"array", "object"}
           entries == IF whole THEN ExtractRecords(value) ELSE document.lines
           Fields(v) == [k \in DOMAIN v.items |-> <<v.items[k][1], Serialize(v.items[k][2])>>]
           objects == [i \in DOMAIN entries |-> Fields(entries[i])]
           all == TableOf(objects)
           values == {value} \cup ToSet(document.lines)
           inner == UNION {Inner(v) : v \in values}
           some == values \cup inner \cup UNION {Inner(v) : v \in inner}
<1>1. ParseJson(document) = IF \A i \in DOMAIN entries : IsObject(entries[i])
                           THEN Table(all.headers, all.rows) ELSE NoTable
    BY DEF ParseJson
<1>2. IsList(document.lines) /\ \A v \in some : IsValue(v)
    BY DEF IsJson
<1>3. IsList(entries) /\ \A i \in DOMAIN entries : entries[i] \in some
    <2>1. CASE ~whole
        BY <1>2, <2>1, ListIs
    <2>2. CASE value.kind = "array"
        <3>1. entries = value.items
            BY <2>2 DEF ExtractRecords
        <3>2. IsList(value.items)
            BY <1>2, <2>2 DEF IsValue
        <3>3. ToSet(value.items) \subseteq some
            BY <2>2 DEF Inner
        <3> HIDE DEF entries, some
        <3> QED
            BY <3>1, <3>2, <3>3, ListIs
    <2>3. CASE value.kind = "object"
        <3> DEFINE only == CHOOSE k \in Wrapped(value) : TRUE
                   array == value.items[only][2]
        <3>1. entries = IF Cardinality(Wrapped(value)) = 1 THEN array.items ELSE <<value>>
            BY <2>3 DEF ExtractRecords
        <3>2. CASE Cardinality(Wrapped(value)) = 1
            <4>1. only \in Wrapped(value)
                <5>1. Wrapped(value) # {}
                    BY <3>2, FS_EmptySet
                <5> QED
                    BY <5>1
            <4> HIDE DEF only
            <4>2. only \in DOMAIN value.items /\ array.kind = "array"
                BY <4>1 DEF Wrapped
            <4>3. array \in Inner(value)
                BY <2>3, <4>2 DEF Inner, ToSet
            <4>4. array \in inner
                BY <4>3
            <4>5. IsValue(array) /\ Inner(array) \subseteq some
                BY <1>2, <4>4
            <4>6. IsList(array.items) /\ ToSet(array.items) \subseteq some
                BY <4>2, <4>5 DEF IsValue, Inner
            <4> HIDE DEF entries, some, array
            <4> QED
                BY <3>1, <3>2, <4>6, ListIs
        <3>3. CASE Cardinality(Wrapped(value)) # 1
            <4>1. <<value>> \in Seq(some)
                BY value \in some
            <4> HIDE DEF entries, some
            <4> QED
                BY <3>1, <3>3, <4>1, ListIn, ListIs
        <3> QED
            BY <3>2, <3>3
    <2> QED
        BY <2>1, <2>2, <2>3
<1>4. CASE \A i \in DOMAIN entries : IsObject(entries[i])
    <2> HIDE DEF some, entries
    <2>1. ASSUME NEW i \in DOMAIN entries PROVE IsList(objects[i])
        <3>1. IsList(entries[i].items)
            BY <1>2, <1>3, <1>4 DEF IsObject, IsValue
        <3>2. objects[i] = [k \in DOMAIN entries[i].items |-> objects[i][k]]
            OBVIOUS
        <3> HIDE DEF objects
        <3> QED
            BY <3>1, <3>2, ListOver
    <2>2. DOMAIN objects = DOMAIN entries /\ objects = [i \in DOMAIN entries |-> objects[i]]
        OBVIOUS
    <2> HIDE DEF objects
    <2>3. IsLists(objects)
        BY <1>3, <2>1, <2>2, ListOver DEF IsLists
    <2> QED
        BY <1>1, <1>4, <2>3, TableOfObjects, TableMade
<1>5. CASE ~\A i \in DOMAIN entries : IsObject(entries[i])
    BY <1>1, <1>5 DEF TableOrNone
<1> QED
    BY <1>4, <1>5

LEMMA XmlTable ==
    ASSUME NEW document, IsXml(document)
    PROVE  TableOrNone(ParseXml(document))
<1> DEFINE rows == InOrder(document, RowElements(document))
           Field(i) == <<document[i].tag, Trim(document[i].text)>>
           Under(i) == InOrder(document, Children(document, i))
           Fields(i) == document[i].attributes \o
               (IF Under(i) = <<>> THEN <<Field(i)>> ELSE [k \in DOMAIN Under(i) |-> Field(Under(i)[k])])
           objects == [k \in DOMAIN rows |-> Fields(rows[k])]
<1>1. ParseXml(document) = FromRecords(objects)
    BY DEF ParseXml
<1>2. IsList(document) /\ \A i \in DOMAIN document : IsList(document[i].attributes)
    BY DEF IsXml
<1>3. rows \in Seq(DOMAIN document \cap RowElements(document)) /\ IsList(rows)
    BY <1>2, Positions
<1>4. \A k \in DOMAIN rows : rows[k] \in DOMAIN document
    <2> HIDE DEF rows
    <2> QED
        BY <1>3
<1> HIDE DEF rows, Field
<1>5. ASSUME NEW i \in DOMAIN document PROVE IsList(Fields(i))
    <2> DEFINE own == <<Field(i)>>
               below == [k \in DOMAIN Under(i) |-> Field(Under(i)[k])]
    <2>1. own \in Seq({Field(i)})
        OBVIOUS
    <2>2. IsList(own)
        BY <2>1, ListIn
    <2>3. below = [k \in DOMAIN Under(i) |-> below[k]] /\ IsList(Under(i))
        BY <1>2, Positions
    <2>4. Fields(i) = document[i].attributes \o (IF Under(i) = <<>> THEN own ELSE below)
        OBVIOUS
    <2> HIDE DEF own, below, Under, Fields
    <2>5. IsList(below)
        BY <2>3, ListOver
    <2> QED
        BY <1>2, <2>2, <2>4, <2>5, Joined
<1> HIDE DEF Fields
<1>6. DOMAIN objects = DOMAIN rows /\ objects = [k \in DOMAIN rows |-> objects[k]]
    OBVIOUS
<1>7. \A k \in DOMAIN objects : IsList(objects[k])
    BY <1>4, <1>5
<1> HIDE DEF objects
<1>8. IsLists(objects)
    BY <1>3, <1>6, <1>7, ListOver DEF IsLists
<1> QED
    BY <1>1, <1>8, RecordsTable

LEMMA Chained ==
    ASSUME NEW a \in Nat, NEW b \in Nat, NEW c \in Nat, a <= b, b < c
    PROVE  a <= c
    OBVIOUS

LEMMA LongestIn ==
    ASSUME NEW s, IsLists(s), s # <<>>
    PROVE  Longest(s) \in ToSet(s)
<1> DEFINE N == Len(s)
           Best(n, i) == \A j \in 1..n : Len(s[j]) <= Len(s[i])
           S == {n \in 0..(N - 1) : \E i \in 1..(n + 1) : Best(n + 1, i)}
           at == {i \in DOMAIN s : \A j \in DOMAIN s : Len(s[j]) <= Len(s[i])}
<1>1. N \in Nat /\ N # 0 /\ DOMAIN s = 1..N /\ \A i \in 1..N : Len(s[i]) \in Nat
    BY ListIs DEF IsLists
<1> HIDE DEF N
<1>2. 0 \in S
    <2>1. Best(1, 1) /\ 0 \in 0..(N - 1) /\ 0 + 1 = 1 /\ 1 \in 1..1
        BY <1>1
    <2> QED
        BY <2>1
<1>3. ASSUME NEW n \in 0..(N - 1), n \in S /\ n < N - 1 PROVE n + 1 \in S
    <2>1. PICK i \in 1..(n + 1) : Best(n + 1, i)
        BY <1>3
    <2>2. /\ n + 1 \in 0..(N - 1) /\ n + 2 = (n + 1) + 1 /\ n + 2 \in 1..N /\ i \in 1..N /\ i \in 1..(n + 2)
          /\ \A j \in 1..(n + 2) : j \in 1..(n + 1) \/ j = n + 2
        BY <1>1, <1>3
    <2>3. Len(s[i]) \in Nat /\ Len(s[n + 2]) \in Nat
        BY <1>1, <2>2
    <2>4. CASE Len(s[n + 2]) <= Len(s[i])
        <3>1. Best(n + 2, i)
            BY <2>1, <2>2, <2>4
        <3> QED
            BY <2>2, <3>1
    <2>5. CASE Len(s[i]) < Len(s[n + 2])
        <3>1. Best(n + 2, n + 2)
            <4> TAKE j \in 1..(n + 2)
            <4>1. CASE j = n + 2
                BY <2>3, <4>1
            <4>2. CASE j \in 1..(n + 1)
                <5>1. Len(s[j]) <= Len(s[i])
                    BY <2>1, <4>2
                <5>2. Len(s[j]) \in Nat
                    <6>1. j \in 1..N
                        BY <1>1, <2>2, <4>2
                    <6> QED
                        BY <1>1, <6>1
                <5> QED
                    BY <2>3, <2>5, <5>1, <5>2, Chained
            <4> QED
                BY <2>2, <4>1, <4>2
        <3> QED
            BY <2>2, <3>1
    <2> QED
        BY <2>3, <2>4, <2>5
<1>4. 0..(N - 1) \subseteq S
    <2>1. N - 1 \in Nat
        BY <1>1
    <2> HIDE DEF S
    <2> QED
        BY <2>1, <1>2, <1>3, Counting
<1>5. at # {} /\ at \subseteq Nat /\ at \subseteq DOMAIN s
    <2>1. N - 1 \in 0..(N - 1) /\ (N - 1) + 1 = N
        BY <1>1
    <2>2. N - 1 \in S
        BY <1>4, <2>1
    <2>3. PICK i \in 1..N : Best(N, i)
        BY <2>1, <2>2
    <2>4. i \in at
        BY <1>1, <2>3
    <2>5. at \subseteq DOMAIN s
        OBVIOUS
    <2> HIDE DEF at
    <2> QED
        BY <1>1, <2>4, <2>5
<1>6. Longest(s) = s[Min(at)]
    BY DEF Longest
<1> HIDE DEF at
<1>7. Min(at) \in at
    BY <1>5, MinIn
<1> QED
    BY <1>5, <1>6, <1>7 DEF ToSet

-----------------------------------------------------------------------------
(* The grid of an HTML table                                               *)

\* What a row is made of: cells, the texts so far and those carried.
Carries(V) == UNION {[D -> [text : V, rows : Int]] : D \in {X \in SUBSET Nat : IsFiniteSet(X)}}
GridLines(C, V) == [cells : Seq(C), row : Seq(V), carry : Carries(V)]
AreCells(C) == \A c \in C : c.colspan \in Nat /\ c.rowspan \in Nat

LEMMA CarriesIs ==
    ASSUME NEW V, NEW carry
    PROVE  carry \in Carries(V) <=>
               /\ carry = [c \in DOMAIN carry |-> carry[c]] /\ DOMAIN carry \subseteq Nat
               /\ IsFiniteSet(DOMAIN carry)
               /\ \A c \in DOMAIN carry : carry[c] \in [text : V, rows : Int]
    BY DEF Carries

LEMMA GridStepKeeps ==
    ASSUME NEW C, AreCells(C), NEW V, \A c \in C : Trim(c.text) \in V,
           NEW line \in GridLines(C, V)
    PROVE  GridStep(line) \in GridLines(C, V)
<1> DEFINE col == Len(line.row) + 1
           cell == Head(line.cells)
           text == Trim(cell.text)
           span == IF cell.rowspan > 1 THEN col..(col + cell.colspan - 1) ELSE {}
           fromAbove == col \in DOMAIN line.carry /\ line.carry[col].rows > 0
           used == [line.carry EXCEPT ![col].rows = @ - 1]
           put == [c \in DOMAIN line.carry \cup span |->
                     IF c \in span THEN [text |-> text, rows |-> Spill(cell)] ELSE line.carry[c]]
           times == [i \in 1..cell.colspan |-> text]
<1>1. /\ line = [cells |-> line.cells, row |-> line.row, carry |-> line.carry]
      /\ line.cells \in Seq(C) /\ line.row \in Seq(V) /\ line.carry \in Carries(V)
      /\ Len(line.row) \in Nat
    BY DEF GridLines
<1>2. /\ line.carry = [c \in DOMAIN line.carry |-> line.carry[c]] /\ DOMAIN line.carry \subseteq Nat
      /\ IsFiniteSet(DOMAIN line.carry)
      /\ \A c \in DOMAIN line.carry : line.carry[c] \in [text : V, rows : Int]
    BY <1>1, CarriesIs
<1>3. CASE fromAbove
    <2>1. GridStep(line) = [cells |-> line.cells, row |-> Append(line.row, line.carry[col].text), carry |-> used]
        BY <1>1, <1>3 DEF GridStep
    <2>2. line.carry[col] \in [text : V, rows : Int]
        BY <1>2, <1>3
    <2>3. Append(line.row, line.carry[col].text) \in Seq(V)
        BY <1>1, <2>2
    <2>4. /\ used = [c \in DOMAIN line.carry |-> used[c]] /\ DOMAIN used = DOMAIN line.carry
          /\ \A c \in DOMAIN line.carry : used[c] \in [text : V, rows : Int]
        <3>1. /\ DOMAIN used = DOMAIN line.carry /\ used = [c \in DOMAIN used |-> used[c]]
              /\ \A c \in DOMAIN line.carry : c # col => used[c] = line.carry[c]
              /\ used[col] = [line.carry[col] EXCEPT !.rows = @ - 1]
            BY <1>2, <1>3
        <3>2. used[col] \in [text : V, rows : Int]
            BY <2>2, <3>1
        <3> QED
            BY <1>2, <3>1, <3>2
    <2> HIDE DEF used
    <2>5. used \in Carries(V)
        BY <1>2, <2>4, CarriesIs
    <2> QED
        BY <1>1, <2>1, <2>3, <2>5 DEF GridLines
<1>4. CASE ~fromAbove /\ line.cells = <<>>
    BY <1>4 DEF GridStep
<1>5. CASE ~fromAbove /\ line.cells # <<>>
    <2>1. GridStep(line) = [cells |-> Tail(line.cells), row |-> line.row \o times, carry |-> put]
        BY <1>5 DEF GridStep
    <2>2. cell \in C /\ Tail(line.cells) \in Seq(C)
        BY <1>1, <1>5
    <2>3. cell.colspan \in Nat /\ cell.rowspan \in Nat /\ text \in V /\ Spill(cell) \in Int
        BY <2>2 DEF AreCells, Spill
    <2>4. times \in Seq(V)
        BY <2>3
    <2>5. span \subseteq Nat /\ IsFiniteSet(span)
        <3>1. col \in Nat /\ col + cell.colspan - 1 \in Int
            BY <1>1, <2>3
        <3> HIDE DEF col, cell
        <3>2. IsFiniteSet(col..(col + cell.colspan - 1)) /\ col..(col + cell.colspan - 1) \subseteq Nat
            BY <3>1, FS_Interval
        <3> QED
            BY <3>2, FS_EmptySet
    <2> HIDE DEF span, cell, text, times
    <2>6. /\ put = [c \in DOMAIN line.carry \cup span |-> put[c]] /\ DOMAIN put = DOMAIN line.carry \cup span
          /\ \A c \in DOMAIN put : put[c] \in [text : V, rows : Int]
        BY <1>2, <2>3
    <2> HIDE DEF put
    <2>7. IsFiniteSet(DOMAIN line.carry \cup span)
        BY <1>2, <2>5, FS_Union
    <2>8. put \in Carries(V)
        BY <1>2, <2>5, <2>6, <2>7, CarriesIs
    <2>9. line.row \o times \in Seq(V)
        BY <1>1, <2>4
    <2> QED
        BY <2>1, <2>2, <2>8, <2>9 DEF GridLines
<1> QED
    BY <1>3, <1>4, <1>5

LEMMA GridRowKeeps ==
    ASSUME NEW C, AreCells(C), NEW V, \A c \in C : Trim(c.text) \in V,
           NEW cells \in Seq(C), NEW carry \in Carries(V)
    PROVE  GridRow(cells, carry) \in GridLines(C, V)
<1> DEFINE N == Len(cells) + Cardinality(DOMAIN carry)
           T == GridLines(C, V)
           start == [cells |-> cells, row |-> <<>>, carry |-> carry]
           Step(n, q) == GridStep(q)
           Steps(g) == [n \in 0..N |-> IF n = 0 THEN start ELSE Step(n, g[n - 1])]
           G == [n \in Nat |-> [q \in T |-> IF n \in 1..N THEN Step(n, q) ELSE q]]
           line == CHOOSE g : g = Steps(g)
<1>1. N \in Nat
    BY CarriesIs, FS_CardinalityType
<1>2. start \in T
    BY DEF GridLines
<1>3. ASSUME NEW n \in 1..N, NEW q \in T PROVE Step(n, q) \in T
    BY GridStepKeeps
<1>20. GridRow(cells, carry) = line[N]
    BY DEF GridRow
<1>4. PICK f \in [0..N -> T] : f[0] = start /\ \A n \in 1..N : f[n] = G[n][f[n - 1]]
    <2>1. G \in [Nat -> [T -> T]]
        <3> HIDE DEF T
        <3> QED
            BY <1>3
    <2> HIDE DEF G, T, start, N
    <2>2. Iterates(N, T, start, G)
        BY <1>1, <1>2, <2>1, Iteration
    <2> QED
        BY <2>2 DEF Iterates
<1> HIDE DEF T, start, N
<1>5. \A n \in 1..N : f[n] = Step(n, f[n - 1])
    <2> TAKE n \in 1..N
    <2>1. n \in Nat /\ f[n - 1] \in T
        BY <1>1, <1>4
    <2> QED
        BY <1>4, <2>1
<1> HIDE DEF Step, G
<1>6. f = Steps(f)
    <2>1. f = [n \in 0..N |-> f[n]]
        BY <1>4
    <2>2. \A n \in 0..N : n = 0 \/ n \in 1..N
        BY <1>1
    <2>3. \A n \in 0..N : f[n] = IF n = 0 THEN start ELSE Step(n, f[n - 1])
        BY <1>4, <1>5, <2>2
    <2>4. Steps(f) = [n \in 0..N |-> IF n = 0 THEN start ELSE Step(n, f[n - 1])]
        OBVIOUS
    <2> QED
        BY <2>1, <2>3, <2>4
<1>7. line = Steps(line)
    <2> HIDE DEF Steps
    <2> QED
        BY <1>6
<1> HIDE DEF line
<1>8. line[0] = start /\ \A n \in 1..N : line[n] = Step(n, line[n - 1])
    <2>1. line = [n \in 0..N |-> IF n = 0 THEN start ELSE Step(n, line[n - 1])]
        BY <1>7
    <2> HIDE DEF Steps
    <2>2. 0 \in 0..N /\ \A n \in 1..N : n \in 0..N /\ n # 0
        BY <1>1
    <2> QED
        BY <2>1, <2>2
<1> DEFINE S == {n \in 0..N : line[n] \in T}
<1>9. 0 \in S
    BY <1>1, <1>2, <1>8
<1>10. ASSUME NEW n \in 0..N, n \in S /\ n < N PROVE n + 1 \in S
    <2>1. n + 1 \in 1..N /\ (n + 1) - 1 = n /\ line[n] \in T
        BY <1>1, <1>10
    <2>2. line[n + 1] \in T
        BY <1>3, <1>8, <2>1
    <2> QED
        BY <2>1, <2>2
<1>11. 0..N \subseteq S
    <2> HIDE DEF S
    <2> QED
        BY <1>1, <1>9, <1>10, Counting
<1> QED
    BY <1>20, <1>1, <1>11 DEF T

\* Every row of the grid is a list, and so is the grid.
LEMMA GridOfLists ==
    ASSUME NEW C, AreCells(C), NEW rows \in Seq(Seq(C))
    PROVE  IsLists(TableToGrid(rows)) /\ Len(TableToGrid(rows)) = Len(rows)
<1> DEFINE N == Len(rows)
           V == {Trim(c.text) : c \in C}
           T == GridLines(C, V)
           start == [cells |-> <<>>, row |-> <<>>, carry |-> <<>>]
           Step(n, q) == GridRow(rows[n], q.carry)
           Steps(g) == [n \in 0..N |-> IF n = 0 THEN start ELSE Step(n, g[n - 1])]
           G == [n \in Nat |-> [q \in T |-> IF n \in 1..N THEN Step(n, q) ELSE q]]
           line == CHOOSE g : g = Steps(g)
           grid == TableToGrid(rows)
<1>1. N \in Nat /\ DOMAIN rows = 1..N
    OBVIOUS
<1>2. start \in T
    <2>1. <<>> \in Carries(V)
        <3>1. DOMAIN <<>> = {} /\ <<>> = [c \in {} |-> <<>>[c]]
            OBVIOUS
        <3> QED
            BY <3>1, FS_EmptySet, CarriesIs
    <2> QED
        BY <2>1 DEF GridLines
<1>3. ASSUME NEW n \in 1..N, NEW q \in T PROVE Step(n, q) \in T
    <2>1. q.carry \in Carries(V) /\ rows[n] \in Seq(C)
        BY DEF GridLines
    <2>2. \A c \in C : Trim(c.text) \in V
        OBVIOUS
    <2> HIDE DEF V
    <2> QED
        BY <2>1, <2>2, GridRowKeeps
<1>20. grid = [n \in DOMAIN rows |-> line[n].row]
    BY DEF TableToGrid
<1>4. PICK f \in [0..N -> T] : f[0] = start /\ \A n \in 1..N : f[n] = G[n][f[n - 1]]
    <2>1. G \in [Nat -> [T -> T]]
        <3> HIDE DEF T
        <3> QED
            BY <1>3
    <2> HIDE DEF G, T, start, N
    <2>2. Iterates(N, T, start, G)
        BY <1>1, <1>2, <2>1, Iteration
    <2> QED
        BY <2>2 DEF Iterates
<1> HIDE DEF T, start, N
<1>5. \A n \in 1..N : f[n] = Step(n, f[n - 1])
    <2> TAKE n \in 1..N
    <2>1. n \in Nat /\ f[n - 1] \in T
        BY <1>1, <1>4
    <2> QED
        BY <1>4, <2>1
<1> HIDE DEF Step, G
<1>6. f = Steps(f)
    <2>1. f = [n \in 0..N |-> f[n]]
        BY <1>4
    <2>2. \A n \in 0..N : n = 0 \/ n \in 1..N
        BY <1>1
    <2>3. \A n \in 0..N : f[n] = IF n = 0 THEN start ELSE Step(n, f[n - 1])
        BY <1>4, <1>5, <2>2
    <2>4. Steps(f) = [n \in 0..N |-> IF n = 0 THEN start ELSE Step(n, f[n - 1])]
        OBVIOUS
    <2> QED
        BY <2>1, <2>3, <2>4
<1>7. line = Steps(line)
    <2> HIDE DEF Steps
    <2> QED
        BY <1>6
<1> HIDE DEF line
<1>8. line[0] = start /\ \A n \in 1..N : line[n] = Step(n, line[n - 1])
    <2>1. line = [n \in 0..N |-> IF n = 0 THEN start ELSE Step(n, line[n - 1])]
        BY <1>7
    <2> HIDE DEF Steps
    <2>2. 0 \in 0..N /\ \A n \in 1..N : n \in 0..N /\ n # 0
        BY <1>1
    <2> QED
        BY <2>1, <2>2
<1> DEFINE S == {n \in 0..N : line[n] \in T}
<1>9. 0 \in S
    BY <1>1, <1>2, <1>8
<1>10. ASSUME NEW n \in 0..N, n \in S /\ n < N PROVE n + 1 \in S
    <2>1. n + 1 \in 1..N /\ (n + 1) - 1 = n /\ line[n] \in T
        BY <1>1, <1>10
    <2>2. line[n + 1] \in T
        BY <1>3, <1>8, <2>1
    <2> QED
        BY <2>1, <2>2
<1>11. 0..N \subseteq S
    <2> HIDE DEF S
    <2> QED
        BY <1>1, <1>9, <1>10, Counting
<1>12. \A n \in 1..N : line[n].row \in Seq(V)
    <2>1. \A n \in 1..N : n \in 0..N
        BY <1>1
    <2>2. \A n \in 1..N : line[n] \in T
        BY <1>11, <2>1
    <2> HIDE DEF V
    <2> QED
        BY <2>2 DEF T, GridLines
<1>13. DOMAIN grid = 1..N /\ grid = [n \in 1..N |-> grid[n]] /\ \A n \in 1..N : grid[n] \in Seq(V)
    BY <1>20, <1>1, <1>12
<1> HIDE DEF grid, V
<1>14. IsList(grid) /\ Len(grid) = N
    BY <1>1, <1>13, ListMade
<1> QED
    BY <1>13, <1>14, ListIn DEF IsLists, grid, N

LEMMA HtmlTable ==
    ASSUME NEW tables, IsHtml(tables)
    PROVE  TableOrNone(ParseHtml(tables))
<1> DEFINE table == Longest(tables)
           grid == TableToGrid(table)
           C == UNION {ToSet(table[j]) : j \in DOMAIN table}
<1>1. ParseHtml(tables) = IF tables = <<>> THEN NoTable ELSE IF table = <<>> THEN NoTable
                          ELSE FromGrid(Headers(grid[1]), Tail(grid))
    BY DEF ParseHtml
<1>2. CASE tables = <<>>
    BY <1>1, <1>2 DEF TableOrNone
<1>3. CASE tables # <<>>
    <2>1. PICK i \in DOMAIN tables : table = tables[i]
        BY <1>3, LongestIn DEF IsHtml, ToSet
    <2>2. IsLists(table) /\ \A j \in DOMAIN table : \A c \in ToSet(table[j]) :
              c.colspan \in Nat \ {0} /\ c.rowspan \in Nat \ {0}
        BY <2>1 DEF IsHtml
    <2> HIDE DEF table
    <2>3. AreCells(C)
        BY <2>2 DEF AreCells
    <2>4. table \in Seq(Seq(C))
        <3>1. \A j \in DOMAIN table : table[j] \in Seq(ToSet(table[j])) /\ ToSet(table[j]) \subseteq C
            BY <2>2 DEF IsLists, IsList
        <3> HIDE DEF C
        <3>2. \A j \in DOMAIN table : table[j] \in Seq(C)
            BY <3>1
        <3>3. table = [j \in 1..Len(table) |-> table[j]] /\ Len(table) \in Nat /\ DOMAIN table = 1..Len(table)
            BY <2>2, ListIs DEF IsLists
        <3>4. table \in [1..Len(table) -> Seq(C)]
            BY <3>2, <3>3
        <3> QED
            BY <3>3, <3>4, SMT
    <2> HIDE DEF C
    <2>5. IsLists(grid) /\ Len(grid) = Len(table)
        BY <2>3, <2>4, GridOfLists
    <2> HIDE DEF grid
    <2>6. CASE table = <<>>
        BY <1>1, <1>3, <2>6 DEF TableOrNone
    <2>7. CASE table # <<>>
        <3>1. Len(table) # 0 /\ Len(grid) # 0 /\ grid # <<>>
            BY <2>4, <2>5, <2>7
        <3>2. IsList(grid) /\ IsList(grid[1])
            BY <2>5, <3>1, ListIs DEF IsLists
        <3>3. IsList(Headers(grid[1])) /\ IsList(Tail(grid))
            BY <3>1, <3>2, HeadersList, TailOfList
        <3> QED
            BY <1>1, <1>3, <2>7, <3>3, GridTable
    <2> QED
        BY <2>6, <2>7
<1> QED
    BY <1>2, <1>3

LEMMA ListUpTo ==
    ASSUME NEW n \in Int, NEW s, s = [i \in 1..n |-> s[i]]
    PROVE  IsList(s)
<1> DEFINE k == IF n > 0 THEN n ELSE 0
<1>1. k \in Nat /\ s = [i \in 1..k |-> s[i]]
    OBVIOUS
<1> HIDE DEF k
<1> QED
    BY <1>1, ListMade

LEMMA LinesLists ==
    ASSUME NEW text, IsList(text)
    PROVE  IsLists(Lines(text))
<1> DEFINE cuts == {i \in DOMAIN text : text[i] = "lf"}
           lines == Pieces(text, cuts)
           result == Lines(text)
<1>1. /\ result = [k \in DOMAIN lines |-> result[k]]
      /\ \A k \in DOMAIN lines : result[k] = Front(lines[k]) \/ result[k] = lines[k]
    BY DEF Lines
<1> HIDE DEF cuts
<1>2. IsLists(lines)
    BY PiecesLists
<1> HIDE DEF lines, result
<1>3. ASSUME NEW k \in DOMAIN lines PROVE IsList(result[k])
    <2>1. IsList(lines[k]) /\ Len(lines[k]) - 1 \in Int
        BY <1>2, ListIs DEF IsLists
    <2>2. IsList(Front(lines[k]))
        BY <2>1, PartOfList DEF Front
    <2> QED
        BY <1>1, <2>1, <2>2
<1>4. IsList(result) /\ DOMAIN result = DOMAIN lines
    BY <1>1, <1>2, ListOver DEF IsLists
<1> QED
    BY <1>3, <1>4 DEF IsLists, result

LEMMA MarkdownRow ==
    ASSUME NEW line, IsList(line)
    PROVE  IsList(SplitMarkdownRow(line))
<1> DEFINE s == Trim(line)
           row == WithoutEnds(line)
           cells == Pieces(row, Pipes(row))
           result == SplitMarkdownRow(line)
<1>1. IsList(s)
    BY TrimList
<1>2. \/ row = s \/ row = Front(s)
      \/ s # <<>> /\ (row = Tail(s) \/ row = Front(Tail(s)))
    BY Zenon DEF WithoutEnds
<1> HIDE DEF s, row
<1>3. ASSUME NEW t, IsList(t) PROVE IsList(Front(t))
    <2>1. Len(t) - 1 \in Int
        BY <1>3, ListIs
    <2> QED
        BY <2>1, PartOfList DEF Front
<1>4. IsList(row)
    BY <1>1, <1>2, <1>3, TailOfList
<1>5. IsList(cells)
    BY <1>4, PiecesLists DEF IsLists
<1>6. result = [k \in DOMAIN cells |-> result[k]]
    BY DEF SplitMarkdownRow, row
<1> HIDE DEF cells, result
<1>7. IsList(result)
    BY <1>5, <1>6, ListOver
<1> QED
    BY <1>7 DEF result

LEMMA MarkdownIsTable ==
    ASSUME NEW text, IsList(text)
    PROVE  TableOrNone(ParseMarkdown(text))
<1> DEFINE lines == Lines(text)
           headers == HeaderLines(lines)
           header == Min(headers)
           ends == {i \in (header + 2)..Len(lines) : Blank(lines[i]) \/ ~HasPipe(lines[i])} \cup {Len(lines) + 1}
           rows == MarkdownRows(lines, header)
           n == Min(ends) - header - 2
<1>1. ParseMarkdown(text) = MarkdownTable(lines, headers)
    BY DEF ParseMarkdown
<1>2. IsLists(lines)
    BY LinesLists
<1> HIDE DEF lines
<1>3. Len(lines) \in Nat /\ DOMAIN lines = 1..Len(lines)
    BY <1>2, ListIs DEF IsLists
<1>4. headers \subseteq 1..(Len(lines) - 1)
    BY DEF HeaderLines
<1> HIDE DEF headers
<1>5. CASE headers = {}
    BY <1>1, <1>5 DEF MarkdownTable, TableOrNone
<1>6. CASE headers # {}
    <2>1. header \in headers
        <3>1. headers \subseteq Nat
            BY <1>3, <1>4
        <3> QED
            BY <1>6, <3>1, MinIn
    <2> DEFINE last == Len(lines)
    <2>2. header \in Nat /\ header \in DOMAIN lines
        <3>1. last \in Nat /\ DOMAIN lines = 1..last /\ headers \subseteq 1..(last - 1)
            BY <1>3, <1>4
        <3>2. header \in 1..(last - 1)
            BY <2>1, <3>1
        <3> HIDE DEF last, header
        <3>3. header \in Nat /\ header \in 1..last
            BY <3>1, <3>2
        <3> QED
            BY <3>1, <3>3
    <2>3. ParseMarkdown(text) = FromGrid(Headers(SplitMarkdownRow(lines[header])), rows)
        BY <1>1, <1>6 DEF MarkdownTable
    <2>4. rows = [k \in 1..n |-> rows[k]]
        BY DEF MarkdownRows
    <2> HIDE DEF header
    <2>5. ends \subseteq Nat /\ ends # {}
        <3>1. \A i \in (header + 2)..Len(lines) : i \in Nat
            BY <1>3, <2>2
        <3> QED
            BY <1>3, <3>1
    <2> HIDE DEF ends, rows
    <2>6. Min(ends) \in Nat
        BY <2>5, MinIn
    <2>7. n \in Int
        BY <2>2, <2>6
    <2> HIDE DEF n
    <2>8. IsList(rows)
        BY <2>4, <2>7, ListUpTo
    <2>9. IsList(Headers(SplitMarkdownRow(lines[header])))
        BY <1>2, <2>2, MarkdownRow, HeadersList DEF IsLists
    <2> QED
        BY <2>3, <2>8, <2>9, GridTable
<1> QED
    BY <1>5, <1>6

LEMMA PastedTable ==
    ASSUME NEW text, IsList(text)
    PROVE  TableOrNone(ParsePasted(text))
    BY MarkdownIsTable, DelimitedTable DEF ParsePasted, ParseCsv

LEMMA AoaTable ==
    ASSUME NEW grid, IsLists(grid)
    PROVE  TableOrNone(AoaToParsed(grid))
<1> DEFINE filled == {i \in DOMAIN grid : \E j \in DOMAIN grid[i] : ~BlankCell(grid[i][j])}
           Cell(c) == IF BlankCell(c) THEN <<>> ELSE c
           clean == [i \in DOMAIN grid |-> [j \in DOMAIN grid[i] |-> Cell(grid[i][j])]]
           first == Min(filled)
           rest == SubSeq(clean, first + 1, Len(clean))
<1>1. AoaToParsed(grid) = IF filled = {} THEN NoTable ELSE FromGrid(Headers(clean[first]), rest)
    BY DEF AoaToParsed
<1>2. IsList(grid) /\ Len(grid) \in Nat /\ DOMAIN grid = 1..Len(grid)
    BY ListIs DEF IsLists
<1>3. filled \subseteq DOMAIN grid
    OBVIOUS
<1> HIDE DEF filled
<1>4. CASE filled = {}
    BY <1>1, <1>4 DEF TableOrNone
<1>5. CASE filled # {}
    <2>1. first \in DOMAIN grid /\ first + 1 \in Int
        <3>1. filled \subseteq Nat
            BY <1>2, <1>3
        <3>2. first \in filled /\ first \in Nat
            BY <1>5, <3>1, MinIn
        <3> QED
            BY <1>3, <3>2
    <2> HIDE DEF first, Cell
    <2>2. clean[first] = [j \in DOMAIN grid[first] |-> clean[first][j]] /\ IsList(grid[first])
        BY <2>1 DEF IsLists
    <2>3. clean = [i \in DOMAIN grid |-> clean[i]]
        OBVIOUS
    <2> HIDE DEF clean
    <2>4. IsList(clean[first])
        BY <2>2, ListOver
    <2>5. Len(clean) \in Int
        BY <1>2, <2>3, ListOver
    <2>6. IsList(rest)
        BY <2>1, <2>5, PartOfList
    <2> QED
        BY <1>1, <1>5, <2>4, <2>6, HeadersList, GridTable
<1> QED
    BY <1>4, <1>5

-----------------------------------------------------------------------------
(* What a file is parsed to                                                *)

\* Sheets with a table each.
AreSheets(sheets) == IsList(sheets) /\ \A k \in DOMAIN sheets : IsTable(sheets[k].parsed)

LEMMA WithDataSheets ==
    ASSUME NEW sheets, IsList(sheets), \A k \in DOMAIN sheets : TableOrNone(sheets[k].parsed)
    PROVE  AreSheets(WithData(sheets))
<1> DEFINE at == {i \in DOMAIN sheets : sheets[i].parsed # NoTable}
           some == Only(sheets, at)
<1>1. WithData(sheets) = some
    BY DEF WithData
<1>2. \A i \in DOMAIN sheets : i \in at => IsTable(sheets[i].parsed)
    BY DEF TableOrNone
<1> HIDE DEF at
<1>3. IsList(some) /\ \A k \in DOMAIN some : \E i \in DOMAIN sheets : i \in at /\ some[k] = sheets[i]
    BY OnlyList
<1> HIDE DEF some
<1> QED
    BY <1>1, <1>2, <1>3 DEF AreSheets

LEMMA ExcelSheets ==
    ASSUME NEW book, IsList(book), \A k \in DOMAIN book : IsLists(book[k].grid)
    PROVE  AreSheets(ParseExcel(book))
<1> DEFINE sheets == [k \in DOMAIN book |-> [name |-> book[k].name, parsed |-> AoaToParsed(book[k].grid)]]
<1>1. ParseExcel(book) = WithData(sheets)
    BY DEF ParseExcel
<1>2. sheets = [k \in DOMAIN book |-> sheets[k]] /\ DOMAIN sheets = DOMAIN book
    OBVIOUS
<1>3. \A k \in DOMAIN sheets : TableOrNone(sheets[k].parsed)
    BY AoaTable
<1> HIDE DEF sheets
<1>4. IsList(sheets)
    BY <1>2, ListOver
<1> QED
    BY <1>1, <1>3, <1>4, WithDataSheets

LEMMA OneSheet ==
    ASSUME NEW table, TableOrNone(table)
    PROVE  AreSheets(One(table))
<1> DEFINE sheet == [name |-> NONE, parsed |-> table]
<1>1. CASE table = NoTable
    BY <1>1, EmptyList DEF One, AreSheets
<1>2. CASE table # NoTable
    <2>1. One(table) = <<sheet>>
        BY <1>2 DEF One
    <2>2. sheet.parsed = table
        OBVIOUS
    <2> HIDE DEF sheet
    <2>3. <<sheet>> \in Seq({sheet}) /\ DOMAIN <<sheet>> = {1} /\ <<sheet>>[1] = sheet
        OBVIOUS
    <2> QED
        BY <1>2, <2>1, <2>2, <2>3, ListIn DEF AreSheets, TableOrNone
<1> QED
    BY <1>1, <1>2


-----------------------------------------------------------------------------
(* What a dump is parsed to                                                *)

\* A statement is a list of tokens, and has some.
LEMMA SqlStatements ==
    ASSUME NEW text, IsList(text)
    PROVE  LET statements == SplitSqlStatements(text) IN
           IsLists(statements) /\ \A k \in DOMAIN statements : statements[k] # <<>>
<1> DEFINE code == SqlCode(text)
           comments == {i \in DOMAIN text : Scan(text)[i] = "comment"} \cup CodeAt(text, "--")
           rest == DOMAIN text \ comments
           pieces == Pieces(code, StatementEnds(code))
           trimmed == [k \in DOMAIN pieces |-> Trim(pieces[k])]
           filled == {k \in DOMAIN trimmed : trimmed[k] # <<>>}
           statements == SplitSqlStatements(text)
<1>1. code = Only(text, rest)
    BY Zenon DEF SqlCode
<1>2. statements = Only(trimmed, filled)
    BY DEF SplitSqlStatements
<1> HIDE DEF rest
<1>3. IsList(code)
    BY <1>1, OnlyList
<1> HIDE DEF code
<1>4. IsLists(pieces)
    BY <1>3, PiecesLists
<1>5. trimmed = [k \in DOMAIN pieces |-> trimmed[k]] /\ \A k \in DOMAIN trimmed : IsList(trimmed[k])
    BY <1>4, TrimList DEF IsLists
<1> HIDE DEF pieces, trimmed
<1>6. IsList(trimmed)
    BY <1>4, <1>5, ListOver DEF IsLists
<1> HIDE DEF filled, statements
<1>7. IsList(statements) /\ \A k \in DOMAIN statements : \E i \in DOMAIN trimmed : i \in filled /\ statements[k] = trimmed[i]
    BY <1>2, <1>6, OnlyList
<1>8. \A i \in DOMAIN trimmed : i \in filled => trimmed[i] # <<>>
    BY DEF filled
<1>9. IsLists(statements) /\ \A k \in DOMAIN statements : statements[k] # <<>>
    BY <1>5, <1>7, <1>8 DEF IsLists
<1> QED
    BY <1>9 DEF statements

\* The tuples of a text are lists of cells.
LEMMA TuplesLists ==
    ASSUME NEW text, IsList(text)
    PROVE  IsLists(ParseValueTuples(text))
<1> DEFINE starts == InOrder(text, TupleStarts(text))
           tuples == [k \in DOMAIN starts |-> TupleAt(text, starts[k])]
<1>1. ParseValueTuples(text) = tuples
    BY DEF ParseValueTuples
<1>2. ASSUME NEW i \in DOMAIN text, i \in TupleStarts(text)
      PROVE  IsList(TupleAt(text, i))
    <2> DEFINE closes == {j \in CodeAt(text, ")") : j > i}
               close == Min(closes)
               values == SubSeq(text, i + 1, close - 1)
               cuts == CodeAt(values, ",")
               cells == Pieces(values, cuts)
               tuple == [k \in DOMAIN cells |-> DecodeSqlValue(cells[k])]
    <2>1. TupleAt(text, i) = tuple
        BY Zenon DEF TupleAt
    <2>2. closes # {} /\ closes \subseteq DOMAIN text
        <3> DEFINE ends == CodeAt(text, ")")
        <3>1. \E j \in ends : j > i
            BY <1>2, Zenon DEF TupleStarts
        <3>2. ends \subseteq DOMAIN text
            BY Zenon DEF CodeAt
        <3>3. closes = {j \in ends : j > i}
            BY Zenon
        <3> HIDE DEF ends, closes
        <3> QED
            BY <3>1, <3>2, <3>3
    <2> HIDE DEF closes
    <2>3. i + 1 \in Int /\ close - 1 \in Int
        <3>1. closes \subseteq Nat /\ i \in Nat
            BY <2>2, ListIs
        <3> QED
            BY <2>2, <3>1, MinIn
    <2> HIDE DEF close
    <2>4. IsList(values)
        BY <2>3, PartOfList
    <2> HIDE DEF values, cuts
    <2>5. IsList(cells)
        BY <2>4, PiecesLists DEF IsLists
    <2> HIDE DEF cells
    <2>6. tuple = [k \in DOMAIN cells |-> tuple[k]]
        OBVIOUS
    <2> HIDE DEF tuple
    <2> QED
        BY <2>1, <2>5, <2>6, ListOver
<1>3. starts \in Seq(DOMAIN text \cap TupleStarts(text)) /\ IsList(starts)
    BY Positions
<1>4. \A k \in DOMAIN starts : starts[k] \in DOMAIN text /\ starts[k] \in TupleStarts(text)
    <2> HIDE DEF starts
    <2> QED
        BY <1>3
<1> HIDE DEF starts
<1>5. tuples = [k \in DOMAIN starts |-> tuples[k]] /\ \A k \in DOMAIN starts : IsList(tuples[k])
    BY <1>2, <1>4
<1>6. DOMAIN tuples = DOMAIN starts
    OBVIOUS
<1> HIDE DEF tuples
<1>7. IsList(tuples)
    BY <1>3, <1>5, ListOver
<1> QED
    BY <1>1, <1>5, <1>6, <1>7 DEF IsLists

\* What the first tokens of statements are read as.
AreHeads(head) == IsList(head) /\ \A k \in DOMAIN head : IsList(head[k].columns)

LEMMA InsertColumnsList ==
    ASSUME NEW head, AreHeads(head), NEW k \in DOMAIN head, NEW width \in Nat
    PROVE  IsList(InsertColumns(head, k, width))
<1> DEFINE created == {j \in 1..(k - 1) : head[j].verb = "create" /\ head[j].table = head[k].table}
           made == [i \in 1..width |-> <<"col_" \o ToString(i)>>]
<1>1. \/ InsertColumns(head, k, width) = head[k].columns
      \/ created # {} /\ InsertColumns(head, k, width) = head[Max(created)].columns
      \/ InsertColumns(head, k, width) = made
    BY DEF InsertColumns
<1>2. made = [i \in 1..width |-> made[i]]
    OBVIOUS
<1> HIDE DEF made
<1>3. IsList(made)
    BY <1>2, ListMade
<1>4. Len(head) \in Nat /\ DOMAIN head = 1..Len(head)
    BY ListIs DEF AreHeads
<1>5. created \subseteq DOMAIN head /\ created \subseteq 0..Len(head)
    BY <1>4
<1> HIDE DEF created
<1>6. created # {} => Max(created) \in DOMAIN head
    BY <1>4, <1>5, MaxIn
<1> QED
    BY <1>1, <1>3, <1>6 DEF AreHeads

LEMMA InsertObjectsLists ==
    ASSUME NEW head, AreHeads(head), NEW k \in DOMAIN head, NEW tuples, IsLists(tuples)
    PROVE  IsLists(InsertObjects(head, k, tuples))
<1> DEFINE Columns(t) == InsertColumns(head, k, Len(tuples[t]))
           objects == [t \in DOMAIN tuples |-> Named(Columns(t), tuples[t])]
<1>1. InsertObjects(head, k, tuples) = objects
    BY DEF InsertObjects
<1>2. ASSUME NEW t \in DOMAIN tuples PROVE IsList(objects[t])
    <2>1. Len(tuples[t]) \in Nat
        BY ListIs DEF IsLists
    <2>2. IsList(Columns(t))
        BY <2>1, InsertColumnsList
    <2>3. objects[t] = Named(Columns(t), tuples[t])
        OBVIOUS
    <2> DEFINE columns == Columns(t)
    <2>4. objects[t] = [i \in DOMAIN columns |-> objects[t][i]]
        BY <2>3 DEF Named
    <2> HIDE DEF columns, objects
    <2> QED
        BY <2>2, <2>4, ListOver DEF columns
<1>3. objects = [t \in DOMAIN tuples |-> objects[t]] /\ DOMAIN objects = DOMAIN tuples
    OBVIOUS
<1> HIDE DEF objects
<1>4. IsList(objects)
    BY <1>3, ListOver DEF IsLists
<1> QED
    BY <1>1, <1>2, <1>3, <1>4 DEF IsLists

LEMMA InsertedLists ==
    ASSUME NEW table, NEW statements, IsLists(statements), \A k \in DOMAIN statements : statements[k] # <<>>,
           NEW head, AreHeads(head), DOMAIN head = DOMAIN statements
    PROVE  IsLists(InsertedRows(table, statements, head))
<1> DEFINE Rows(k) == InsertObjects(head, k, ParseValueTuples(Tail(statements[k])))
           parts == [k \in DOMAIN head |-> IF head[k].verb = "insert" /\ head[k].table = table THEN Rows(k) ELSE <<>>]
           rows == InsertedRows(table, statements, head)
<1>1. rows = FlattenSeq(parts)
    BY DEF InsertedRows
<1>2. ASSUME NEW k \in DOMAIN head PROVE IsLists(parts[k])
    <2>1. IsList(statements[k]) /\ statements[k] # <<>>
        BY DEF IsLists
    <2>2. IsLists(ParseValueTuples(Tail(statements[k])))
        BY <2>1, TailOfList, TuplesLists
    <2>3. IsLists(Rows(k))
        BY <2>2, InsertObjectsLists
    <2>4. IsLists(<<>>)
        BY EmptyList DEF IsLists
    <2> QED
        BY <2>3, <2>4
<1>3. parts = [k \in DOMAIN head |-> parts[k]] /\ DOMAIN parts = DOMAIN head
    OBVIOUS
<1> HIDE DEF parts
<1>4. IsLists(parts)
    BY <1>2, <1>3, ListOver DEF IsLists, AreHeads
<1> HIDE DEF rows
<1>5. IsList(rows) /\ \A x \in ToSet(rows) : \E k \in DOMAIN parts : x \in ToSet(parts[k])
    BY <1>1, <1>4, Flattened
<1>6. \A k \in DOMAIN parts : \A x \in ToSet(parts[k]) : IsList(x)
    BY <1>2, <1>3 DEF IsLists, ToSet
<1>7. IsLists(rows)
    BY <1>5, <1>6, ListIs DEF IsLists
<1> QED
    BY <1>7 DEF rows

LEMMA SqlSheets ==
    ASSUME NEW text, IsList(text), NEW heads, \A h \in DOMAIN heads : IsList(heads[h].columns)
    PROVE  AreSheets(ParseSqlDump(text, heads))
<1> DEFINE all == SplitSqlStatements(text)
           at == {k \in DOMAIN all : all[k][1] \in DOMAIN heads}
           statements == Only(all, at)
           head == [k \in DOMAIN statements |-> heads[statements[k][1]]]
           inserts == Only(head, {k \in DOMAIN head : head[k].verb = "insert"})
           names == [k \in DOMAIN inserts |-> inserts[k].table]
           tables == Distinct(names)
           sheets == [t \in DOMAIN tables |->
               [name |-> tables[t], parsed |-> FromRecords(InsertedRows(tables[t], statements, head))]]
<1>1. ParseSqlDump(text, heads) = WithData(sheets)
    BY DEF ParseSqlDump, Headed, InsertedTables
<1>2. IsLists(all) /\ \A k \in DOMAIN all : all[k] # <<>>
    BY SqlStatements
<1>3. \A k \in DOMAIN all : k \in at => all[k][1] \in DOMAIN heads
    OBVIOUS
<1> HIDE DEF all, at
<1>4. IsList(statements) /\ \A k \in DOMAIN statements : \E i \in DOMAIN all : i \in at /\ statements[k] = all[i]
    BY <1>2, OnlyList DEF IsLists
<1> HIDE DEF statements
<1>5. /\ IsLists(statements)
      /\ \A k \in DOMAIN statements : statements[k] # <<>> /\ statements[k][1] \in DOMAIN heads
    BY <1>2, <1>3, <1>4 DEF IsLists
<1>6. /\ head = [k \in DOMAIN statements |-> head[k]] /\ DOMAIN head = DOMAIN statements
      /\ \A k \in DOMAIN head : head[k] = heads[statements[k][1]]
    OBVIOUS
<1> HIDE DEF head
<1>7. AreHeads(head)
    BY <1>4, <1>5, <1>6, ListOver DEF AreHeads
<1>8. IsList(inserts)
    BY <1>7, OnlyList DEF AreHeads
<1> HIDE DEF inserts
<1>9. IsList(names)
    <2>1. names = [k \in DOMAIN inserts |-> names[k]]
        OBVIOUS
    <2> HIDE DEF names
    <2> QED
        BY <1>8, <2>1, ListOver
<1> HIDE DEF names
<1>10. IsList(tables)
    BY <1>9, DistinctList
<1> HIDE DEF tables
<1>11. ASSUME NEW t \in DOMAIN tables PROVE TableOrNone(sheets[t].parsed)
    BY <1>5, <1>6, <1>7, InsertedLists, RecordsTable
<1>12. sheets = [t \in DOMAIN tables |-> sheets[t]] /\ DOMAIN sheets = DOMAIN tables
    OBVIOUS
<1> HIDE DEF sheets
<1>13. IsList(sheets)
    BY <1>10, <1>12, ListOver
<1> QED
    BY <1>1, <1>11, <1>12, <1>13, WithDataSheets

\* Whatever a file holds, each sheet that is read from it has a table.
LEMMA ParsedSheets ==
    ASSUME NEW file, IsFile(file)
    PROVE  AreSheets(Parsed(file))
<1> DEFINE c == file.content
<1>1. CASE file.format \in {"CSV", "TSV", "Markdown", "Pasted"}
    <2>1. IsList(c)
        BY <1>1 DEF IsFile
    <2> QED
        BY <1>1, <2>1, DelimitedTable, MarkdownIsTable, PastedTable, OneSheet DEF Parsed, ParseCsv
<1>2. CASE file.format = "JSON"
    BY <1>2, JsonTable, OneSheet DEF Parsed, IsFile
<1>3. CASE file.format = "XML"
    BY <1>3, XmlTable, OneSheet DEF Parsed, IsFile
<1>4. CASE file.format = "HTML"
    BY <1>4, HtmlTable, OneSheet DEF Parsed, IsFile
<1>5. CASE file.format = "Excel"
    BY <1>5, ExcelSheets DEF Parsed, IsFile
<1>6. CASE file.format = "SQL"
    BY <1>6, SqlSheets DEF Parsed, IsFile
<1> QED
    BY <1>1, <1>2, <1>3, <1>4, <1>5, <1>6 DEF IsFile

-----------------------------------------------------------------------------
(* The inductive invariant of the import                                   *)

\* The wizard is shown for a sheet of what is read from a file.
UploadRead ==
    /\ IsFile(upload.file) /\ upload.sheets = Parsed(upload.file)
    /\ upload.active \in DOMAIN upload.sheets
    /\ upload = [file |-> upload.file, sheets |-> upload.sheets, active |-> upload.active]

IsWizard(w) ==
    w = [id |-> w.id, key |-> w.key, on |-> w.on, moved |-> w.moved, step |-> w.step,
         newTable |-> w.newTable, newColumns |-> w.newColumns,
         table |-> w.table, picked |-> w.picked, mapping |-> w.mapping, keys |-> w.keys,
         added |-> w.added, text |-> w.text, filter |-> w.filter, applying |-> w.applying,
         importing |-> w.importing]
IsColumn(c) == c = [csv |-> c.csv, db |-> c.db, type |-> c.type]

\* What is filled in in a wizard: finite lists, as many new columns as headers.
FilledIn(w) ==
    /\ w.moved \in BOOLEAN
    /\ IsList(w.newColumns) /\ \A i \in DOMAIN w.newColumns : IsColumn(w.newColumns[i])
    /\ IsFiniteSet(DOMAIN w.mapping) /\ IsFiniteSet(DOMAIN w.added)
\* The columns that are mapped are those of the table picked.
MappedInPicked(w) ==
    w.picked # <<>> => \A n \in DOMAIN w.mapping : \E d \in w.picked[2][w.table] : d.name = n
\* Unless the wizard was kept for another table, it maps columns of the one
\* that is shown.
FitsTable(w, table) ==
    ~w.moved =>
        /\ w.on = table
        /\ DOMAIN w.newColumns = DOMAIN table.headers
        /\ \A i \in DOMAIN w.newColumns : w.newColumns[i].csv = table.headers[i]
        /\ \A n \in DOMAIN w.mapping : w.mapping[n] = NONE \/ w.mapping[n] \in ToSet(table.headers)
WizardFits(w, table) == IsWizard(w) /\ FilledIn(w) /\ MappedInPicked(w) /\ FitsTable(w, table)

WizardInv ==
    /\ reading \subseteq Files \cup OnlyRead
    /\ upload # NONE \/ wizard # NONE => UploadRead
    /\ wizard # NONE => WizardFits(wizard, Table0)

\* Tables have finitely many columns.
FiniteTables(tables) == \A t \in DOMAIN tables : IsFiniteSet(tables[t])
ServerInv ==
    /\ connection \in Connections
    /\ DOMAIN schema = Connections /\ \A c \in Connections : FiniteTables(schema[c])
    /\ DOMAIN targets = Connections
    /\ \A c \in Connections : targets[c] = NONE \/ FiniteTables(targets[c])

\* The rows sent are those of a sheet of the file that pass the filter.
RowsAsShown(m) ==
    \E sheet \in ToSet(Parsed(m.file)) :
        /\ sheet.name = m.sheet
        /\ m.rows = IF m.filter = NONE THEN sheet.parsed.rows ELSE ApplyRowFilter(sheet.parsed.rows, m.filter)
\* SentFitsShown, of one import.
SentFits(m) ==
    LET names == {c.db : c \in m.columns} IN
    m.asShown =>
        /\ Cardinality(names) = Cardinality(m.columns) /\ m.columns # {}
        /\ \A c \in m.columns, r \in DOMAIN m.rows : c.csv \in DOMAIN m.rows[r]
        /\ m.keys \subseteq names
        /\ m.mode = "existing" =>
            LET table == m.shown[m.table] IN
            /\ \A c \in m.columns : c.add \/ \E d \in table : d.name = c.db
            /\ \A d \in table : d.required => d.name \in names
IsImport(m) ==
    /\ m = [wizard |-> m.wizard, file |-> m.file, sheet |-> m.sheet, connection |-> m.connection,
            mode |-> m.mode, table |-> m.table, columns |-> m.columns, keys |-> m.keys,
            shown |-> m.shown, rows |-> m.rows, filter |-> m.filter, asShown |-> m.asShown,
            status |-> m.status]
    /\ m.connection \in Connections /\ IsFiniteSet(m.columns)
    /\ RowsAsShown(m) /\ SentFits(m)
ImportsInv == IsList(imports) /\ \A i \in DOMAIN imports : IsImport(imports[i])

\* Each import that succeeded is recorded once, with what it sent.
RecordsInv ==
    /\ IsList(records)
    /\ \A k \in DOMAIN records : LET i == records[k].of IN
        /\ i \in DOMAIN imports /\ imports[i].status = "done"
        /\ records[k].file = imports[i].file /\ records[k].sheet = imports[i].sheet
        /\ records[k].filter = imports[i].filter
    /\ \A i \in DOMAIN imports : imports[i].status = "done" => \E k \in DOMAIN records : records[k].of = i
    /\ \A k, l \in DOMAIN records : records[k].of = records[l].of => k = l

ImportInv == WizardInv /\ ServerInv /\ ImportsInv /\ RecordsInv

\* The values of a function on a finite set.
LEMMA Imaged ==
    ASSUME NEW S, IsFiniteSet(S), NEW f, f = [x \in S |-> f[x]], NEW T, T = {f[x] : x \in S}
    PROVE  /\ IsFiniteSet(T) /\ Cardinality(T) \in Nat /\ Cardinality(S) \in Nat
           /\ Cardinality(T) <= Cardinality(S)
           /\ Cardinality(T) = Cardinality(S) <=> \A x, y \in S : f[x] = f[y] => x = y
<1>1. f \in Surjection(S, T)
    BY DEF Surjection
<1>2. f \in Injection(S, T) <=> \A x, y \in S : f[x] = f[y] => x = y
    BY DEF Injection, IsInjective
<1> QED
    BY <1>1, <1>2, FS_Surjection, FS_CardinalityType

LEMMA ListFinite ==
    ASSUME NEW s, IsList(s)
    PROVE  IsFiniteSet(DOMAIN s) /\ IsFiniteSet(ToSet(s)) /\ Cardinality(DOMAIN s) = Len(s)
<1>1. Len(s) \in Nat /\ DOMAIN s = 1..Len(s) /\ s = [i \in DOMAIN s |-> s[i]]
    BY ListIs
<1>2. IsFiniteSet(DOMAIN s) /\ Cardinality(DOMAIN s) = Len(s)
    <2> DEFINE n == Len(s)
    <2>1. n \in Nat /\ DOMAIN s = 1..n
        BY <1>1
    <2> HIDE DEF n
    <2>2. IsFiniteSet(1..n) /\ Cardinality(1..n) = n
        BY <2>1, FS_Interval
    <2> QED
        BY <2>1, <2>2 DEF n
<1>3. ToSet(s) = {s[i] : i \in DOMAIN s}
    BY DEF ToSet
<1> QED
    BY <1>1, <1>2, <1>3, Imaged

\* One more at the end.
OneMore(s, x, t) ==
    /\ IsList(t) /\ DOMAIN t = DOMAIN s \cup {Len(s) + 1} /\ Len(s) + 1 \notin DOMAIN s
    /\ t[Len(s) + 1] = x /\ \A i \in DOMAIN s : t[i] = s[i]

LEMMA AppendList ==
    ASSUME NEW s, IsList(s), NEW x
    PROVE  OneMore(s, x, Append(s, x))
<1> DEFINE t == Append(s, x)
<1> SUFFICES OneMore(s, x, t)
    OBVIOUS
<1> DEFINE U == ToSet(s) \cup {x}
<1>1. s \in Seq(U) /\ x \in U
    BY DEF IsList
<1> HIDE DEF U
<1>2. t \in Seq(U) /\ Len(t) = Len(s) + 1 /\ t[Len(s) + 1] = x /\ \A i \in 1..Len(s) : t[i] = s[i]
    BY <1>1
<1>3. IsList(t)
    BY <1>2, ListIn
<1>4. Len(s) \in Nat /\ DOMAIN s = 1..Len(s) /\ DOMAIN t = 1..(Len(s) + 1)
    BY <1>1, <1>2
<1> QED
    BY <1>2, <1>3, <1>4 DEF OneMore

LEMMA FilteredRows ==
    ASSUME NEW rows, IsList(rows), NEW filter
    PROVE  LET some == ApplyRowFilter(rows, filter) IN
           \A r \in DOMAIN some : \E q \in DOMAIN rows : some[r] = rows[q]
<1>1. ApplyRowFilter(rows, filter) = rows \/ \E at : ApplyRowFilter(rows, filter) = Only(rows, at)
    BY DEF ApplyRowFilter
<1> QED
    BY <1>1, OnlyList

-----------------------------------------------------------------------------
(* The wizard                                                              *)

LEMMA InferredColumns ==
    ASSUME NEW table, IsTable(table)
    PROVE  LET columns == Inferred(table) IN
           /\ IsList(columns) /\ DOMAIN columns = DOMAIN table.headers
           /\ \A i \in DOMAIN columns : IsColumn(columns[i]) /\ columns[i].csv = table.headers[i]
<1> DEFINE columns == Inferred(table)
<1>1. /\ columns = [i \in DOMAIN table.headers |-> columns[i]]
      /\ \A i \in DOMAIN table.headers : IsColumn(columns[i]) /\ columns[i].csv = table.headers[i]
    BY DEF Inferred, IsColumn
<1> HIDE DEF columns
<1>2. IsList(columns)
    BY <1>1, ListOver DEF IsTable
<1> QED
    BY <1>1, <1>2 DEF columns

LEMMA WizardSame ==
    ASSUME WizardInv, reading' \subseteq reading \cup Files, upload' = upload, wizard' = wizard
    PROVE  WizardInv'
BY DEF WizardInv, UploadRead, Table0

\* A wizard that was changed for the same file.
LEMMA WizardStep ==
    ASSUME WizardInv, reading' = reading, upload' = upload, wizard # NONE, WizardFits(wizard', Table0)
    PROVE  WizardInv'
BY DEF WizardInv, UploadRead, Table0

LEMMA FreshFits ==
    ASSUME NEW u, NEW id, IsTable(u.sheets[u.active].parsed)
    PROVE  WizardFits(FreshWizard(u, id), u.sheets[u.active].parsed)
<1> DEFINE table == u.sheets[u.active].parsed
           w == FreshWizard(u, id)
<1>1. /\ IsWizard(w) /\ w.moved = FALSE /\ w.on = table /\ w.newColumns = Inferred(table)
      /\ w.picked = <<>> /\ w.mapping = <<>> /\ DOMAIN w.added = ToSet(table.headers)
    BY DEF FreshWizard, IsWizard
<1>2. DOMAIN w.mapping = {}
    BY <1>1
<1> HIDE DEF w, table
<1>3. IsFiniteSet(DOMAIN w.mapping) /\ IsFiniteSet(DOMAIN w.added)
    BY <1>1, <1>2, FS_EmptySet, ListFinite DEF IsTable, table
<1>4. /\ IsList(w.newColumns) /\ DOMAIN w.newColumns = DOMAIN table.headers
      /\ \A i \in DOMAIN w.newColumns : IsColumn(w.newColumns[i]) /\ w.newColumns[i].csv = table.headers[i]
    BY <1>1, InferredColumns DEF table
<1> QED
    BY <1>1, <1>2, <1>3, <1>4 DEF WizardFits, FilledIn, MappedInPicked, FitsTable, w, table

LEMMA SheetTable ==
    ASSUME NEW u, IsFile(u.file), u.sheets = Parsed(u.file), u.active \in DOMAIN u.sheets
    PROVE  IsTable(u.sheets[u.active].parsed)
BY ParsedSheets DEF AreSheets

LEMMA WizardShown ==
    ASSUME WizardInv, reading' \subseteq reading \cup Files,
           NEW u, IsFile(u.file), u.sheets = Parsed(u.file), u.active \in DOMAIN u.sheets,
           u = [file |-> u.file, sheets |-> u.sheets, active |-> u.active], Show(u)
    PROVE  WizardInv'
<1> DEFINE table == u.sheets[u.active].parsed
<1>1. IsTable(table)
    BY SheetTable
<1>2. upload' = u /\ UploadRead' /\ Table0' = table
    BY DEF Show, UploadRead, Table0
<1>3. CASE wizard # NONE /\ wizard.key = Key(u)
    <2>1. wizard' = [wizard EXCEPT !.moved = @ \/ table # wizard.on]
        BY <1>3 DEF Show
    <2> HIDE DEF table
    <2>2. IsWizard(wizard) /\ FilledIn(wizard) /\ MappedInPicked(wizard) /\ FitsTable(wizard, Table0)
        BY <1>3 DEF WizardInv, WizardFits
    <2>3. /\ IsWizard(wizard') /\ wizard'.moved = (wizard.moved \/ table # wizard.on)
          /\ wizard'.on = wizard.on /\ wizard'.newColumns = wizard.newColumns /\ wizard'.mapping = wizard.mapping
          /\ wizard'.added = wizard.added /\ wizard'.picked = wizard.picked /\ wizard'.table = wizard.table
        BY <2>1, <2>2 DEF IsWizard
    <2>4. FilledIn(wizard') /\ MappedInPicked(wizard')
        BY <2>2, <2>3 DEF FilledIn, MappedInPicked
    <2>5. FitsTable(wizard', table)
        BY <2>2, <2>3 DEF FitsTable
    <2> QED
        BY <1>2, <2>3, <2>4, <2>5 DEF WizardInv, WizardFits
<1>4. CASE ~(wizard # NONE /\ wizard.key = Key(u))
    <2>1. wizard' = FreshWizard(u, mounts + 1)
        BY <1>4 DEF Show
    <2> QED
        BY <1>1, <1>2, <2>1, FreshFits DEF WizardInv
<1> QED
    BY <1>3, <1>4

\* What does not touch the columns keeps what is filled in.
LEMMA FillingKept ==
    ASSUME NEW w, NEW v, NEW table, WizardFits(w, table), IsWizard(v),
           v.moved = w.moved, v.on = w.on, v.newColumns = w.newColumns, v.mapping = w.mapping,
           DOMAIN v.added = DOMAIN w.added, v.picked = w.picked, v.table = w.table
    PROVE  WizardFits(v, table)
BY DEF WizardFits, FilledIn, MappedInPicked, FitsTable

LEMMA ContextSteps ==
    ASSUME WizardInv,
           \/ \E t \in Instructions : TypeContext(t)
           \/ ApplyContext \/ ClearContext \/ Back
           \/ \E replies \in FilterReplies : FilterArrives(replies)
           \/ \E n \in ShownColumns : ToggleKey(n)
           \/ \E n \in TypedNames : NameTable(n)
           \/ \E h \in ShownHeaders : ToggleAdded(h) \/ \E n \in TypedNames : RenameAdded(h, n)
    PROVE  WizardInv'
<1>1. reading' = reading /\ upload' = upload /\ wizard # NONE
    BY DEF TypeContext, ApplyContext, ClearContext, Back, FilterArrives, ToggleKey, NameTable,
           ToggleAdded, RenameAdded, At, WizardOnly, offer
<1>2. WizardFits(wizard, Table0) /\ IsWizard(wizard)
    BY <1>1 DEF WizardInv, WizardFits
<1>3. /\ IsWizard(wizard') /\ wizard'.moved = wizard.moved /\ wizard'.on = wizard.on
      /\ wizard'.newColumns = wizard.newColumns /\ wizard'.mapping = wizard.mapping
      /\ DOMAIN wizard'.added = DOMAIN wizard.added /\ wizard'.picked = wizard.picked
      /\ wizard'.table = wizard.table
    <2>1. CASE \E t \in Instructions : TypeContext(t)
        BY <1>2, <2>1 DEF TypeContext, IsWizard
    <2>2. CASE ApplyContext
        BY <1>2, <2>2 DEF ApplyContext, IsWizard
    <2>3. CASE ClearContext
        BY <1>2, <2>3 DEF ClearContext, IsWizard
    <2>4. CASE Back
        BY <1>2, <2>4 DEF Back, IsWizard
    <2>5. CASE \E replies \in FilterReplies : FilterArrives(replies)
        <3>1. \E filter : wizard' = [wizard EXCEPT !.applying = NONE, !.filter = filter]
            BY <2>5 DEF FilterArrives
        <3> QED
            BY <1>2, <3>1 DEF IsWizard
    <2>6. CASE \E n \in ShownColumns : ToggleKey(n)
        BY <1>2, <2>6 DEF ToggleKey, IsWizard
    <2>7. CASE \E n \in TypedNames : NameTable(n)
        BY <1>2, <2>7 DEF NameTable, IsWizard
    <2>8. CASE \E h \in ShownHeaders : ToggleAdded(h)
        BY <1>2, <2>8 DEF ToggleAdded, IsWizard
    <2>9. CASE \E h \in ShownHeaders, n \in TypedNames : RenameAdded(h, n)
        BY <1>2, <2>9 DEF RenameAdded, IsWizard
    <2> QED
        BY <2>1, <2>2, <2>3, <2>4, <2>5, <2>6, <2>7, <2>8, <2>9
<1> QED
    BY <1>1, <1>2, <1>3, FillingKept, WizardStep

LEMMA GoStep ==
    ASSUME WizardInv, NEW step, Go(step)
    PROVE  WizardInv'
<1>1. reading' = reading /\ upload' = upload /\ wizard # NONE
    BY DEF Go, At, WizardOnly, offer
<1>2. WizardFits(wizard, Table0) /\ IsWizard(wizard)
    BY <1>1 DEF WizardInv, WizardFits
<1>3. wizard' = [wizard EXCEPT !.step = step,
                     !.newColumns = IF step = "new" THEN Inferred(Table0) ELSE @]
    BY DEF Go
<1>4. /\ IsWizard(wizard') /\ wizard'.moved = wizard.moved /\ wizard'.on = wizard.on
      /\ wizard'.newColumns = wizard.newColumns \/ wizard'.newColumns = Inferred(Table0)
      /\ wizard'.mapping = wizard.mapping /\ wizard'.added = wizard.added
      /\ wizard'.picked = wizard.picked /\ wizard'.table = wizard.table
    BY <1>2, <1>3 DEF IsWizard
<1>5. CASE wizard'.newColumns = wizard.newColumns
    BY <1>1, <1>2, <1>4, <1>5, FillingKept, WizardStep
<1>6. CASE wizard'.newColumns = Inferred(Table0)
    <2>1. IsTable(Table0)
        BY <1>1, SheetTable DEF WizardInv, UploadRead, Table0
    <2>2. LET columns == wizard'.newColumns IN
           /\ IsList(columns) /\ DOMAIN columns = DOMAIN Table0.headers
           /\ \A i \in DOMAIN columns : IsColumn(columns[i]) /\ columns[i].csv = Table0.headers[i]
        BY <1>6, <2>1, InferredColumns
    <2>3. WizardFits(wizard', Table0)
        BY <1>2, <1>4, <2>2 DEF WizardFits, FilledIn, MappedInPicked, FitsTable
    <2> QED
        BY <1>1, <2>3, WizardStep
<1> QED
    BY <1>4, <1>5, <1>6

LEMMA RenameColumnStep ==
    ASSUME WizardInv, NEW i, NEW name, RenameColumn(i, name)
    PROVE  WizardInv'
<1> DEFINE columns == wizard.newColumns
           named == [columns EXCEPT ![i].db = name]
<1>1. reading' = reading /\ upload' = upload /\ wizard # NONE /\ i \in DOMAIN columns
    BY DEF RenameColumn, At, WizardOnly, offer
<1>2. WizardFits(wizard, Table0) /\ IsWizard(wizard)
    BY <1>1 DEF WizardInv, WizardFits
<1>3. wizard' = [wizard EXCEPT !.newColumns = named]
    BY DEF RenameColumn
<1>4. /\ IsList(columns) /\ \A k \in DOMAIN columns : IsColumn(columns[k])
      /\ columns = [k \in DOMAIN columns |-> columns[k]]
    BY <1>2, ListIs DEF WizardFits, FilledIn
<1>5. /\ named = [k \in DOMAIN columns |-> named[k]] /\ DOMAIN named = DOMAIN columns
      /\ \A k \in DOMAIN columns : IsColumn(named[k]) /\ named[k].csv = columns[k].csv
    <2> HIDE DEF columns
    <2>1. DOMAIN named = DOMAIN columns /\ named = [k \in DOMAIN columns |-> named[k]]
        OBVIOUS
    <2>2. ASSUME NEW k \in DOMAIN columns PROVE IsColumn(named[k]) /\ named[k].csv = columns[k].csv
        <3> DEFINE c == columns[k]
        <3>1. named[k] = IF k = i THEN [c EXCEPT !.db = name] ELSE c
            BY <1>1
        <3>2. IsColumn(c)
            BY <1>4
        <3> HIDE DEF c, named
        <3>3. named[k] = c \/ named[k] = [csv |-> c.csv, db |-> name, type |-> c.type]
            BY <3>1, <3>2 DEF IsColumn
        <3>4. IsColumn(named[k]) /\ named[k].csv = c.csv
            BY <3>2, <3>3 DEF IsColumn
        <3> QED
            BY <3>4 DEF c
    <2> QED
        BY <2>1, <2>2
<1>6. IsList(named)
    <2> HIDE DEF named, columns
    <2> QED
        BY <1>4, <1>5, ListOver
<1> HIDE DEF named
<1>7. /\ IsWizard(wizard') /\ wizard'.moved = wizard.moved /\ wizard'.on = wizard.on
      /\ wizard'.newColumns = named /\ wizard'.mapping = wizard.mapping /\ wizard'.added = wizard.added
      /\ wizard'.picked = wizard.picked /\ wizard'.table = wizard.table
    BY <1>2, <1>3 DEF IsWizard
<1>8. WizardFits(wizard', Table0)
    BY <1>2, <1>5, <1>6, <1>7 DEF WizardFits, FilledIn, MappedInPicked, FitsTable
<1> QED
    BY <1>1, <1>8, WizardStep

LEMMA PickTableStep ==
    ASSUME WizardInv, ServerInv, NEW t, PickTable(t)
    PROVE  WizardInv'
<1> DEFINE tables == targets[connection]
           columns == {c \in tables[t] : ~c.auto}
           names == {c.name : c \in columns}
           mapping == [n \in names |-> Match([name |-> n])]
<1>1. reading' = reading /\ upload' = upload /\ wizard # NONE /\ tables # NONE /\ t \in DOMAIN tables
    BY DEF PickTable, At, WizardOnly, offer
<1>2. WizardFits(wizard, Table0) /\ IsWizard(wizard)
    BY <1>1 DEF WizardInv, WizardFits
<1>3. wizard' = [wizard EXCEPT !.table = t, !.picked = <<connection, tables>>, !.keys = {}, !.mapping = mapping]
    BY DEF PickTable
<1>4. IsFiniteSet(tables[t])
    BY <1>1 DEF ServerInv, FiniteTables
<1>5. \A n \in names : \E d \in tables[t] : d.name = n
    OBVIOUS
<1>6. \A n \in names : mapping[n] = NONE \/ mapping[n] \in ToSet(Table0.headers)
    <2>1. IsList(Table0.headers)
        BY <1>1, SheetTable DEF WizardInv, UploadRead, Table0, IsTable
    <2>2. ASSUME NEW column PROVE Match(column) = NONE \/ Match(column) \in ToSet(Table0.headers)
        <3> DEFINE same == {i \in DOMAIN Table0.headers : ToIdentifier(Table0.headers[i]) = column.name}
        <3>1. Match(column) = IF same = {} THEN NONE ELSE Table0.headers[Min(same)]
            BY DEF Match
        <3>2. same \subseteq DOMAIN Table0.headers /\ same \subseteq Nat
            BY <2>1, ListIs
        <3> HIDE DEF same
        <3>3. same # {} => Min(same) \in DOMAIN Table0.headers
            BY <3>2, MinIn
        <3> QED
            BY <2>1, <3>1, <3>3, ListIs
    <2> QED
        BY <2>2
<1>7. IsFiniteSet(names)
    <2> DEFINE f == [c \in columns |-> c.name]
    <2>1. IsFiniteSet(columns)
        BY <1>4, FS_Subset
    <2>2. f = [c \in columns |-> f[c]] /\ names = {f[c] : c \in columns}
        OBVIOUS
    <2> HIDE DEF f, names, columns
    <2> QED
        BY <2>1, <2>2, Imaged
<1>8. DOMAIN mapping = names
    OBVIOUS
<1> HIDE DEF mapping, names, columns, tables
<1>9. /\ IsWizard(wizard') /\ wizard'.moved = wizard.moved /\ wizard'.on = wizard.on
      /\ wizard'.newColumns = wizard.newColumns /\ wizard'.mapping = mapping /\ wizard'.added = wizard.added
      /\ wizard'.picked = <<connection, tables>> /\ wizard'.table = t
    BY <1>2, <1>3 DEF IsWizard
<1>10. WizardFits(wizard', Table0)
    BY <1>2, <1>5, <1>6, <1>7, <1>8, <1>9 DEF WizardFits, FilledIn, MappedInPicked, FitsTable
<1> QED
    BY <1>1, <1>10, WizardStep

LEMMA MapColumnStep ==
    ASSUME WizardInv, NEW name, NEW header \in ShownHeaders \cup {NONE}, MapColumn(name, header)
    PROVE  WizardInv'
<1> DEFINE pair == <<connection, targets[connection]>>
           mapping == With(wizard.mapping, name, header)
<1>1. reading' = reading /\ upload' = upload /\ wizard # NONE /\ Target # NONE /\ \E d \in Target : d.name = name
    BY DEF MapColumn, At, WizardOnly, offer
<1>2. WizardFits(wizard, Table0) /\ IsWizard(wizard)
    BY <1>1 DEF WizardInv, WizardFits
<1>3. wizard' = [wizard EXCEPT !.mapping = mapping,
                               !.picked = IF wizard.picked = pair THEN wizard.picked ELSE <<>>]
    BY DEF MapColumn
<1>4. pair[2] = targets[connection] /\ Target = targets[connection][wizard.table]
    BY <1>1 DEF Target
<1>5. DOMAIN mapping = DOMAIN wizard.mapping \cup {name} /\ mapping[name] = header
      /\ \A n \in DOMAIN wizard.mapping \ {name} : mapping[n] = wizard.mapping[n]
    BY DEF With
<1>6. IsFiniteSet(DOMAIN mapping)
    BY <1>2, <1>5, FS_AddElement DEF WizardFits, FilledIn
<1>7. header = NONE \/ header \in ToSet(Table0.headers)
    BY DEF ShownHeaders
<1> HIDE DEF mapping, pair
<1>8. /\ IsWizard(wizard') /\ wizard'.moved = wizard.moved /\ wizard'.on = wizard.on
      /\ wizard'.newColumns = wizard.newColumns /\ wizard'.mapping = mapping /\ wizard'.added = wizard.added
      /\ wizard'.table = wizard.table
      /\ wizard'.picked = <<>> \/ (wizard'.picked = wizard.picked /\ wizard.picked = pair)
    BY <1>2, <1>3 DEF IsWizard
<1>9. MappedInPicked(wizard')
    BY <1>1, <1>2, <1>4, <1>5, <1>8 DEF WizardFits, MappedInPicked
<1>10. FitsTable(wizard', Table0)
    BY <1>2, <1>5, <1>7, <1>8 DEF WizardFits, FitsTable
<1>11. FilledIn(wizard')
    BY <1>2, <1>6, <1>8 DEF WizardFits, FilledIn
<1>12. WizardFits(wizard', Table0)
    BY <1>8, <1>9, <1>10, <1>11 DEF WizardFits
<1> QED
    BY <1>1, <1>12, WizardStep

\* Reading, closing and the panels.
LEMMA FileSteps ==
    ASSUME WizardInv, DataImportAssumption,
           \/ \E f \in reading : FileRead(f)
           \/ upload # NONE /\ \E k \in DOMAIN upload.sheets : ChangeSheet(k)
           \/ Close
           \/ \E t \in Pasted : ContinuePaste(t)
           \/ \E t \in Sheets : SheetArrives(t)
    PROVE  WizardInv'
<1>1. ASSUME NEW file, IsFile(file), NEW sheets, sheets = Parsed(file), NEW panel,
             Open(file, sheets, panel), reading' \subseteq reading
      PROVE  WizardInv'
    <2>1. CASE sheets = <<>>
        BY <1>1, <2>1, WizardSame DEF Open
    <2>2. CASE sheets # <<>>
        <3> DEFINE u == [file |-> file, sheets |-> sheets, active |-> 1]
        <3>1. Show(u)
            BY <1>1, <2>2 DEF Open
        <3>2. 1 \in DOMAIN sheets
            BY <1>1, <2>2, ParsedSheets, ListIs DEF AreSheets
        <3>3. u.file = file /\ u.sheets = sheets /\ u.active = 1
            OBVIOUS
        <3>4. u = [file |-> u.file, sheets |-> u.sheets, active |-> u.active]
            OBVIOUS
        <3> HIDE DEF u
        <3> QED
            BY <1>1, <3>1, <3>2, <3>3, <3>4, WizardShown
    <2> QED
        BY <2>1, <2>2
<1>2. ASSUME NEW f \in reading, FileRead(f) PROVE WizardInv'
    <2>1. IsFile(f)
        BY <1>2 DEF WizardInv, DataImportAssumption
    <2>2. reading' \subseteq reading /\ Open(f, Parsed(f), NONE)
        BY <1>2 DEF FileRead
    <2> QED
        BY <1>1, <2>1, <2>2
<1>3. ASSUME NEW t \in Pasted, ContinuePaste(t) PROVE WizardInv'
    <2> DEFINE file == [name |-> "Pasted data", format |-> "Pasted", content |-> t, written |-> NONE]
    <2>1. Open(file, One(ParsePasted(t)), "paste") /\ reading' \subseteq reading
        BY <1>3 DEF ContinuePaste
    <2>2. file.format = "Pasted" /\ file.content = t /\ IsList(t)
        BY DEF DataImportAssumption
    <2> HIDE DEF file
    <2>3. IsFile(file) /\ Parsed(file) = One(ParsePasted(t))
        BY <2>2 DEF IsFile, Parsed
    <2> QED
        BY <1>1, <2>1, <2>3
<1>4. ASSUME NEW t \in Sheets, SheetArrives(t) PROVE WizardInv'
    <2> DEFINE file == [name |-> "Google Sheet", format |-> "CSV", content |-> t, written |-> NONE]
    <2>1. Open(file, One(ParseCsv(t)), "gsheet") /\ reading' \subseteq reading
        BY <1>4 DEF SheetArrives
    <2>2. file.format = "CSV" /\ file.content = t /\ IsList(t)
        BY DEF DataImportAssumption
    <2> HIDE DEF file
    <2>3. IsFile(file) /\ Parsed(file) = One(ParseCsv(t))
        BY <2>2 DEF IsFile, Parsed
    <2> QED
        BY <1>1, <2>1, <2>3
<1>5. ASSUME upload # NONE, NEW k \in DOMAIN upload.sheets, ChangeSheet(k) PROVE WizardInv'
    <2> DEFINE u == [upload EXCEPT !.active = k]
    <2>1. Show(u) /\ reading' = reading
        BY <1>5 DEF ChangeSheet
    <2>2. UploadRead
        BY <1>5 DEF WizardInv
    <2>3. /\ u.file = upload.file /\ u.sheets = upload.sheets /\ u.active = k
          /\ u = [file |-> u.file, sheets |-> u.sheets, active |-> u.active]
        BY <2>2 DEF UploadRead
    <2> HIDE DEF u
    <2> QED
        BY <1>5, <2>1, <2>2, <2>3, WizardShown DEF UploadRead
<1>6. CASE Close
    BY <1>6 DEF Close, WizardInv
<1> QED
    BY <1>2, <1>3, <1>4, <1>5, <1>6

LEMMA ImportFields ==
    ASSUME NEW m, IsImport(m), NEW v
    PROVE  LET n == [m EXCEPT !.status = v] IN
           /\ IsImport(n) /\ n.status = v /\ n.file = m.file /\ n.sheet = m.sheet /\ n.filter = m.filter
           /\ n.rows = m.rows
<1> DEFINE n == [m EXCEPT !.status = v]
<1>1. /\ n = [wizard |-> n.wizard, file |-> n.file, sheet |-> n.sheet, connection |-> n.connection,
              mode |-> n.mode, table |-> n.table, columns |-> n.columns, keys |-> n.keys,
              shown |-> n.shown, rows |-> n.rows, filter |-> n.filter, asShown |-> n.asShown,
              status |-> n.status]
      /\ n.wizard = m.wizard /\ n.file = m.file /\ n.sheet = m.sheet /\ n.connection = m.connection
      /\ n.mode = m.mode /\ n.table = m.table /\ n.columns = m.columns /\ n.keys = m.keys
      /\ n.shown = m.shown /\ n.rows = m.rows /\ n.filter = m.filter /\ n.asShown = m.asShown
      /\ n.status = v
    BY DEF IsImport
<1> HIDE DEF n
<1>2. RowsAsShown(n) /\ SentFits(n)
    BY <1>1 DEF IsImport, RowsAsShown, SentFits
<1>3. IsImport(n)
    BY <1>1, <1>2 DEF IsImport
<1> QED
    BY <1>1, <1>3 DEF n

\* The end of an import leaves the wizard's columns alone.
LEMMA EndedWizard ==
    ASSUME WizardInv, NEW i, ImportSucceeds(i) \/ ImportFails(i)
    PROVE  WizardInv'
<1>1. reading' = reading /\ upload' = upload
    BY DEF ImportSucceeds, ImportFails, offer
<1>2. CASE wizard' = wizard
    BY <1>1, <1>2, WizardSame
<1>3. CASE wizard # NONE /\ wizard' \in {[wizard EXCEPT !.step = "done", !.importing = FALSE],
                                          [wizard EXCEPT !.importing = FALSE]}
    <2>1. WizardFits(wizard, Table0) /\ IsWizard(wizard)
        BY <1>3 DEF WizardInv, WizardFits
    <2>2. /\ IsWizard(wizard') /\ wizard'.moved = wizard.moved /\ wizard'.on = wizard.on
          /\ wizard'.newColumns = wizard.newColumns /\ wizard'.mapping = wizard.mapping
          /\ wizard'.added = wizard.added /\ wizard'.picked = wizard.picked
          /\ wizard'.table = wizard.table
        BY <1>3, <2>1 DEF IsWizard
    <2> QED
        BY <1>1, <1>3, <2>1, <2>2, FillingKept, WizardStep
<1> QED
    BY <1>2, <1>3 DEF ImportSucceeds, ImportFails, Own

LEMMA RunWizard ==
    ASSUME WizardInv, RunImport
    PROVE  WizardInv'
<1>1. reading' = reading /\ upload' = upload /\ wizard # NONE /\ wizard' = [wizard EXCEPT !.importing = TRUE]
    BY DEF RunImport, At, offer
<1>2. WizardFits(wizard, Table0) /\ IsWizard(wizard)
    BY <1>1 DEF WizardInv, WizardFits
<1>3. /\ IsWizard(wizard') /\ wizard'.moved = wizard.moved /\ wizard'.on = wizard.on
      /\ wizard'.newColumns = wizard.newColumns /\ wizard'.mapping = wizard.mapping
      /\ wizard'.added = wizard.added /\ wizard'.picked = wizard.picked
      /\ wizard'.table = wizard.table
    BY <1>1, <1>2 DEF IsWizard
<1> QED
    BY <1>1, <1>2, <1>3, FillingKept, WizardStep

LEMMA WizardInvKept ==
    ASSUME WizardInv, ServerInv, DataImportAssumption, WizardNext
    PROVE  WizardInv'
<1>1. CASE \/ \E f \in Files : ChooseFile(f)
           \/ \E p \in {"paste", "gsheet"} : OpenPanel(p) \/ CancelPanel(p)
           \/ FetchSheet \/ FetchTargets
           \/ \E c \in Connections : SwitchConnection(c)
    <2>1. reading' \subseteq reading \cup Files /\ upload' = upload /\ wizard' = wizard
        BY <1>1 DEF ChooseFile, OpenPanel, CancelPanel, FetchSheet, FetchTargets, SwitchConnection, offer
    <2> QED
        BY <2>1, WizardSame
<1>2. CASE \/ \E f \in reading : FileRead(f)
           \/ upload # NONE /\ \E k \in DOMAIN upload.sheets : ChangeSheet(k)
           \/ Close
           \/ \E t \in Pasted : ContinuePaste(t)
           \/ \E t \in Sheets : SheetArrives(t)
    BY <1>2, FileSteps
<1>3. CASE \/ \E t \in Instructions : TypeContext(t)
           \/ ApplyContext \/ ClearContext \/ Back
           \/ \E replies \in FilterReplies : FilterArrives(replies)
           \/ \E n \in ShownColumns : ToggleKey(n)
           \/ \E n \in TypedNames : NameTable(n)
           \/ \E h \in ShownHeaders : ToggleAdded(h) \/ \E n \in TypedNames : RenameAdded(h, n)
    BY <1>3, ContextSteps
<1>4. CASE \E step \in {"existing", "new"} : Go(step)
    BY <1>4, GoStep
<1>5. CASE \E t \in DOMAIN targets[connection] : PickTable(t)
    BY <1>5, PickTableStep
<1>6. CASE \E n \in ShownColumns, h \in ShownHeaders \cup {NONE} : MapColumn(n, h)
    BY <1>6, MapColumnStep
<1>7. CASE \E n \in TypedNames, i \in DOMAIN wizard.newColumns : RenameColumn(i, n)
    BY <1>7, RenameColumnStep
<1>8. CASE RunImport
    BY <1>8, RunWizard
<1>9. CASE \E i \in DOMAIN imports : ImportSucceeds(i) \/ ImportFails(i)
    BY <1>9, EndedWizard
<1> QED
    BY <1>1, <1>2, <1>3, <1>4, <1>5, <1>6, <1>7, <1>8, <1>9 DEF WizardNext

-----------------------------------------------------------------------------
(* What is sent                                                            *)

\* Mapped columns and added ones, as they are sent.
SentMapped == {[csv |-> wizard.mapping[n], db |-> n, add |-> FALSE] : n \in {m \in DOMAIN wizard.mapping : Mapped(m)}}
SentAdded == {[csv |-> h, db |-> wizard.added[h].db, add |-> TRUE] : h \in Added}
SentNew == {[csv |-> c.csv, db |-> c.db, add |-> TRUE] : c \in ToSet(wizard.newColumns)}

LEMMA SentFinite ==
    ASSUME FilledIn(wizard)
    PROVE  IsFiniteSet(SentMapped) /\ IsFiniteSet(SentAdded) /\ IsFiniteSet(SentNew)
<1>1. IsFiniteSet(SentMapped)
    <2> DEFINE S == {m \in DOMAIN wizard.mapping : Mapped(m)}
               f == [n \in S |-> [csv |-> wizard.mapping[n], db |-> n, add |-> FALSE]]
    <2>1. IsFiniteSet(S)
        BY FS_Subset DEF FilledIn
    <2>2. f = [n \in S |-> f[n]] /\ SentMapped = {f[n] : n \in S}
        BY DEF SentMapped
    <2> HIDE DEF f, S
    <2> QED
        BY <2>1, <2>2, Imaged
<1>2. IsFiniteSet(SentAdded)
    <2> DEFINE f == [h \in Added |-> [csv |-> h, db |-> wizard.added[h].db, add |-> TRUE]]
    <2>1. Added \subseteq DOMAIN wizard.added
        BY DEF Added
    <2>2. IsFiniteSet(Added)
        BY <2>1, FS_Subset DEF FilledIn
    <2>3. f = [h \in Added |-> f[h]] /\ SentAdded = {f[h] : h \in Added}
        BY DEF SentAdded
    <2> HIDE DEF f
    <2> QED
        BY <2>2, <2>3, Imaged
<1>3. IsFiniteSet(SentNew)
    <2> DEFINE S == ToSet(wizard.newColumns)
               f == [c \in S |-> [csv |-> c.csv, db |-> c.db, add |-> TRUE]]
    <2>1. IsFiniteSet(S)
        BY ListFinite DEF FilledIn
    <2>2. f = [c \in S |-> f[c]] /\ SentNew = {f[c] : c \in S}
        BY DEF SentNew
    <2> HIDE DEF f, S
    <2> QED
        BY <2>1, <2>2, Imaged
<1> QED
    BY <1>1, <1>2, <1>3

\* Names that tell columns apart.
LEMMA NamesCount ==
    ASSUME NEW columns, IsFiniteSet(columns), \A c, d \in columns : c.db = d.db => c = d
    PROVE  Cardinality({c.db : c \in columns}) = Cardinality(columns)
<1> DEFINE f == [c \in columns |-> c.db]
           names == {c.db : c \in columns}
<1>1. f = [c \in columns |-> f[c]] /\ names = {f[c] : c \in columns}
    OBVIOUS
<1>2. \A c, d \in columns : f[c] = f[d] => c = d
    OBVIOUS
<1> HIDE DEF f, names
<1> QED
    BY <1>1, <1>2, Imaged DEF names

\* Into an existing table.
LEMMA ExistingFits ==
    ASSUME UploadRead, IsTable(Table0), WizardFits(wizard, Table0), ExistingValid, ~wizard.moved,
           wizard.picked = <<connection, targets[connection]>>
    PROVE  LET columns == SentMapped \cup SentAdded names == {c.db : c \in columns} IN
           /\ Cardinality(names) = Cardinality(columns) /\ columns # {}
           /\ \A c \in columns : c.csv \in ToSet(Table0.headers)
           /\ {k \in wizard.keys : Mapped(k)} \subseteq names
           /\ \A c \in columns : c.add \/ \E d \in Target : d.name = c.db
           /\ \A d \in Target : d.required => d.name \in names
           /\ Target = targets[connection][wizard.table]
<1> DEFINE columns == SentMapped \cup SentAdded
           names == {c.db : c \in columns}
           mapped == {n \in DOMAIN wizard.mapping : Mapped(n)}
           headers == Table0.headers
           known == {c.name : c \in {d \in Target : Mapped(d.name)}}
           added == {wizard.added[h].db : h \in Added}
           at == {i \in DOMAIN headers : headers[i] \in Added}
<1>1. /\ Target # NONE /\ \A c \in Target : c.required => Mapped(c.name)
      /\ known \cup added # {} /\ known \cap added = {}
      /\ Cardinality(added) = Cardinality(at)
    BY DEF ExistingValid
<1>2. Target = targets[connection][wizard.table]
    BY <1>1 DEF Target
<1>3. mapped \subseteq known
    <2>1. wizard.picked # <<>> /\ wizard.picked[2] = targets[connection]
        OBVIOUS
    <2>2. \A n \in DOMAIN wizard.mapping : \E d \in Target : d.name = n
        BY <1>2, <2>1 DEF WizardFits, MappedInPicked
    <2> QED
        BY <2>2
<1>4. known \subseteq mapped
    BY DEF Mapped
<1>5. Added \subseteq ToSet(headers)
    BY DEF Added, ExtraHeaders
<1>6. \A g, h \in Added : wizard.added[g].db = wizard.added[h].db => g = h
    <2> DEFINE f == [i \in at |-> wizard.added[headers[i]].db]
    <2>1. IsList(headers)
        BY DEF IsTable
    <2>2. IsFiniteSet(at)
        BY <2>1, ListFinite, FS_Subset
    <2>3. \A h \in Added : \E i \in at : headers[i] = h
        BY <1>5 DEF ToSet
    <2>7. \A i \in at : headers[i] \in Added
        OBVIOUS
    <2>5. f = [i \in at |-> f[i]] /\ \A i \in at : f[i] = wizard.added[headers[i]].db
        OBVIOUS
    <2>8. added = {wizard.added[h].db : h \in Added}
        OBVIOUS
    <2> HIDE DEF f, at, added
    <2>4. f = [i \in at |-> f[i]] /\ added = {f[i] : i \in at}
        BY <2>3, <2>5, <2>7, <2>8
    <2>6. \A i, j \in at : f[i] = f[j] => i = j
        BY <1>1, <2>2, <2>4, Imaged
    <2> HIDE DEF headers
    <2> QED
        BY <2>3, <2>5, <2>6
<1>7. \A c \in SentMapped : c.db \in mapped /\ c.csv = wizard.mapping[c.db] /\ c = [csv |-> wizard.mapping[c.db], db |-> c.db, add |-> FALSE]
    BY DEF SentMapped
<1>8. ASSUME NEW n \in mapped PROVE \E c \in SentMapped : c.db = n
    <2> DEFINE c == [csv |-> wizard.mapping[n], db |-> n, add |-> FALSE]
    <2>1. c \in SentMapped /\ c.db = n
        BY DEF SentMapped
    <2> HIDE DEF c
    <2> QED
        BY <2>1
<1>9. \A c \in SentAdded : c.csv \in Added /\ c.db = wizard.added[c.csv].db /\ c.add = TRUE
                          /\ c = [csv |-> c.csv, db |-> c.db, add |-> TRUE]
    BY DEF SentAdded
<1>10. ASSUME NEW h \in Added PROVE \E c \in SentAdded : c.db = wizard.added[h].db
    <2> DEFINE c == [csv |-> h, db |-> wizard.added[h].db, add |-> TRUE]
    <2>1. c \in SentAdded /\ c.db = wizard.added[h].db
        BY DEF SentAdded
    <2> HIDE DEF c
    <2> QED
        BY <2>1
<1>11. \A c \in SentAdded : c.db \in added
    BY <1>9
<1>12. mapped = known
    BY <1>3, <1>4
<1> HIDE DEF mapped, known, added, at
<1>13. \A c, d \in columns : c.db = d.db => c = d
    <2>1. \A c, d \in SentMapped : c.db = d.db => c = d
        BY <1>7
    <2>2. ASSUME NEW c \in SentAdded, NEW d \in SentAdded, c.db = d.db PROVE c = d
        <3>1. c.csv = d.csv
            BY <1>6, <1>9, <2>2
        <3> QED
            BY <1>9, <2>2, <3>1
    <2>3. \A c \in SentMapped, d \in SentAdded : c.db # d.db
        BY <1>1, <1>7, <1>11, <1>12
    <2> QED
        BY <2>1, <2>2, <2>3
<1>14. Cardinality(names) = Cardinality(columns)
    <2>1. IsFiniteSet(columns)
        BY SentFinite, FS_Union DEF WizardFits
    <2> HIDE DEF columns
    <2> QED
        BY <1>13, <2>1, NamesCount
<1>15. columns # {}
    <2>1. mapped # {} => SentMapped # {}
        BY <1>8
    <2>2. added # {} => SentAdded # {}
        BY <1>10 DEF added
    <2> QED
        BY <1>1, <1>12, <2>1, <2>2
<1>16. \A c \in columns : c.csv \in ToSet(headers)
    <2>1. \A n \in mapped : n \in DOMAIN wizard.mapping /\ wizard.mapping[n] # NONE
        BY DEF mapped, Mapped
    <2>2. \A n \in DOMAIN wizard.mapping : wizard.mapping[n] = NONE \/ wizard.mapping[n] \in ToSet(headers)
        BY DEF WizardFits, FitsTable
    <2>3. \A c \in SentMapped : c.csv \in ToSet(headers)
        BY <1>7, <2>1, <2>2
    <2> QED
        BY <1>5, <1>9, <2>3
<1>17. \A n \in mapped : n \in names
    BY <1>8
<1>18. {k \in wizard.keys : Mapped(k)} \subseteq names
    <2>1. \A k : Mapped(k) => k \in mapped
        BY DEF Mapped, mapped
    <2> HIDE DEF names
    <2> QED
        BY <1>17, <2>1
<1>19. \A c \in columns : c.add \/ \E d \in Target : d.name = c.db
    <2>1. \A n \in known : \E d \in Target : d.name = n
        BY DEF known
    <2> QED
        BY <1>7, <1>9, <1>12, <2>1
<1>20. \A d \in Target : d.required => d.name \in names
    <2>1. \A d \in Target : d.required => d.name \in mapped
        BY <1>1 DEF Mapped, mapped
    <2> HIDE DEF names
    <2> QED
        BY <1>17, <2>1
<1> QED
    BY <1>2, <1>14, <1>15, <1>16, <1>18, <1>19, <1>20

\* Into a new one.
LEMMA NewFits ==
    ASSUME IsTable(Table0), WizardFits(wizard, Table0), NewValid, ~wizard.moved
    PROVE  /\ Cardinality({c.db : c \in SentNew}) = Cardinality(SentNew) /\ SentNew # {}
           /\ \A c \in SentNew : c.csv \in ToSet(Table0.headers)
<1> DEFINE new == wizard.newColumns
           names == {new[i].db : i \in DOMAIN new}
           f == [i \in DOMAIN new |-> new[i].db]
<1>1. /\ IsList(new) /\ DOMAIN new = DOMAIN Table0.headers
      /\ \A i \in DOMAIN new : new[i].csv = Table0.headers[i]
    BY DEF WizardFits, FilledIn, FitsTable
<1>2. Cardinality(names) = Len(new)
    BY DEF NewValid
<1>3. \A i, j \in DOMAIN new : new[i].db = new[j].db => i = j
    <2>1. f = [i \in DOMAIN new |-> f[i]] /\ names = {f[i] : i \in DOMAIN new}
        OBVIOUS
    <2>2. \A i \in DOMAIN new : f[i] = new[i].db
        OBVIOUS
    <2> HIDE DEF f, names, new
    <2>3. IsFiniteSet(DOMAIN new) /\ Cardinality(DOMAIN new) = Len(new)
        BY <1>1, ListFinite
    <2>4. \A i, j \in DOMAIN new : f[i] = f[j] => i = j
        BY <1>2, <2>1, <2>3, Imaged
    <2> QED
        BY <2>2, <2>4
<1>4. ToSet(new) = {new[i] : i \in DOMAIN new}
    BY DEF ToSet
<1>5. \A c \in SentNew : \E i \in DOMAIN new : c = [csv |-> new[i].csv, db |-> new[i].db, add |-> TRUE]
    BY <1>4 DEF SentNew
<1>6. \A i \in DOMAIN new : [csv |-> new[i].csv, db |-> new[i].db, add |-> TRUE] \in SentNew
    BY <1>4 DEF SentNew
<1> HIDE DEF new
<1>7. ASSUME NEW c \in SentNew, NEW d \in SentNew, c.db = d.db PROVE c = d
    <2>1. PICK i \in DOMAIN new : c = [csv |-> new[i].csv, db |-> new[i].db, add |-> TRUE]
        BY <1>5
    <2>2. PICK j \in DOMAIN new : d = [csv |-> new[j].csv, db |-> new[j].db, add |-> TRUE]
        BY <1>5
    <2>3. i = j
        BY <1>3, <1>7, <2>1, <2>2
    <2> QED
        BY <2>1, <2>2, <2>3
<1>8. Cardinality({c.db : c \in SentNew}) = Cardinality(SentNew)
    BY <1>7, SentFinite, NamesCount DEF WizardFits
<1>9. IsList(Table0.headers) /\ Table0.headers # <<>>
    BY DEF IsTable
<1>10. 1 \in DOMAIN new
    BY <1>1, <1>9, ListIs
<1>11. \A i \in DOMAIN new : new[i].csv \in ToSet(Table0.headers)
    BY <1>1, <1>9, ListIs
<1>12. SentNew # {}
    BY <1>6, <1>10
<1>13. \A c \in SentNew : c.csv \in ToSet(Table0.headers)
    BY <1>5, <1>11
<1> QED
    BY <1>8, <1>12, <1>13

LEMMA WorkingRowsShown ==
    ASSUME UploadRead
    PROVE  /\ \A r \in DOMAIN WorkingRows : DOMAIN WorkingRows[r] = ToSet(Table0.headers)
           /\ \E sheet \in ToSet(Parsed(upload.file)) :
                  /\ sheet.name = SheetName
                  /\ WorkingRows = IF wizard.filter = NONE THEN sheet.parsed.rows
                                   ELSE ApplyRowFilter(sheet.parsed.rows, wizard.filter)
<1> DEFINE sheet == upload.sheets[upload.active]
<1>1. Table0 = sheet.parsed /\ SheetName = sheet.name
    BY DEF Table0, SheetName
<1>2. IsTable(sheet.parsed) /\ IsList(upload.sheets)
    BY ParsedSheets DEF UploadRead, AreSheets
<1>3. sheet \in ToSet(Parsed(upload.file))
    BY <1>2, ListIs DEF UploadRead
<1> HIDE DEF sheet
<1>4. WorkingRows = IF wizard.filter = NONE THEN sheet.parsed.rows
                    ELSE ApplyRowFilter(sheet.parsed.rows, wizard.filter)
    BY <1>1 DEF WorkingRows
<1>5. \A r \in DOMAIN WorkingRows : \E q \in DOMAIN sheet.parsed.rows : WorkingRows[r] = sheet.parsed.rows[q]
    BY <1>2, <1>4, FilteredRows DEF IsTable
<1>6. \A r \in DOMAIN WorkingRows : DOMAIN WorkingRows[r] = ToSet(Table0.headers)
    BY <1>1, <1>2, <1>5 DEF IsTable
<1> QED
    BY <1>1, <1>3, <1>4, <1>6

LEMMA PayloadIsImport ==
    ASSUME WizardInv, ServerInv, RunImport
    PROVE  IsImport(Payload) /\ Payload.status = "running"
<1> DEFINE m == Payload
           new == wizard.step = "new"
<1>1. wizard # NONE /\ UploadRead /\ WizardFits(wizard, Table0) /\ IsTable(Table0)
    <2>1. wizard # NONE
        BY DEF RunImport, At
    <2> QED
        BY <2>1, SheetTable DEF WizardInv, UploadRead, Table0
<1>2. /\ m.file = upload.file /\ m.sheet = SheetName /\ m.connection = connection /\ m.mode = wizard.step
      /\ m.rows = WorkingRows /\ m.filter = wizard.filter /\ m.shown = targets[connection] /\ m.status = "running"
      /\ m.table = IF new THEN wizard.newTable ELSE wizard.table
      /\ m.columns = IF new THEN SentNew ELSE SentMapped \cup SentAdded
      /\ m.keys = IF new THEN {} ELSE {k \in wizard.keys : Mapped(k)}
      /\ m.asShown = (~wizard.moved /\ (new \/ wizard.picked = <<connection, targets[connection]>>))
    BY DEF Payload, SentNew, SentMapped, SentAdded
<1>3. m = [wizard |-> m.wizard, file |-> m.file, sheet |-> m.sheet, connection |-> m.connection,
            mode |-> m.mode, table |-> m.table, columns |-> m.columns, keys |-> m.keys,
            shown |-> m.shown, rows |-> m.rows, filter |-> m.filter, asShown |-> m.asShown,
            status |-> m.status]
    BY DEF Payload
<1> HIDE DEF m
<1>4. m.connection \in Connections
    BY <1>2 DEF ServerInv
<1>5. IsFiniteSet(m.columns)
    <2>1. IsFiniteSet(SentNew) /\ IsFiniteSet(SentMapped \cup SentAdded)
        BY <1>1, SentFinite, FS_Union DEF WizardFits
    <2> QED
        BY <1>2, <2>1
<1>6. RowsAsShown(m)
    BY <1>1, <1>2, WorkingRowsShown DEF RowsAsShown
<1>7. SentFits(m)
    <2> SUFFICES ASSUME m.asShown PROVE SentFits(m)
        BY DEF SentFits
    <2>1. \A r \in DOMAIN m.rows : DOMAIN m.rows[r] = ToSet(Table0.headers)
        BY <1>1, <1>2, WorkingRowsShown
    <2>2. ~wizard.moved /\ (new \/ wizard.picked = <<connection, targets[connection]>>)
        BY <1>2
    <2>3. CASE At("new") /\ NewValid
        <3>1. m.mode = "new" /\ m.columns = SentNew /\ m.keys = {}
            BY <1>2, <2>3 DEF At
        <3>2. /\ Cardinality({c.db : c \in m.columns}) = Cardinality(m.columns) /\ m.columns # {}
              /\ \A c \in m.columns : c.csv \in ToSet(Table0.headers)
            BY <1>1, <2>2, <2>3, <3>1, NewFits
        <3> QED
            BY <2>1, <3>1, <3>2 DEF SentFits
    <2>4. CASE At("existing") /\ ExistingValid
        <3>1. /\ wizard.step = "existing" /\ m.columns = SentMapped \cup SentAdded /\ m.table = wizard.table
              /\ m.keys = {k \in wizard.keys : Mapped(k)}
            BY <1>2, <2>4 DEF At
        <3>2. LET names == {c.db : c \in m.columns} IN
              /\ Cardinality(names) = Cardinality(m.columns) /\ m.columns # {}
              /\ \A c \in m.columns : c.csv \in ToSet(Table0.headers)
              /\ m.keys \subseteq names
              /\ \A c \in m.columns : c.add \/ \E d \in Target : d.name = c.db
              /\ \A d \in Target : d.required => d.name \in names
              /\ Target = targets[connection][wizard.table]
            BY <1>1, <2>2, <2>4, <3>1, ExistingFits
        <3>3. Target = m.shown[m.table]
            BY <1>2, <3>1, <3>2
        <3> QED
            BY <2>1, <3>2, <3>3 DEF SentFits
    <2> QED
        BY <2>3, <2>4 DEF RunImport
<1>8. IsImport(m)
    BY <1>3, <1>4, <1>5, <1>6, <1>7 DEF IsImport
<1> QED
    BY <1>2, <1>8 DEF m

-----------------------------------------------------------------------------
(* The tables, the imports and the chat history                            *)

LEMMA ServerInvKept ==
    ASSUME ServerInv, ImportsInv, WizardNext
    PROVE  ServerInv'
<1>1. CASE UNCHANGED <<connection, schema, targets>>
    BY <1>1 DEF ServerInv
<1>2. CASE FetchTargets
    <2>1. connection' = connection /\ schema' = schema /\ targets' = [targets EXCEPT ![connection] = schema[connection]]
        BY <1>2 DEF FetchTargets
    <2> QED
        BY <2>1 DEF ServerInv
<1>3. CASE \E c \in Connections : SwitchConnection(c)
    BY <1>3 DEF SwitchConnection, server, ServerInv
<1>4. ASSUME NEW i \in DOMAIN imports, ImportSucceeds(i)
      PROVE  ServerInv'
    <2> DEFINE m == imports[i]
               sent == {d \in m.columns : d.add}
               new == {[name |-> c.db, auto |-> FALSE, required |-> FALSE] : c \in sent}
               tables == schema[m.connection]
               columns == IF m.table \in DOMAIN tables THEN tables[m.table] \cup new ELSE new
               after == With(tables, m.table, columns)
    <2>1. connection' = connection
        BY <1>4 DEF ImportSucceeds
    <2>2. schema' = [schema EXCEPT ![m.connection] = after] /\ targets' = [targets EXCEPT ![m.connection] = NONE]
        BY <1>4 DEF ImportSucceeds
    <2>3. m.connection \in Connections /\ IsFiniteSet(m.columns)
        BY DEF ImportsInv, IsImport
    <2>4. IsFiniteSet(new)
        <3> DEFINE f == [c \in sent |-> [name |-> c.db, auto |-> FALSE, required |-> FALSE]]
        <3>1. IsFiniteSet(sent)
            BY <2>3, FS_Subset
        <3>2. f = [c \in sent |-> f[c]] /\ new = {f[c] : c \in sent}
            OBVIOUS
        <3> HIDE DEF f, sent, new
        <3> QED
            BY <3>1, <3>2, Imaged
    <2> HIDE DEF new, m
    <2>5. FiniteTables(tables)
        BY <2>3 DEF ServerInv
    <2>6. IsFiniteSet(columns)
        BY <2>4, <2>5, FS_Union DEF FiniteTables
    <2> HIDE DEF columns, tables
    <2>7. FiniteTables(after)
        BY <2>5, <2>6 DEF FiniteTables, With
    <2> HIDE DEF after
    <2> QED
        BY <2>1, <2>2, <2>3, <2>7 DEF ServerInv
<1>5. UNCHANGED <<connection, schema, targets>> \/ FetchTargets \/ (\E c \in Connections : SwitchConnection(c))
      \/ \E i \in DOMAIN imports : ImportSucceeds(i)
    BY DEF WizardNext, ChooseFile, FileRead, ChangeSheet, Close, OpenPanel, CancelPanel, ContinuePaste, FetchSheet,
           SheetArrives, TypeContext, ApplyContext, FilterArrives, ClearContext, Back, Go, PickTable, ToggleKey,
           MapColumn, ToggleAdded, RenameAdded, NameTable, RenameColumn, RunImport, ImportFails, WizardOnly, server
<1> QED
    BY <1>1, <1>2, <1>3, <1>4, <1>5

\* The steps that change the imports or what the history says of them.
LEMMA ImportSteps ==
    ASSUME WizardNext
    PROVE  \/ imports' = imports /\ records' = records
           \/ RunImport
           \/ \E i \in DOMAIN imports : ImportSucceeds(i) \/ ImportFails(i)
BY DEF WizardNext, ChooseFile, FileRead, ChangeSheet, Close, OpenPanel, CancelPanel, ContinuePaste, FetchSheet,
       SheetArrives, TypeContext, ApplyContext, FilterArrives, ClearContext, Back, Go, PickTable, ToggleKey,
       MapColumn, ToggleAdded, RenameAdded, NameTable, RenameColumn, FetchTargets, SwitchConnection, WizardOnly, done

LEMMA ImportsKept ==
    ASSUME ImportInv, WizardNext
    PROVE  ImportsInv' /\ RecordsInv'
<1>1. CASE imports' = imports /\ records' = records
    BY <1>1 DEF ImportInv, ImportsInv, RecordsInv
<1>2. CASE RunImport
    <2> DEFINE m == Payload
               n == Len(imports) + 1
    <2>1. imports' = Append(imports, m) /\ records' = records
        BY <1>2 DEF RunImport
    <2>2. IsImport(m) /\ m.status = "running"
        BY <1>2, PayloadIsImport DEF ImportInv
    <2> HIDE DEF m
    <2>3. /\ IsList(imports') /\ DOMAIN imports' = DOMAIN imports \cup {n} /\ n \notin DOMAIN imports
          /\ imports'[n] = m /\ \A i \in DOMAIN imports : imports'[i] = imports[i]
        <3>1. OneMore(imports, m, imports')
            BY <2>1, AppendList DEF ImportInv, ImportsInv
        <3> QED
            BY <3>1 DEF OneMore
    <2> HIDE DEF n
    <2>4. ImportsInv'
        BY <2>2, <2>3 DEF ImportInv, ImportsInv
    <2>5. RecordsInv'
        BY <2>1, <2>2, <2>3 DEF ImportInv, RecordsInv
    <2> QED
        BY <2>4, <2>5
<1>3. ASSUME NEW i \in DOMAIN imports, ImportSucceeds(i) \/ ImportFails(i)
      PROVE  ImportsInv' /\ RecordsInv'
    <2> DEFINE v == imports'[i].status
               m == imports[i]
               n == [m EXCEPT !.status = v]
    <2>1. /\ IsImport(m) /\ IsImport(n) /\ n.status = v /\ n.file = m.file /\ n.sheet = m.sheet /\ n.filter = m.filter
          /\ m.status = "running"
        <3>1. IsImport(m)
            BY DEF ImportInv, ImportsInv
        <3>2. m.status = "running"
            BY <1>3 DEF ImportSucceeds, ImportFails
        <3> HIDE DEF m, v
        <3> QED
            BY <3>1, <3>2, ImportFields
    <2>2. /\ imports = [k \in DOMAIN imports |-> imports[k]] /\ IsList(imports)
        BY ListIs DEF ImportInv, ImportsInv
    <2>3. \/ imports' = [imports EXCEPT ![i].status = "done"]
          \/ imports' = [imports EXCEPT ![i].status = "failed"] /\ records' = records
        BY <1>3 DEF ImportSucceeds, ImportFails
    <2>4. /\ imports' = [k \in DOMAIN imports |-> imports'[k]] /\ DOMAIN imports' = DOMAIN imports
          /\ \A k \in DOMAIN imports \ {i} : imports'[k] = imports[k]
        BY <2>2, <2>3
    <2>5. imports'[i] = n
        <3>1. imports'[i] = [m EXCEPT !.status = "done"] \/ imports'[i] = [m EXCEPT !.status = "failed"]
            BY <2>3
        <3> HIDE DEF m
        <3>2. PICK w : imports'[i] = [m EXCEPT !.status = w]
            BY <3>1
        <3>3. [m EXCEPT !.status = w].status = w
            BY <2>1, ImportFields
        <3> QED
            BY <3>2, <3>3
    <2> HIDE DEF n
    <2>6. IsList(imports')
        BY <2>2, <2>4, ListOver
    <2>7. ImportsInv'
        BY <2>1, <2>4, <2>5, <2>6 DEF ImportInv, ImportsInv
    <2>8. \A k \in DOMAIN records : records[k].of # i
        BY <2>1 DEF ImportInv, RecordsInv
    <2>9. CASE ImportFails(i)
        <3>1. records' = records /\ v = "failed"
            <4>1. records' = records /\ imports'[i] = [m EXCEPT !.status = "failed"]
                BY <2>9 DEF ImportFails, done
            <4> HIDE DEF m
            <4>2. [m EXCEPT !.status = "failed"].status = "failed"
                BY <2>1, ImportFields
            <4> QED
                BY <4>1, <4>2
        <3> HIDE DEF v
        <3> QED
            BY <2>1, <2>4, <2>5, <2>7, <2>8, <3>1 DEF ImportInv, RecordsInv
    <2>10. CASE ImportSucceeds(i)
        <3> DEFINE entry == Entry(i)
                   l == Len(records) + 1
        <3>1. records' = Append(records, entry) /\ v = "done"
            <4>1. records' = Append(records, entry) /\ imports'[i] = [m EXCEPT !.status = "done"]
                BY <2>10 DEF ImportSucceeds
            <4> HIDE DEF m
            <4>2. [m EXCEPT !.status = "done"].status = "done"
                BY <2>1, ImportFields
            <4> QED
                BY <4>1, <4>2
        <3>2. entry.of = i /\ entry.file = m.file /\ entry.sheet = m.sheet /\ entry.filter = m.filter
            BY DEF Entry
        <3> HIDE DEF entry, v
        <3>3. /\ IsList(records') /\ DOMAIN records' = DOMAIN records \cup {l} /\ l \notin DOMAIN records
              /\ records'[l] = entry /\ \A k \in DOMAIN records : records'[k] = records[k]
            <4>1. OneMore(records, entry, records')
                BY <3>1, AppendList DEF ImportInv, RecordsInv
            <4> QED
                BY <4>1 DEF OneMore
        <3> HIDE DEF l
        <3>4. /\ imports'[i].status = "done" /\ imports'[i].file = m.file /\ imports'[i].sheet = m.sheet
              /\ imports'[i].filter = m.filter
            BY <2>1, <2>5, <3>1
        <3> HIDE DEF m
        <3>5. \A k \in DOMAIN records' : LET j == records'[k].of IN
                /\ j \in DOMAIN imports' /\ imports'[j].status = "done"
                /\ records'[k].file = imports'[j].file /\ records'[k].sheet = imports'[j].sheet
                /\ records'[k].filter = imports'[j].filter
            BY <2>4, <2>8, <3>2, <3>3, <3>4 DEF ImportInv, RecordsInv
        <3>6. \A j \in DOMAIN imports' : imports'[j].status = "done" => \E k \in DOMAIN records' : records'[k].of = j
            BY <2>4, <3>2, <3>3 DEF ImportInv, RecordsInv
        <3>7. \A k, j \in DOMAIN records' : records'[k].of = records'[j].of => k = j
            BY <2>8, <3>2, <3>3 DEF ImportInv, RecordsInv
        <3>8. RecordsInv'
            BY <3>3, <3>5, <3>6, <3>7 DEF RecordsInv
        <3> QED
            BY <2>7, <3>8
    <2> QED
        BY <1>3, <2>9, <2>10
<1> QED
    BY <1>1, <1>2, <1>3, ImportSteps

LEMMA ImportStart ==
    ASSUME DataImportAssumption, WizardInit
    PROVE  ImportInv
<1>1. WizardInv
    BY DEF WizardInit, WizardInv
<1>2. ServerInv
    BY DEF WizardInit, ServerInv, DataImportAssumption, FiniteTables
<1>3. imports = <<>> /\ records = <<>> /\ DOMAIN imports = {} /\ DOMAIN records = {}
    BY DEF WizardInit
<1>4. ImportsInv /\ RecordsInv
    BY <1>3, EmptyList DEF ImportsInv, RecordsInv
<1> QED
    BY <1>1, <1>2, <1>4 DEF ImportInv

LEMMA ImportKept ==
    ASSUME DataImportAssumption, ImportInv, [WizardNext]_wizardVars
    PROVE  ImportInv'
<1>1. CASE WizardNext
    BY <1>1, WizardInvKept, ServerInvKept, ImportsKept DEF ImportInv
<1>2. CASE UNCHANGED wizardVars
    <2>1. /\ connection' = connection /\ reading' = reading /\ upload' = upload /\ wizard' = wizard
          /\ schema' = schema /\ targets' = targets /\ imports' = imports /\ records' = records
        BY <1>2 DEF wizardVars, offer, server, done
    <2>2. WizardInv'
        BY <2>1, WizardSame DEF ImportInv
    <2>3. ServerInv'
        BY <2>1 DEF ImportInv, ServerInv
    <2>4. ImportsInv' /\ RecordsInv'
        BY <2>1 DEF ImportInv, ImportsInv, RecordsInv
    <2> QED
        BY <2>2, <2>3, <2>4 DEF ImportInv
<1> QED
    BY <1>1, <1>2

LEMMA ImportInvariant == WizardSpec => []ImportInv
<1>1. WizardInit => ImportInv
    BY ImportStart, DataImportAssumption
<1>2. ImportInv /\ [WizardNext]_wizardVars => ImportInv'
    BY ImportKept, DataImportAssumption
<1> QED
    BY <1>1, <1>2, PTL DEF WizardSpec

\* Each import that succeeded is in the history once, and its rows are those
\* of the sheet and filter the history names: of every file the parsers are
\* handed, whenever the answers come.
THEOREM ImportsRecorded == WizardSpec => []RecordedAsSent
<1>1. ImportInv => RecordedAsSent
    <2> SUFFICES ASSUME ImportInv, NEW i \in DOMAIN imports
                 PROVE  LET of == {k \in DOMAIN records : records[k].of = i} IN
                        /\ Cardinality(of) = (IF imports[i].status = "done" THEN 1 ELSE 0)
                        /\ \A k \in of :
                            \E sheet \in ToSet(Parsed(records[k].file)) :
                                /\ sheet.name = records[k].sheet
                                /\ imports[i].rows = IF records[k].filter = NONE THEN sheet.parsed.rows
                                                     ELSE ApplyRowFilter(sheet.parsed.rows, records[k].filter)
        BY DEF RecordedAsSent
    <2> DEFINE of == {k \in DOMAIN records : records[k].of = i}
    <2>1. RowsAsShown(imports[i])
        BY DEF ImportInv, ImportsInv, IsImport
    <2>2. \A k \in of : records[k].file = imports[i].file /\ records[k].sheet = imports[i].sheet
                        /\ records[k].filter = imports[i].filter /\ imports[i].status = "done"
        BY DEF ImportInv, RecordsInv
    <2>3. CASE imports[i].status = "done"
        <3>1. PICK k \in DOMAIN records : records[k].of = i
            BY <2>3 DEF ImportInv, RecordsInv
        <3>2. of = {k}
            BY <3>1 DEF ImportInv, RecordsInv
        <3>3. Cardinality(of) = 1
            BY <3>2, FS_Singleton
        <3> QED
            BY <2>1, <2>2, <2>3, <3>3 DEF RowsAsShown
    <2>4. CASE imports[i].status # "done"
        <3>1. of = {}
            BY <2>2, <2>4
        <3>2. Cardinality(of) = 0
            BY <3>1, FS_EmptySet
        <3> QED
            BY <2>4, <3>1, <3>2
    <2> QED
        BY <2>3, <2>4
<1> QED
    BY <1>1, ImportInvariant, PTL

\* What is sent fits the table that was shown when its columns were mapped,
\* and the file: of every table and file, in any order of edits and answers, but
\* for a wizard kept for another table, file or connection.
THEOREM SentFitsTable == WizardSpec => []SentFitsShown
<1>1. ImportInv => SentFitsShown
    BY DEF ImportInv, ImportsInv, IsImport, SentFits, SentFitsShown
<1> QED
    BY <1>1, ImportInvariant, PTL
=============================================================================
