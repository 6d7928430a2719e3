---------------------------- MODULE QueryPaging ----------------------------
(***************************************************************************)
(* executePaginated of apps/api/src/conversations/conversations.service.ts: *)
(* one page of a query, for every engine.                                   *)
(*                                                                          *)
(* A query is a record: how many rows its body returns, the limit and the   *)
(* offset it asks for and how they are written, whether the database runs   *)
(* it, can count it as a derived table and can explain it, and the          *)
(* estimates of its plan.  A row is its position in the body's order, which *)
(* the query is taken to fix.                                               *)
(***************************************************************************)
EXTENDS AiOrchestrator

CONSTANTS
    None,        \* no limit, no result, no edit
    MaxPageSize  \* MAX_PAGE_SIZE, 200 in the code

Engines == {"mysql", "postgres", "redshift", "snowflake", "sqlserver", "oracle"}
Query ==
    [rows : Nat, limit : Nat \cup {None}, skip : Nat,
     form : {"none", "limit", "fetch", "top"},
     runs : BOOLEAN, counts : BOOLEAN, explains : BOOLEAN, plan : Seq(Nat)]

Blocked == [type |-> "blocked"]
Failed == [type |-> "failed"]

\* cappedPageSize: an impossible size becomes the default of 50.
CappedPageSize(asked, default) == IF asked < 1 THEN default ELSE Min({asked, MaxPageSize})

\* splitLimit takes the limit off a query when it is written in the style it
\* looks for; written another way it stays.
OwnLimit(style, q) == IF q.form = style THEN q.limit ELSE None

\* The EXPLAIN of MySQL has an estimate per table, that of PostgreSQL is judged
\* by its root; what cannot be explained is let through.
MysqlScanAllowed(q) == q.explains => EstimateAllowed(q.plan)
PostgresScanAllowed(q) ==
    q.explains => EstimateAllowed(IF q.plan = <<>> THEN <<>> ELSE <<q.plan[Len(q.plan)]>>)

\* Mutant: the page is as long as asked, whatever the query's own limit.
FullPage(limit, pageSize, offset) == pageSize

EffLimit(limit, pageSize, offset) ==
    IF limit = None THEN pageSize ELSE Max({0, Min({pageSize, limit - offset})})

CappedTotal(count, limit) == IF limit = None THEN count ELSE Min({count, limit})

\* Math.ceil(total / pageSize)
PagesOf(total, pageSize) == (total + pageSize - 1) \div pageSize

Result(rows, total, page, pageSize, pages) ==
    [type |-> "rows", rows |-> rows, totalCount |-> total,
     page |-> page, pageSize |-> pageSize, totalPages |-> pages]

\* The fallback when COUNT(*) fails: the query as it is, on one page.
WholeQuery(q) ==
    LET last == IF q.limit = None THEN q.rows ELSE Min({q.rows, q.skip + q.limit})
        rows == (q.skip + 1)..last
    IN Result(rows, Cardinality(rows), 1, Cardinality(rows), 1)

\* The page after the count.  A limit that was not taken off makes two limits
\* of it, which no engine takes; an offset is taken off with its limit and lost.
CountedPage(style, q, page, pageSize) ==
    LET offset == (page - 1) * pageSize
        limit == OwnLimit(style, q)
        last == Min({offset + EffLimit(limit, pageSize, offset), q.rows})
        total == CappedTotal(q.rows, limit)
    IN IF q.form \notin {"none", style} THEN Failed
       ELSE Result((offset + 1)..last, total, page, pageSize, PagesOf(total, pageSize))

Paged(style, q, page, pageSize) ==
    IF ~q.runs THEN Failed
    ELSE IF q.counts THEN CountedPage(style, q, page, pageSize) ELSE WholeQuery(q)

MysqlPage(q, page, pageSize) ==
    IF MysqlScanAllowed(q) THEN Paged("limit", q, page, pageSize) ELSE Blocked

\* Mutant: PostgreSQL's estimate is not looked at.
PostgresPageUnscanned(q, page, pageSize) == Paged("limit", q, page, pageSize)

PostgresPage(q, page, pageSize) ==
    IF PostgresScanAllowed(q) THEN Paged("limit", q, page, pageSize) ELSE Blocked
RedshiftPage(q, page, pageSize) == Paged("limit", q, page, pageSize)
SnowflakePage(q, page, pageSize) == Paged("limit", q, page, pageSize)
OraclePage(q, page, pageSize) == Paged("fetch", q, page, pageSize)

\* SQL Server does not fetch zero rows.
SqlServerPage(q, page, pageSize) ==
    IF q.runs /\ q.counts /\ EffLimit(OwnLimit("top", q), pageSize, (page - 1) * pageSize) = 0
    THEN Failed ELSE Paged("top", q, page, pageSize)

ExecutePaginated(engine, q, page, pageSize) ==
    CASE engine = "postgres" -> PostgresPage(q, page, pageSize)
      [] engine = "redshift" -> RedshiftPage(q, page, pageSize)
      [] engine = "sqlserver" -> SqlServerPage(q, page, pageSize)
      [] engine = "snowflake" -> SnowflakePage(q, page, pageSize)
      [] engine = "oracle" -> OraclePage(q, page, pageSize)
      [] OTHER -> MysqlPage(q, page, pageSize)
=============================================================================
