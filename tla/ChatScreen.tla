----------------------------- MODULE ChatScreen -----------------------------
(***************************************************************************)
(* A conversation on the screen: apps/web/src/features/chat/ (useChat.ts,   *)
(* ChatInterface.tsx, AssistantMessage.tsx, chat.api.ts) and                *)
(* stores/chat.store.ts, against the conversations API, whose requests are  *)
(* a step each here: what happens within one is module Conversation's.      *)
(*                                                                          *)
(* A question travels over a stream of events, a run over a request; both   *)
(* go on when the screen is left.  What the hooks remember (a question on   *)
(* its way, a run on its way) is lost then, what the stores hold is not.    *)
(***************************************************************************)
EXTENDS QueryPaging

CONSTANTS
    Replies,     \* what the three providers may reply: a set of sequences
    Edited,      \* SQL people may put in the place of a message's
    PageSize,    \* the page size the screen asks for, 50 in the code
    MaxAsks, MaxRuns, MaxMounts \* bounds on questions, runs and visits

\* A query without a limit is written without one.
UsableReply == [options : Seq(Sqls), says : {"sql", "chat", "cannot_answer"}, sql : Sqls \cup {NoSql}]
ASSUME ChatScreenAssumption ==
    /\ \A s \in Sqls : /\ Facts[s].query \in Query
                       /\ Facts[s].query.form = "none" => Facts[s].query.limit = None
    /\ NoSql \notin Sqls /\ Edited \subseteq Sqls
    /\ Replies \subseteq Seq(UsableReply \cup {NoReply})
    /\ PageSize \in Nat \ {0} /\ MaxPageSize \in Nat \ {0}

VARIABLES
    engine,    \* the engine of the connection
    conv,      \* the messages the server holds
    ran,       \* the SQL that was run against the database
    asks,      \* the questions on their way: stage and the visit they belong to
    cached,    \* how many of the messages, and their SQL, the query cache holds
    refetch,   \* the query cache is stale and asking again
    mount,     \* which visit of the screen this is
    pending,   \* useGenerateSQL: isPending
    optimistic,\* optimisticMessages: the question shown before the server has it
    edited,    \* editedSQL of each message
    results,   \* messageResults: the result, the SQL that gave it and the run
    runs,      \* the runs asked for
    running    \* executeSQL.isPending of each message's card

screen == <<cached, refetch, pending, optimistic>>
cards == <<edited, results, runs, running>>
vars == <<engine, conv, ran, asks, mount, screen, cards>>

Cards == 1..(2 * MaxAsks)

Init ==
    /\ engine \in Engines
    /\ conv = <<>> /\ ran = {} /\ asks = <<>> /\ cached = <<>>
    /\ refetch = FALSE
    /\ mount = 1
    /\ pending = FALSE
    /\ optimistic = None
    /\ edited = [n \in Cards |-> None]
    /\ results = [n \in Cards |-> None]
    /\ runs = <<>>
    /\ running = [n \in Cards |-> None]

Message(role, ask, type, s, options) ==
    [role |-> role, ask |-> ask, type |-> type, sql |-> s, options |-> options]

-----------------------------------------------------------------------------
(* Asking: handleSend, useGenerateSQL, chatApi.generateSQL                 *)

\* The input is closed while a question of this visit is on its way.
Send ==
    /\ ~pending
    /\ Len(asks) < MaxAsks
    /\ asks' = Append(asks, [stage |-> "sent", mount |-> mount])
    /\ pending' = TRUE
    /\ optimistic' = Len(asks) + 1
    /\ UNCHANGED <<engine, conv, ran, mount, cached, refetch, cards>>

Stage(a, stage) == asks' = [asks EXCEPT ![a].stage = stage]

\* The server saves the question first ...
SaveQuestion(a) ==
    /\ asks[a].stage = "sent"
    /\ conv' = Append(conv, Message("USER", a, "question", NoSql, {}))
    /\ Stage(a, "saved")
    /\ UNCHANGED <<engine, ran, mount, screen, cards>>

\* ... and its answer when the providers give one; the last event follows.
Answer(a) ==
    /\ asks[a].stage = "saved"
    /\ \E replies \in Replies :
        LET answer == GenerateSQL(replies) IN
        IF answer = Nothing THEN Stage(a, "error") /\ UNCHANGED conv
        ELSE /\ Stage(a, "done")
             /\ conv' = Append(conv, Message("ASSISTANT", a, answer.type,
                    IF answer.type = "sql" THEN answer.sql ELSE NoSql,
                    IF answer.type = "clarification" THEN answer.options ELSE {}))
    /\ UNCHANGED <<engine, ran, mount, screen, cards>>

\* The request is refused, the server has no schema or the connection breaks.
Interrupted(a) ==
    /\ asks[a].stage \in {"sent", "saved"}
    /\ Stage(a, "error")
    /\ UNCHANGED <<engine, conv, ran, mount, screen, cards>>

\* What the callbacks of a question set, unless its visit is over.
Settle(a) ==
    /\ pending' = (pending /\ asks[a].mount # mount)
    /\ optimistic' = IF asks[a].mount = mount THEN None ELSE optimistic

\* Mutant: an error does not ask for the conversation again.
ReadErrorOnly(a) ==
    /\ asks[a].stage = "error"
    /\ Stage(a, "read")
    /\ Settle(a)
    /\ UNCHANGED <<engine, conv, ran, mount, cached, refetch, cards>>

ReadDone(a) ==
    /\ asks[a].stage = "done"
    /\ Stage(a, "read")
    /\ Settle(a)
    /\ refetch' = TRUE
    /\ UNCHANGED <<engine, conv, ran, mount, cached, cards>>

\* "The user message is persisted server-side before generation, so refetch to
\* keep it visible even though generation failed."
ReadError(a) ==
    /\ asks[a].stage = "error"
    /\ Stage(a, "read")
    /\ Settle(a)
    /\ refetch' = TRUE
    /\ UNCHANGED <<engine, conv, ran, mount, cached, cards>>

\* The last event arrives in two reads: its name is forgotten in between, and
\* no callback is called.
LoseEvent(a) ==
    /\ asks[a].stage \in {"done", "error"}
    /\ Stage(a, "lost")
    /\ UNCHANGED <<engine, conv, ran, mount, screen, cards>>

\* The query cache gets the conversation.
Refetched ==
    /\ refetch
    /\ refetch' = FALSE
    /\ cached' = conv
    /\ UNCHANGED <<engine, conv, ran, asks, mount, pending, optimistic, cards>>

\* The screen is left and opened again: what it held itself is gone, and the
\* conversation, always stale, is asked for.
Reopen ==
    /\ mount < MaxMounts
    /\ mount' = mount + 1
    /\ pending' = FALSE /\ optimistic' = None /\ refetch' = TRUE
    /\ running' = [n \in Cards |-> None]
    /\ UNCHANGED <<engine, conv, ran, asks, cached, edited, results, runs>>

\* chooseInterpretation: an option shown becomes the message's SQL.
Choose(n) ==
    /\ n \in DOMAIN cached
    /\ cached[n].sql = NoSql
    /\ \E option \in cached[n].options :
        conv' = [conv EXCEPT ![n].sql = option, ![n].type = "sql"]
    /\ refetch' = TRUE
    /\ UNCHANGED <<engine, ran, asks, mount, cached, pending, optimistic, cards>>

-----------------------------------------------------------------------------
(* Running: the card of a message, useExecuteSQL, executeSQL               *)

HasSql(n) == n \in DOMAIN cached /\ cached[n].sql # NoSql

\* getEditedSQL
ShownSql(n) == IF edited[n] # None THEN edited[n] ELSE cached[n].sql

\* handleSaveEdit
Edit(n) ==
    /\ HasSql(n)
    /\ \E s \in Edited : s # ShownSql(n) /\ edited' = [edited EXCEPT ![n] = s]
    /\ UNCHANGED <<engine, conv, ran, asks, mount, screen, results, runs, running>>

\* The run button asks for the first page, the arrows for the pages beside
\* the one shown.
PagesOffered(n) ==
    {1} \cup (IF results[n] = None \/ results[n].totalPages <= 1 THEN {}
              ELSE {results[n].page - 1, results[n].page + 1} \cap 1..results[n].totalPages)

Run(n) ==
    /\ HasSql(n)
    /\ running[n] = None
    /\ Len(runs) < MaxRuns
    /\ \E page \in PagesOffered(n) :
        runs' = Append(runs, [at |-> n, sql |-> ShownSql(n), page |-> page,
                              stage |-> "sent", result |-> None])
    /\ running' = [running EXCEPT ![n] = Len(runs) + 1]
    /\ UNCHANGED <<engine, conv, ran, asks, mount, screen, edited, results>>

Page(s, page) ==
    ExecutePaginated(engine, Facts[s].query, page, CappedPageSize(PageSize, PageSize))

\* tryRepair: another query, validated once more before it is run.
Repaired(replies, s) ==
    LET repair == RepairSQL(replies) IN
    IF repair \in {Nothing, GiveUp} \/ repair.sql = s \/ ~Valid(repair.sql) THEN NoSql ELSE repair.sql

\* The page with the SQL that gave it.
Response(result, s, asked) ==
    [type |-> IF s # asked THEN "repaired" ELSE "rows", rows |-> result.rows,
     totalCount |-> result.totalCount, page |-> result.page, pageSize |-> result.pageSize,
     totalPages |-> result.totalPages, sql |-> s, asked |-> asked]

Answered(r, result, s) ==
    runs' = [runs EXCEPT ![r] = [@ EXCEPT !.stage = "answered", !.result =
        IF result.type = "rows" THEN Response(result, s, runs[r].sql) ELSE None]]

\* A refused query is not run, a blocked one and the pages after the first are
\* not repaired, and the correction replaces the message's SQL.
ExecuteSQL(r) ==
    LET s == runs[r].sql
        first == Page(s, runs[r].page)
        refused == ~Valid(s) \/ ~StructureAllowed(s)
    IN
    /\ runs[r].stage = "sent"
    /\ IF refused \/ first.type # "failed" \/ runs[r].page # 1
       THEN /\ ran' = IF refused \/ first = Blocked THEN ran ELSE ran \cup {s}
            /\ Answered(r, IF refused THEN Blocked ELSE first, s)
            /\ UNCHANGED conv
       ELSE \E replies \in Replies :
            LET fixed == Repaired(replies, s)
                second == IF fixed = NoSql THEN Failed ELSE Page(fixed, 1)
            IN /\ ran' = ran \cup {s} \cup
                    (IF fixed = NoSql \/ second = Blocked THEN {} ELSE {fixed})
               /\ Answered(r, second, fixed)
               /\ conv' = IF second.type = "rows"
                          THEN [conv EXCEPT ![runs[r].at].sql = fixed] ELSE conv
    /\ UNCHANGED <<engine, asks, mount, screen, edited, results, running>>

\* onSuccess: the result is kept, and a correction asked for.
RunReturns(r) ==
    LET n == runs[r].at IN
    /\ runs[r].stage = "answered"
    /\ runs' = [runs EXCEPT ![r].stage = "done"]
    /\ running' = [running EXCEPT ![n] = IF @ = r THEN None ELSE @]
    /\ IF runs[r].result = None THEN UNCHANGED <<results, refetch>>
       ELSE /\ results' = [results EXCEPT ![n] = runs[r].result]
            /\ refetch' = (refetch \/ runs[r].result.type = "repaired")
    /\ UNCHANGED <<engine, conv, ran, asks, mount, cached, pending, optimistic, edited>>

-----------------------------------------------------------------------------
Next ==
    \/ Send \/ Reopen \/ Refetched
    \/ \E a \in DOMAIN asks : \/ SaveQuestion(a) \/ Answer(a) \/ Interrupted(a)
                              \/ ReadDone(a) \/ ReadError(a) \/ LoseEvent(a)
    \/ \E n \in Cards : Choose(n) \/ Edit(n) \/ Run(n)
    \/ \E r \in DOMAIN runs : ExecuteSQL(r) \/ RunReturns(r)

\* The server answers what it has begun, the browser reads what arrives.
Spec ==
    /\ Init /\ [][Next]_vars
    /\ WF_vars(Refetched)
    /\ \A a \in 1..MaxAsks :
        WF_vars(a \in DOMAIN asks /\ (SaveQuestion(a) \/ Answer(a) \/ ReadDone(a) \/ ReadError(a)))

-----------------------------------------------------------------------------
\* Only one read-only statement at a time reaches the customer's database,
\* written by a model, chosen, edited or corrected, and no scan whose estimate
\* is over the limit where the engine gives one.
RanSqlIsGuarded ==
    \A s \in ran :
        /\ Valid(s)
        /\ engine = "mysql" => MysqlScanAllowed(Facts[s].query)
        /\ engine = "postgres" => PostgresScanAllowed(Facts[s].query)

\* The rows shown are the rows the footer counts: positions
\* (page - 1) * size + 1 to min(page * size, total) of the query's own rows,
\* whatever limit it has and whichever path gave them.  Queries with an offset
\* of their own are left out: it is dropped with their limit.
FooterCountsRows ==
    \A n \in Cards : results[n] # None /\ Facts[results[n].sql].query.skip = 0 =>
        LET r == results[n]
            q == Facts[r.sql].query
            total == IF q.limit = None THEN q.rows ELSE Min({q.rows, q.limit})
        IN /\ r.totalCount = total
           /\ r.rows = ((r.page - 1) * r.pageSize + 1)..Min({r.page * r.pageSize, total})

\* A question the server has saved stays on the screen, also when no answer
\* comes, unless the event that ends its stream is lost.
Visible(a) == optimistic = a \/ \E n \in DOMAIN cached : cached[n].ask = a
Lost(a) == a \in DOMAIN asks /\ asks[a].stage = "lost"
Saved(a) == \E n \in DOMAIN conv : conv[n].ask = a
SavedQuestionStaysShown ==
    \A a \in 1..MaxAsks :
        <>[](Saved(a) => Visible(a) \/ Lost(a))

\* "refetch so the SQL block shows the corrected version that actually ran"
\* (useChat.ts): once nothing is on its way, a card whose result was repaired
\* no longer shows the SQL that failed.
CorrectedSqlShown ==
    \A n \in Cards :
        /\ results[n] # None /\ results[n].type = "repaired" /\ ~refetch
        /\ \A r \in DOMAIN runs : runs[r].at = n => runs[r].stage = "done"
        => ShownSql(n) # results[n].asked
=============================================================================
