---------------------------- MODULE Conversation ----------------------------
(***************************************************************************)
(* One conversation of apps/api/src/conversations/conversations.service.ts: *)
(* questions answered over a stream (generateSQLStream), data imports       *)
(* recorded in it (recordImport), interpretations chosen, and the SQL of    *)
(* its messages run against the customer's database (executeSQL).           *)
(*                                                                          *)
(* Every Prisma call is a step; nothing but the calls themselves is         *)
(* serialized.  The upsert of a history row is the find and the create or   *)
(* update that Prisma sends to MySQL.  Messages are kept in the order of    *)
(* createdAt, and a message is its position in it.                          *)
(***************************************************************************)
EXTENDS Naturals, Sequences, FiniteSets, FiniteSetsExt

CONSTANTS
    Asks,      \* questions sent to generateSQLStream
    Imports,   \* data imports sent to recordImport
    Runs,      \* requests for executeSQL
    Renames,   \* requests of people to rename the conversation
    Untitled,  \* the title "New Conversation"
    None,      \* no SQL, no history row, no result, no question
    Take,      \* how many messages the context is made of (6 in the code)
    Scenarios  \* what may happen, [active, serial, edits]: the requests that
               \* are sent, sets of requests whose members never overlap one
               \* another, and whether people run other SQL than the message
               \* shows or choose again among its interpretations

Posts == Asks \cup Imports
Requests == Posts \cup Runs \cup Renames

\* SQL is told apart by where it comes from.
Sqls == [of : Asks \cup Runs, how : {"generated", "option", "edited", "fixed"}]
Sql(source, form) == [of |-> source, how |-> form]

Rows == [sql : Sqls, by : Runs, status : {"SUCCESS", "ERROR"}, snapshot : BOOLEAN]

ASSUME ConversationAssumption ==
    /\ IsFiniteSet(Requests)
    /\ Asks \cap Imports = {} /\ Posts \cap Runs = {} /\ (Posts \cup Runs) \cap Renames = {}
    /\ None \notin Requests \cup Sqls \cup Rows /\ Untitled \notin Requests
    /\ Take \in Nat \ {0, 1}
    /\ \A s \in Scenarios :
        s.active \subseteq Requests /\ s.serial \subseteq SUBSET Requests /\ s.edits \in BOOLEAN

VARIABLES
    scenario,   \* the scenario, chosen at the start
    messages,   \* the messages, each with its query history row
    title,      \* the conversation's title
    pc,         \* the next call of each request
    own,        \* where the request's own question is, or the message it runs
    titleRead,  \* the title a request has read
    lastSql,    \* generateSQLStream: the newest message with SQL, and its SQL
    dropped,    \* generateSQLStream: the message left out of the context
    context,    \* generateSQLStream: the messages of the context
    lastResult, \* generateSQLStream: the SQL and the rows shown to the model
    sql,        \* executeSQL: effectiveSql
    repaired,   \* executeSQL: repaired
    row,        \* executeSQL: the history row to write
    found,      \* executeSQL: the upsert has found a row
    question    \* executeSQL: the question the insight is written for

post == <<titleRead, lastSql, dropped, context, lastResult>>
run == <<sql, repaired, row, found, question>>
vars == <<scenario, messages, title, pc, own, post, run>>

Message ==
    [role : {"USER", "ASSISTANT"}, by : Posts, options : BOOLEAN, sql : Sqls \cup {None},
     row : Rows \cup {None}, shown : Runs \cup {None}, tokens : Nat]
PcValues == {"idle", "context", "result", "answer", "title", "retitle", "run", "repair",
             "record", "blocked", "write", "insight", "update", "done", "failed"}

TypeOK ==
    /\ scenario \in Scenarios
    /\ messages \in Seq(Message)
    /\ title \in {Untitled} \cup Posts \cup Renames
    /\ pc \in [Requests -> PcValues]
    /\ own \in [Requests -> Nat]
    /\ titleRead \in [Posts -> {Untitled} \cup Posts \cup Renames]
    /\ lastSql \in [Asks -> {None} \cup [at : Nat, sql : Sqls]]
    /\ \A a \in Asks : lastSql[a] # None => lastSql[a].at \in DOMAIN messages
    /\ context \in [Asks -> SUBSET DOMAIN messages]
    /\ lastResult \in [Asks -> {None} \cup [sql : Sqls, rowsOf : Sqls]]
    /\ dropped \in [Asks -> Nat]
    /\ sql \in [Runs -> Sqls \cup {None}]
    /\ repaired \in [Runs -> BOOLEAN]
    /\ row \in [Runs -> Rows \cup {None}]
    /\ found \in [Runs -> BOOLEAN]
    /\ question \in [Runs -> Posts \cup {None}]

Init ==
    /\ scenario \in Scenarios
    /\ messages = <<>>
    /\ title = Untitled
    /\ pc = [q \in Requests |-> "idle"]
    /\ own = [q \in Requests |-> 0]
    /\ titleRead = [q \in Posts |-> Untitled]
    /\ lastSql = [a \in Asks |-> None]
    /\ dropped = [a \in Asks |-> 0]
    /\ context = [a \in Asks |-> {}]
    /\ lastResult = [a \in Asks |-> None]
    /\ sql = [x \in Runs |-> None]
    /\ repaired = [x \in Runs |-> FALSE]
    /\ row = [x \in Runs |-> None]
    /\ found = [x \in Runs |-> FALSE]
    /\ question = [x \in Runs |-> None]

-----------------------------------------------------------------------------
Running(q) == pc[q] \notin {"idle", "done", "failed"}
MayStart(q) ==
    /\ pc[q] = "idle" /\ q \in scenario.active
    /\ \A class \in scenario.serial : q \in class => \A p \in class : ~Running(p)
Goto(q, label) == pc' = [pc EXCEPT ![q] = label]

NewMessage(r, q, opts, text) ==
    [role |-> r, by |-> q, options |-> opts, sql |-> text,
     row |-> None, shown |-> None, tokens |-> 0]

\* message.create
Post(m) == messages' = Append(messages, m)

-----------------------------------------------------------------------------
(* generateSQLStream and recordImport                                      *)

SaveQuestion(q) ==
    /\ MayStart(q)
    /\ Post(NewMessage("USER", q, FALSE, None))
    /\ own' = [own EXCEPT ![q] = Len(messages) + 1]
    /\ Goto(q, IF q \in Asks THEN "context" ELSE "answer")
    /\ UNCHANGED <<title, post, run>>

\* The connection is gone or has no schema: the stream ends with an error.
NoSchema(a) ==
    /\ pc[a] = "context"
    /\ Goto(a, "failed")
    /\ UNCHANGED <<messages, title, own, post, run>>

\* The newest of a set of messages that has SQL.
LastSqlMessage(newest) ==
    LET withSql == {n \in newest : messages[n].sql # None} IN
    IF withSql = {} THEN None
    ELSE [at |-> Max(withSql), sql |-> messages[Max(withSql)].sql]

DroppedMessage(newest) == Max(newest)

\* The newest messages: the last one is dropped, the rest are the context,
\* and the newest one with SQL is the last query.
LoadContext(a) ==
    LET newest == {n \in DOMAIN messages : n + Take > Len(messages)} IN
    /\ pc[a] = "context"
    /\ dropped' = [dropped EXCEPT ![a] = DroppedMessage(newest)]
    /\ context' = [context EXCEPT ![a] = newest \ {DroppedMessage(newest)}]
    /\ lastSql' = [lastSql EXCEPT ![a] = LastSqlMessage(newest)]
    /\ Goto(a, "result")
    /\ UNCHANGED <<messages, title, own, titleRead, lastResult, run>>

\* The rows kept in the last query's history row, if it has any.
ReadLastResult(a) ==
    /\ pc[a] = "result"
    /\ lastResult' = [lastResult EXCEPT ![a] =
            IF lastSql[a] = None THEN None
            ELSE LET r == messages[lastSql[a].at].row IN
                 IF r # None /\ r.snapshot
                 THEN [sql |-> lastSql[a].sql, rowsOf |-> r.sql] ELSE None]
    /\ Goto(a, "answer")
    /\ UNCHANGED <<messages, title, own, titleRead, lastSql, dropped, context, run>>

\* The model's answer: a text, a choice of interpretations, or SQL.
SaveAnswer(q) ==
    /\ pc[q] = "answer"
    /\ \/ Post(NewMessage("ASSISTANT", q, FALSE, None))
       \/ q \in Asks /\ Post(NewMessage("ASSISTANT", q, TRUE, None))
       \/ q \in Asks /\ Post(NewMessage("ASSISTANT", q, FALSE, Sql(q, "generated")))
    /\ Goto(q, "title")
    /\ UNCHANGED <<title, own, post, run>>

\* The providers fail: the question stays without an answer.
AnswerFails(a) ==
    /\ pc[a] = "answer"
    /\ Goto(a, "failed")
    /\ UNCHANGED <<messages, title, own, post, run>>

\* updateTitleIfNeeded reads the title ...
ReadTitle(q) ==
    /\ pc[q] = "title"
    /\ titleRead' = [titleRead EXCEPT ![q] = title]
    /\ Goto(q, "retitle")
    /\ UNCHANGED <<messages, title, own, lastSql, dropped, context, lastResult, run>>

\* ... and replaces the default one by the question.
WriteTitle(q) ==
    /\ pc[q] = "retitle"
    /\ title' = IF titleRead[q] = Untitled THEN q ELSE title
    /\ Goto(q, "done")
    /\ UNCHANGED <<messages, own, post, run>>

\* A person renames the conversation.
Rename(h) ==
    /\ MayStart(h)
    /\ title' = h
    /\ Goto(h, "done")
    /\ UNCHANGED <<messages, own, post, run>>

\* chooseInterpretation: one of the stored options becomes the message's SQL.
ChooseInterpretation(n) ==
    /\ n \in DOMAIN messages
    /\ messages[n].options
    /\ messages[n].sql = None \/ scenario.edits
    /\ \A class \in scenario.serial : \A p \in class : ~Running(p)
    /\ \E form \in {"generated", "option"} :
        messages' = [messages EXCEPT ![n].sql = Sql(messages[n].by, form),
                                     ![n].shown = None]
    /\ messages' # messages
    /\ UNCHANGED <<title, pc, own, post, run>>

-----------------------------------------------------------------------------
(* executeSQL                                                              *)

HistoryRow(x, text, how, hasRows) ==
    [sql |-> text, by |-> x, status |-> how, snapshot |-> hasRows]

\* The SQL of a message, or what the user made of it, is sent.  The validator
\* may refuse it, the structural guardrail may block it.
StartRun(x) ==
    /\ MayStart(x)
    /\ \E n \in DOMAIN messages :
        /\ messages[n].sql # None
        /\ own' = [own EXCEPT ![x] = n]
        /\ \E text \in {messages[n].sql} \cup (IF scenario.edits THEN {Sql(x, "edited")} ELSE {}) :
            /\ sql' = [sql EXCEPT ![x] = text]
            /\ \/ Goto(x, "run") /\ UNCHANGED row
               \/ Goto(x, "failed") /\ UNCHANGED row
               \/ /\ Goto(x, "blocked")
                  /\ row' = [row EXCEPT ![x] = HistoryRow(x, text, "ERROR", FALSE)]
    /\ UNCHANGED <<messages, title, post, repaired, found, question>>

Record(x, label, how, hasRows) ==
    /\ row' = [row EXCEPT ![x] = HistoryRow(x, sql[x], how, hasRows)]
    /\ Goto(x, label)

\* executePaginated returns rows, perhaps none.
QuerySucceeds(x) ==
    /\ pc[x] = "run"
    /\ \E hasRows \in BOOLEAN : Record(x, "record", "SUCCESS", hasRows)
    /\ UNCHANGED <<messages, title, own, post, sql, repaired, found, question>>

\* The scan estimate is over the limit: recorded, never repaired.
QueryBlocked(x) ==
    /\ pc[x] = "run"
    /\ Record(x, "blocked", "ERROR", FALSE)
    /\ UNCHANGED <<messages, title, own, post, sql, repaired, found, question>>

\* The database refuses it: the first page is repaired, another page is not.
QueryFails(x) ==
    /\ pc[x] = "run"
    /\ \/ Goto(x, "repair") /\ UNCHANGED row
       \/ Record(x, "record", "ERROR", FALSE)
    /\ UNCHANGED <<messages, title, own, post, sql, repaired, found, question>>

\* tryRepair: the model's correction runs.
RepairSucceeds(x) ==
    /\ pc[x] = "repair"
    /\ sql' = [sql EXCEPT ![x] = Sql(x, "fixed")]
    /\ repaired' = [repaired EXCEPT ![x] = TRUE]
    /\ \E hasRows \in BOOLEAN :
        row' = [row EXCEPT ![x] = HistoryRow(x, Sql(x, "fixed"), "SUCCESS", hasRows)]
    /\ Goto(x, "record")
    /\ UNCHANGED <<messages, title, own, post, found, question>>

\* No correction, an identical or unsafe one, or it fails as well.
RepairFails(x) ==
    /\ pc[x] = "repair"
    /\ Record(x, "record", "ERROR", FALSE)
    /\ UNCHANGED <<messages, title, own, post, sql, repaired, found, question>>

\* queryHistory.upsert looks for the message's row ...
FindRow(x) ==
    /\ pc[x] \in {"record", "blocked"}
    /\ found' = [found EXCEPT ![x] = messages[own[x]].row # None]
    /\ Goto(x, "write")
    /\ UNCHANGED <<messages, title, own, post, sql, repaired, row, question>>

\* Mutant: an existing row is kept.
WriteRowOnce(x) ==
    /\ pc[x] = "write"
    /\ found[x] \/ messages[own[x]].row = None
    /\ messages' = [messages EXCEPT ![own[x]].row = IF @ = None THEN row[x] ELSE @]
    /\ Goto(x, IF row[x].status = "SUCCESS" THEN "insight" ELSE "failed")
    /\ UNCHANGED <<title, own, post, run>>

\* ... and updates it, or creates one.
WriteRow(x) ==
    /\ pc[x] = "write"
    /\ found[x] \/ messages[own[x]].row = None
    /\ messages' = [messages EXCEPT ![own[x]].row = row[x]]
    /\ Goto(x, IF row[x].status = "SUCCESS" THEN "insight" ELSE "failed")
    /\ UNCHANGED <<title, own, post, run>>

\* The create meets a row written meanwhile: messageId is unique.
Collide(x) ==
    /\ pc[x] = "write"
    /\ ~found[x] /\ messages[own[x]].row # None
    /\ Goto(x, "failed")
    /\ UNCHANGED <<messages, title, own, post, run>>

\* Mutant: the oldest question of the conversation.
FirstQuestion(n) ==
    LET asked == {m \in 1..(n - 1) : messages[m].role = "USER"} IN
    IF asked = {} THEN None ELSE messages[Min(asked)].by

\* The newest question before a message.
QuestionFor(n) ==
    LET asked == {m \in 1..(n - 1) : messages[m].role = "USER"} IN
    IF asked = {} THEN None ELSE messages[Max(asked)].by

\* The insight, written for that question when there are rows.
Insight(x) ==
    /\ pc[x] = "insight"
    /\ question' = [question EXCEPT ![x] = IF row[x].snapshot THEN QuestionFor(own[x]) ELSE @]
    /\ Goto(x, "update")
    /\ UNCHANGED <<messages, title, own, post, sql, repaired, row, found>>

Updated(x, m, persists, counts) ==
    [m EXCEPT !.shown = x,
              !.sql = IF persists THEN sql[x] ELSE @,
              !.tokens = IF counts THEN @ + 1 ELSE @]

\* Mutant: every run is counted as a repair.
UpdatedAlwaysCounts(x, m) == Updated(x, m, repaired[x], TRUE)

UpdatedMessage(x, m) == Updated(x, m, repaired[x], repaired[x])

\* The message shows the result and, after a repair, the SQL that ran.
UpdateMessage(x) ==
    /\ pc[x] = "update"
    /\ messages' = [messages EXCEPT ![own[x]] = UpdatedMessage(x, @)]
    /\ Goto(x, "done")
    /\ UNCHANGED <<title, own, post, run>>

-----------------------------------------------------------------------------
PostStep(q) == SaveQuestion(q) \/ SaveAnswer(q) \/ ReadTitle(q) \/ WriteTitle(q)

AskStep(a) == NoSchema(a) \/ LoadContext(a) \/ ReadLastResult(a) \/ AnswerFails(a)

RunStep(x) ==
    \/ StartRun(x) \/ QuerySucceeds(x) \/ QueryBlocked(x) \/ QueryFails(x)
    \/ RepairSucceeds(x) \/ RepairFails(x) \/ FindRow(x) \/ WriteRow(x) \/ Collide(x)
    \/ Insight(x) \/ UpdateMessage(x)

\* Nobody is waiting for an answer.
AllDone == (\A q \in Requests : ~Running(q)) /\ UNCHANGED <<messages, title, pc, own, post, run>>

Next ==
    /\ \/ \E q \in Posts : PostStep(q)
       \/ \E a \in Asks : AskStep(a)
       \/ \E h \in Renames : Rename(h)
       \/ \E n \in DOMAIN messages : ChooseInterpretation(n)
       \/ \E x \in Runs : RunStep(x)
       \/ AllDone
    /\ UNCHANGED scenario

Spec == Init /\ [][Next]_vars

-----------------------------------------------------------------------------
(* Properties                                                              *)

NoOverlap == scenario.active \in scenario.serial

\* getQuestionForMessage: "The user question that produced a given assistant
\* message": the insight of a run is written for the question its message
\* answers.
InsightForOwnQuestion ==
    \A x \in Runs : question[x] # None => question[x] = messages[own[x]].by

\* "drop the current (last) user message": the context leaves out the
\* question being answered, and nothing else of the newest messages.
ContextDropsOwnQuestion ==
    \A a \in Asks : dropped[a] # 0 => dropped[a] = own[a]

\* "Most recent executed query + its rows": the rows the model is told of are
\* those of the SQL it is told of.
LastResultPaired ==
    \A a \in Asks : lastResult[a] # None => lastResult[a].sql = lastResult[a].rowsOf

\* Messages are matched by their order alone.  As long as requests do not
\* overlap, what the model is given belongs to the question it is given for;
\* the last result does so until edited SQL is run.
GivenForOwnQuestion ==
    NoOverlap =>
        /\ InsightForOwnQuestion
        /\ ContextDropsOwnQuestion
        /\ scenario.edits \/ LastResultPaired

\* A message shows a result only after a successful run of that message was
\* recorded in the query history, whatever other runs of it do.
ShownIsRecorded ==
    \A n \in DOMAIN messages : LET x == messages[n].shown IN
        x # None => /\ own[x] = n /\ row[x].status = "SUCCESS"
                    /\ messages[n].row # None

\* ... and once runs that did not overlap have ended, it is the one its
\* history row keeps, unless an interpretation was chosen since.
HistoryAndMessageAgree ==
    /\ ShownIsRecorded
    /\ NoOverlap => \A n \in DOMAIN messages : LET r == messages[n].row IN
        /\ r # None /\ r.status = "SUCCESS"
        /\ \A x \in Runs : own[x] = n => ~Running(x)
        => messages[n].shown \in {None, r.by}

\* "roll the repair's token cost into the message's telemetry": each repair is
\* counted once, whatever overlaps.
RepairsCounted ==
    \A n \in DOMAIN messages :
        messages[n].tokens =
            Cardinality({x \in Runs : own[x] = n /\ repaired[x] /\ pc[x] = "done"})

\* Corrected SQL replaces a message's SQL only after it ran and was recorded.
FixedSqlRan ==
    \A n \in DOMAIN messages :
        messages'[n].sql # None /\ messages'[n].sql.how = "fixed"
        /\ messages'[n].sql # messages[n].sql
        => \E x \in Runs : own[x] = n /\ row[x] # None /\ row[x].sql = messages'[n].sql
                           /\ row[x].status = "SUCCESS"

\* A query that failed is corrected and run again once, however runs overlap.
RepairsSettled == [][RepairsCounted' /\ FixedSqlRan]_vars
=============================================================================
