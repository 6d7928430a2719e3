-------------------------- MODULE ConversationProofs --------------------------
(***************************************************************************)
(* What questions, runs and imports of one conversation may do to one      *)
(* another, for any number of them and in any scenario.                    *)
(***************************************************************************)
EXTENDS Conversation, FiniteSetTheorems, WellFoundedInduction, TLAPS

LEMMA MaxOf ==
    ASSUME NEW n \in Nat, NEW S, S \subseteq 1..n, S # {}
    PROVE  Max(S) \in S /\ \A y \in S : Max(S) >= y
<1>0. S \subseteq Int
    OBVIOUS
<1> DEFINE T == {n - y : y \in S}
<1>1. T \subseteq Nat /\ T # {}
    OBVIOUS
<1>2. \E x \in T : \A y \in T : ~(<<y, x>> \in OpToRel(<, Nat))
    <2> HIDE DEF T
    <2> QED
        BY <1>1, NatLessThanWellFounded, WFMin, Zenon
<1>3. PICK x \in T : \A y \in T : ~(y < x)
    BY <1>1, <1>2 DEF OpToRel
<1>4. PICK m \in S : x = n - m
    BY <1>3
<1>5. \A y \in S : m >= y
    <2> TAKE y \in S
    <2>1. n - y \in T
        OBVIOUS
    <2>2. ~(n - y < n - m)
        BY <1>3, <1>4, <2>1
    <2>3. y \in Nat /\ m \in Nat
        OBVIOUS
    <2> HIDE DEF T
    <2> QED
        BY <2>2, <2>3
<1>6. \E z \in S : \A y \in S : z >= y
    BY <1>5
<1> QED
    BY <1>6 DEF Max

-----------------------------------------------------------------------------
(* Types                                                                   *)

LEMMA Appended ==
    ASSUME messages \in Seq(Message), NEW m \in Message, Post(m)
    PROVE  /\ messages' \in Seq(Message)
           /\ DOMAIN messages \subseteq DOMAIN messages'
           /\ Len(messages) \in Nat /\ Len(messages') = Len(messages) + 1
           /\ DOMAIN messages = 1..Len(messages) /\ DOMAIN messages' = 1..(Len(messages) + 1)
           /\ \A n \in DOMAIN messages : messages'[n] = messages[n]
           /\ messages'[Len(messages) + 1] = m
<1>1. messages' = Append(messages, m)
    BY DEF Post
<1>2. messages' \in Seq(Message)
    BY <1>1
<1>3. Len(messages) \in Nat /\ Len(messages') = Len(messages) + 1
    BY <1>1
<1>4. DOMAIN messages = 1..Len(messages) /\ DOMAIN messages' = 1..(Len(messages) + 1)
    BY <1>2, <1>3
<1>5. \A n \in DOMAIN messages : messages'[n] = messages[n]
    BY <1>1
<1>6. messages'[Len(messages) + 1] = m
    BY <1>1
<1>7. DOMAIN messages \subseteq DOMAIN messages'
    BY <1>3, <1>4
<1> QED
    BY <1>2, <1>3, <1>4, <1>5, <1>6, <1>7

LEMMA Replaced ==
    ASSUME messages \in Seq(Message), NEW n \in DOMAIN messages, NEW m \in Message,
           messages' = [messages EXCEPT ![n] = m]
    PROVE  /\ messages' \in Seq(Message)
           /\ Len(messages) \in Nat /\ Len(messages') = Len(messages)
           /\ DOMAIN messages = 1..Len(messages) /\ DOMAIN messages' = DOMAIN messages
           /\ messages'[n] = m /\ \A k \in DOMAIN messages : k # n => messages'[k] = messages[k]
<1>1. Len(messages) \in Nat /\ DOMAIN messages = 1..Len(messages)
    OBVIOUS
<1>2. messages' \in Seq(Message)
    OBVIOUS
<1>3. DOMAIN messages' = DOMAIN messages
    OBVIOUS
<1>4. Len(messages') = Len(messages)
    BY <1>1, <1>2, <1>3
<1>5. messages'[n] = m /\ \A k \in DOMAIN messages : k # n => messages'[k] = messages[k]
    OBVIOUS
<1> QED
    BY <1>1, <1>2, <1>3, <1>4, <1>5

LEMMA MessageAt ==
    ASSUME messages \in Seq(Message), NEW n \in DOMAIN messages
    PROVE  /\ messages[n] \in Message /\ n \in 1..Len(messages) /\ Len(messages) \in Nat
           /\ messages[n].sql \in Sqls \cup {None} /\ messages[n].row \in Rows \cup {None}
           /\ messages[n].shown \in Runs \cup {None} /\ messages[n].by \in Posts
           /\ messages[n].options \in BOOLEAN /\ messages[n].tokens \in Nat
           /\ messages[n].role \in {"USER", "ASSISTANT"}
<1>1. messages[n] \in Message /\ n \in 1..Len(messages) /\ Len(messages) \in Nat
    OBVIOUS
<1> QED
    BY <1>1 DEF Message

LEMMA NewMessageType ==
    ASSUME NEW q \in Posts, NEW r \in {"USER", "ASSISTANT"}, NEW opts \in BOOLEAN, NEW text \in Sqls \cup {None}
    PROVE  NewMessage(r, q, opts, text) \in Message
BY DEF NewMessage, Message

LEMMA SqlType ==
    ASSUME NEW q \in Asks \cup Runs, NEW form \in {"generated", "option", "edited", "fixed"}
    PROVE  Sql(q, form) \in Sqls
BY DEF Sql, Sqls

LEMMA HistoryRowType ==
    ASSUME NEW x \in Runs, NEW text \in Sqls, NEW how \in {"SUCCESS", "ERROR"}, NEW hasRows \in BOOLEAN
    PROVE  HistoryRow(x, text, how, hasRows) \in Rows
BY DEF HistoryRow, Rows

LEMMA TypeInit == Init => TypeOK
BY DEF Init, TypeOK, PcValues

PostType ==
    /\ titleRead \in [Posts -> {Untitled} \cup Posts \cup Renames]
    /\ lastSql \in [Asks -> {None} \cup [at : Nat, sql : Sqls]]
    /\ \A a \in Asks : lastSql[a] # None => lastSql[a].at \in DOMAIN messages
    /\ context \in [Asks -> SUBSET DOMAIN messages]
    /\ lastResult \in [Asks -> {None} \cup [sql : Sqls, rowsOf : Sqls]]
    /\ dropped \in [Asks -> Nat]
RunType ==
    /\ sql \in [Runs -> Sqls \cup {None}]
    /\ repaired \in [Runs -> BOOLEAN]
    /\ row \in [Runs -> Rows \cup {None}]
    /\ found \in [Runs -> BOOLEAN]
    /\ question \in [Runs -> Posts \cup {None}]
OtherType ==
    /\ scenario \in Scenarios
    /\ messages \in Seq(Message)
    /\ title \in {Untitled} \cup Posts \cup Renames
    /\ pc \in [Requests -> PcValues]
    /\ own \in [Requests -> Nat]

LEMMA TypeParts == TypeOK <=> PostType /\ RunType /\ OtherType
BY DEF TypeOK, PostType, RunType, OtherType

LEMMA TypePartsNext == ASSUME PostType', RunType', OtherType' PROVE TypeOK'
BY DEF TypeOK, PostType, RunType, OtherType

LEMMA PostTypeKept ==
    ASSUME PostType, DOMAIN messages \subseteq DOMAIN messages', UNCHANGED post
    PROVE  PostType'
<1>1. context \in [Asks -> SUBSET DOMAIN messages']
    BY DEF PostType
<1> QED
    BY <1>1 DEF PostType, post

LEMMA RunTypeKept == ASSUME RunType, UNCHANGED run PROVE RunType'
BY DEF RunType, run

(* What the steps do to the messages: add one, change one, or none.        *)

LEMMA QuestionAdds ==
    ASSUME TypeOK, NEW q \in Posts, SaveQuestion(q), scenario' = scenario
    PROVE  TypeOK' /\ NewMessage("USER", q, FALSE, None) \in Message
<1>1. PostType /\ RunType /\ OtherType
    BY TypeParts
<1>2. NewMessage("USER", q, FALSE, None) \in Message
    BY NewMessageType
<1>a. messages \in Seq(Message) /\ Post(NewMessage("USER", q, FALSE, None))
    BY <1>1 DEF SaveQuestion, OtherType
<1>3. messages' \in Seq(Message) /\ DOMAIN messages \subseteq DOMAIN messages'
    BY <1>a, <1>2, Appended
<1>4. OtherType'
    BY <1>1, <1>3 DEF SaveQuestion, OtherType, Goto, Requests, PcValues
<1>5. PostType' /\ RunType'
    BY <1>1, <1>3, PostTypeKept, RunTypeKept DEF SaveQuestion
<1> QED
    BY <1>2, <1>4, <1>5, TypePartsNext

LEMMA AnswerAdds ==
    ASSUME TypeOK, NEW q \in Posts, SaveAnswer(q), scenario' = scenario
    PROVE  /\ TypeOK'
           /\ \E m \in Message : Post(m) /\ m.by = q /\ m.role = "ASSISTANT" /\ m.row = None /\ m.shown = None
                                /\ m.tokens = 0 /\ (m.options => q \in Asks)
<1>1. PostType /\ RunType /\ OtherType
    BY TypeParts
<1>2. PICK opts \in BOOLEAN, text \in Sqls \cup {None} :
            Post(NewMessage("ASSISTANT", q, opts, text)) /\ (opts => q \in Asks)
    BY SqlType DEF SaveAnswer
<1> DEFINE m == NewMessage("ASSISTANT", q, opts, text)
<1>3. m \in Message
    BY NewMessageType
<1>4. messages' \in Seq(Message) /\ DOMAIN messages \subseteq DOMAIN messages'
    <2>1. messages \in Seq(Message) /\ Post(m)
        BY <1>1, <1>2 DEF OtherType
    <2> HIDE DEF m
    <2> QED
        BY <2>1, <1>3, Appended
<1>5. OtherType'
    BY <1>1, <1>4 DEF SaveAnswer, OtherType, Goto, Requests, PcValues
<1>6. PostType' /\ RunType'
    BY <1>1, <1>4, PostTypeKept, RunTypeKept DEF SaveAnswer
<1>7. Post(m) /\ m.by = q /\ m.role = "ASSISTANT" /\ m.row = None /\ m.shown = None /\ m.tokens = 0
      /\ (m.options => q \in Asks)
    BY <1>2 DEF NewMessage
<1>8. TypeOK'
    BY <1>5, <1>6, TypePartsNext
<1> HIDE DEF m
<1>9. \E k \in Message : Post(k) /\ k.by = q /\ k.role = "ASSISTANT" /\ k.row = None /\ k.shown = None
                         /\ k.tokens = 0 /\ (k.options => q \in Asks)
    BY <1>3, <1>7
<1> QED
    BY <1>8, <1>9

\* A request that has begun has its place among the messages, a run its
\* SQL; interpretations are offered for questions.
Placed ==
    /\ \A q \in Posts \cup Runs : pc[q] # "idle" => own[q] \in DOMAIN messages
    /\ \A x \in Runs : pc[x] # "idle" => sql[x] \in Sqls
    /\ \A n \in DOMAIN messages : messages[n].options => messages[n].by \in Asks

\* Steps of questions, imports and people that leave the messages alone.
Aside(q) ==
    \/ q \in Asks /\ AskStep(q)
    \/ q \in Posts /\ (ReadTitle(q) \/ WriteTitle(q))
    \/ q \in Renames /\ Rename(q)

LEMMA AsideFrame ==
    ASSUME TypeOK, Placed, NEW q, Aside(q), scenario' = scenario
    PROVE  /\ TypeOK' /\ q \in Requests \ Runs /\ UNCHANGED <<messages, own, run>>
           /\ \A p \in Requests : p # q => pc'[p] = pc[p]
           /\ \A p \in Runs : pc'[p] = pc[p]
<1>1. PostType /\ RunType /\ OtherType
    BY TypeParts
<1>2. q \in Requests \ Runs /\ UNCHANGED <<messages, own, run>>
    BY ConversationAssumption DEF Aside, AskStep, NoSchema, LoadContext, ReadLastResult, AnswerFails, ReadTitle,
        WriteTitle, Rename, Requests, Posts
<1>3. /\ pc' \in [Requests -> PcValues]
      /\ \A p \in Requests : p # q => pc'[p] = pc[p]
    BY <1>1, <1>2 DEF Aside, AskStep, NoSchema, LoadContext, ReadLastResult, AnswerFails, ReadTitle,
        WriteTitle, Rename, OtherType, Goto, PcValues
<1>4. title' \in {Untitled} \cup Posts \cup Renames
    BY <1>1 DEF Aside, AskStep, NoSchema, LoadContext, ReadLastResult, AnswerFails, ReadTitle,
        WriteTitle, Rename, OtherType
<1>5. OtherType' /\ RunType'
    BY <1>1, <1>2, <1>3, <1>4, RunTypeKept DEF OtherType
<1>6. PostType'
    <2>1. CASE UNCHANGED post
        BY <1>1, <1>2, <2>1, PostTypeKept
    <2>2. CASE q \in Posts /\ ReadTitle(q)
        BY <1>1, <2>2 DEF PostType, ReadTitle, OtherType
    <2>3. CASE q \in Asks /\ LoadContext(q)
        <3> DEFINE newest == {n \in DOMAIN messages : n + Take > Len(messages)}
        <3>1. lastSql'[q] \in {None} \cup [at : Nat, sql : Sqls]
              /\ (lastSql'[q] # None => lastSql'[q].at \in DOMAIN messages)
            <4> DEFINE withSql == {n \in newest : messages[n].sql # None}
            <4>1. lastSql'[q] = LastSqlMessage(newest)
                BY <1>1, <2>3 DEF LoadContext, PostType
            <4>2. CASE withSql = {}
                BY <4>1, <4>2 DEF LastSqlMessage
            <4>3. CASE withSql # {}
                <5>1. Max(withSql) \in withSql
                    BY <1>1, <4>3, MaxOf, Len(messages) \in Nat, withSql \subseteq 1..Len(messages) DEF OtherType
                <5>2. messages[Max(withSql)].sql \in Sqls /\ Max(withSql) \in DOMAIN messages
                      /\ Max(withSql) \in Nat
                    BY <1>1, <5>1, MessageAt DEF OtherType
                <5>3. lastSql'[q] = [at |-> Max(withSql), sql |-> messages[Max(withSql)].sql]
                    BY <4>1, <4>3 DEF LastSqlMessage
                <5> HIDE DEF withSql
                <5> QED
                    BY <5>2, <5>3
            <4> QED
                BY <4>2, <4>3
        <3>2. dropped'[q] \in Nat
            <4>1. own[q] \in DOMAIN messages
                BY <2>3 DEF LoadContext, Posts, Placed
            <4>2. Len(messages) \in newest
                BY <1>1, <4>1, ConversationAssumption DEF OtherType
            <4>3. Max(newest) \in newest
                BY <1>1, <4>2, MaxOf, Len(messages) \in Nat, newest \subseteq 1..Len(messages) DEF OtherType
            <4>4. Max(newest) \in Nat
                BY <1>1, <4>3 DEF OtherType
            <4>5. dropped'[q] = Max(newest)
                BY <1>1, <2>3 DEF LoadContext, DroppedMessage, PostType
            <4> QED
                BY <4>4, <4>5
        <3>3. context' \in [Asks -> SUBSET DOMAIN messages']
            BY <1>1, <1>2, <2>3 DEF LoadContext, PostType
        <3>4. /\ lastSql' \in [Asks -> {None} \cup [at : Nat, sql : Sqls]]
              /\ \A a \in Asks : lastSql'[a] # None => lastSql'[a].at \in DOMAIN messages'
            BY <1>1, <1>2, <2>3, <3>1 DEF LoadContext, PostType
        <3>5. dropped' \in [Asks -> Nat]
            BY <1>1, <2>3, <3>2 DEF LoadContext, PostType
        <3> QED
            BY <1>1, <2>3, <3>3, <3>4, <3>5 DEF LoadContext, PostType
    <2>4. CASE q \in Asks /\ ReadLastResult(q)
        <3>1. lastResult'[q] \in {None} \cup [sql : Sqls, rowsOf : Sqls]
            <4>1. CASE lastSql[q] = None
                BY <1>1, <2>4, <4>1 DEF ReadLastResult, PostType
            <4>2. CASE lastSql[q] # None
                <5> DEFINE r == messages[lastSql[q].at].row
                <5>1. lastSql[q].sql \in Sqls /\ lastSql[q].at \in DOMAIN messages
                    BY <1>1, <2>4, <4>2 DEF PostType
                <5>2. r \in Rows \cup {None}
                    BY <1>1, <5>1, MessageAt DEF OtherType
                <5>3. r # None => r.sql \in Sqls
                    BY <5>2 DEF Rows
                <5>4. lastResult'[q] = IF r # None /\ r.snapshot
                                       THEN [sql |-> lastSql[q].sql, rowsOf |-> r.sql] ELSE None
                    BY <1>1, <2>4, <4>2 DEF ReadLastResult, PostType
                <5> HIDE DEF r
                <5> QED
                    BY <5>1, <5>3, <5>4
            <4> QED
                BY <4>1, <4>2
        <3> QED
            BY <1>1, <1>2, <2>4, <3>1 DEF ReadLastResult, PostType
    <2> QED
        BY <2>1, <2>2, <2>3, <2>4 DEF Aside, AskStep, NoSchema, AnswerFails, WriteTitle, Rename
<1>7. TypeOK'
    BY <1>5, <1>6, TypePartsNext
<1>8. \A p \in Runs : pc'[p] = pc[p]
    BY <1>2, <1>3 DEF Requests
<1> QED
    BY <1>2, <1>3, <1>7, <1>8

\* Steps of a run before its row is written and while its insight is.
Inside(x) ==
    \/ StartRun(x) \/ QuerySucceeds(x) \/ QueryBlocked(x) \/ QueryFails(x) \/ RepairSucceeds(x)
    \/ RepairFails(x) \/ FindRow(x) \/ Collide(x) \/ Insight(x)

LEMMA OwnQuestionAsked ==
    ASSUME TypeOK, NEW n \in DOMAIN messages
    PROVE  QuestionFor(n) \in Posts \cup {None}
<1> DEFINE asked == {m \in 1..(n - 1) : messages[m].role = "USER"}
<1>1. messages \in Seq(Message)
    BY DEF TypeOK
<1>2. n \in 1..Len(messages) /\ Len(messages) \in Nat
    BY <1>1, MessageAt
<1>3. CASE asked = {}
    BY <1>3 DEF QuestionFor
<1>4. CASE asked # {}
    <2>1. Max(asked) \in asked
        BY <1>2, <1>4, MaxOf, asked \subseteq 1..Len(messages)
    <2>2. Max(asked) \in DOMAIN messages
        BY <1>1, <1>2, <2>1
    <2>3. messages[Max(asked)].by \in Posts
        BY <1>1, <2>2, MessageAt
    <2> QED
        BY <1>4, <2>3 DEF QuestionFor
<1> QED
    BY <1>3, <1>4

LEMMA InsideFrame ==
    ASSUME TypeOK, Placed, NEW x \in Runs, Inside(x), scenario' = scenario
    PROVE  /\ TypeOK' /\ UNCHANGED <<messages, post>> /\ own' = [own EXCEPT ![x] = own'[x]]
           /\ pc' = [pc EXCEPT ![x] = pc'[x]]
           /\ sql' = [sql EXCEPT ![x] = sql'[x]] /\ repaired' = [repaired EXCEPT ![x] = repaired'[x]]
           /\ row' = [row EXCEPT ![x] = row'[x]] /\ question' = [question EXCEPT ![x] = question'[x]]
<1>1. PostType /\ RunType /\ OtherType /\ x \in Requests
    BY TypeParts DEF Requests
<1>2. UNCHANGED <<messages, title, post>>
    BY DEF Inside, StartRun, QuerySucceeds, QueryBlocked, QueryFails, RepairSucceeds, RepairFails, FindRow, Collide,
        Insight
<1>3. pc' \in [Requests -> PcValues] /\ pc' = [pc EXCEPT ![x] = pc'[x]]
    BY <1>1 DEF Inside, StartRun, QuerySucceeds, QueryBlocked, QueryFails, RepairSucceeds, RepairFails, FindRow, Collide,
        Insight, Record, OtherType, Goto, PcValues
<1>4. own' \in [Requests -> Nat] /\ own' = [own EXCEPT ![x] = own'[x]]
    <2>1. CASE StartRun(x)
        <3>1. PICK n \in DOMAIN messages : own' = [own EXCEPT ![x] = n]
            BY <2>1 DEF StartRun
        <3>2. n \in Nat
            BY <1>1, MessageAt DEF OtherType
        <3> QED
            BY <1>1, <3>1, <3>2 DEF OtherType
    <2>2. CASE own' = own
        BY <1>1, <2>2 DEF OtherType
    <2> QED
        BY <2>1, <2>2 DEF Inside, QuerySucceeds, QueryBlocked, QueryFails, RepairSucceeds, RepairFails, FindRow, Collide,
            Insight
<1>5. sql' \in [Runs -> Sqls \cup {None}] /\ sql' = [sql EXCEPT ![x] = sql'[x]]
    <2>1. CASE StartRun(x)
        <3>1. PICK n \in DOMAIN messages, text \in Sqls : sql' = [sql EXCEPT ![x] = text]
            <4>1. PICK n \in DOMAIN messages : /\ messages[n].sql # None
                    /\ \E text \in {messages[n].sql} \cup (IF scenario.edits THEN {Sql(x, "edited")} ELSE {}) :
                            sql' = [sql EXCEPT ![x] = text]
                BY <2>1 DEF StartRun
            <4>2. messages[n].sql \in Sqls /\ Sql(x, "edited") \in Sqls
                BY <1>1, <4>1, MessageAt, SqlType DEF OtherType
            <4> QED
                BY <4>1, <4>2
        <3> QED
            BY <1>1, <3>1 DEF RunType
    <2>2. CASE RepairSucceeds(x)
        BY <1>1, <2>2, SqlType DEF RunType, RepairSucceeds
    <2>3. CASE sql' = sql
        BY <1>1, <2>3 DEF RunType
    <2> QED
        BY <2>1, <2>2, <2>3 DEF Inside, QuerySucceeds, QueryBlocked, QueryFails, RepairFails, FindRow, Collide,
            Insight, run
<1>6. repaired' \in [Runs -> BOOLEAN] /\ repaired' = [repaired EXCEPT ![x] = repaired'[x]]
    BY <1>1 DEF Inside, StartRun, QuerySucceeds, QueryBlocked, QueryFails, RepairSucceeds, RepairFails, FindRow, Collide,
        Insight, RunType, run
<1>7. found' \in [Runs -> BOOLEAN]
    BY <1>1 DEF Inside, StartRun, QuerySucceeds, QueryBlocked, QueryFails, RepairSucceeds, RepairFails, FindRow, Collide,
        Insight, RunType, run
<1>8. question' \in [Runs -> Posts \cup {None}] /\ question' = [question EXCEPT ![x] = question'[x]]
    <2>1. CASE Insight(x)
        <3>1. own[x] \in DOMAIN messages
            BY <2>1 DEF Insight, Placed
        <3>2. QuestionFor(own[x]) \in Posts \cup {None}
            BY <3>1, OwnQuestionAsked
        <3> QED
            BY <1>1, <2>1, <3>2 DEF Insight, RunType
    <2>2. CASE question' = question
        BY <1>1, <2>2 DEF RunType
    <2> QED
        BY <2>1, <2>2 DEF Inside, StartRun, QuerySucceeds, QueryBlocked, QueryFails, RepairSucceeds, RepairFails,
            FindRow, Collide, run
<1>10. OtherType' /\ PostType'
    BY <1>1, <1>2, <1>3, <1>4, PostTypeKept DEF OtherType
<1>11. row' \in [Runs -> Rows \cup {None}] /\ row' = [row EXCEPT ![x] = row'[x]]
    <2>1. ASSUME NEW text \in Sqls, NEW how \in {"SUCCESS", "ERROR"}, NEW hasRows \in BOOLEAN,
                 row' = [row EXCEPT ![x] = HistoryRow(x, text, how, hasRows)]
          PROVE  row' \in [Runs -> Rows \cup {None}] /\ row' = [row EXCEPT ![x] = row'[x]]
        BY <1>1, <2>1, HistoryRowType DEF RunType
    <2>2. CASE row' = row
        BY <1>1, <2>2 DEF RunType
    <2>3. CASE StartRun(x) /\ row' # row
        <3>1. PICK n \in DOMAIN messages : /\ messages[n].sql # None
                /\ \E text \in {messages[n].sql} \cup (IF scenario.edits THEN {Sql(x, "edited")} ELSE {}) :
                        row' = [row EXCEPT ![x] = HistoryRow(x, text, "ERROR", FALSE)]
            BY <2>3 DEF StartRun
        <3>2. messages[n].sql \in Sqls /\ Sql(x, "edited") \in Sqls
            BY <1>1, <3>1, MessageAt, SqlType DEF OtherType
        <3> QED
            BY <2>1, <3>1, <3>2
    <2>4. CASE RepairSucceeds(x)
        <3>1. Sql(x, "fixed") \in Sqls
            BY SqlType
        <3> QED
            BY <2>1, <2>4, <3>1 DEF RepairSucceeds
    <2>5. CASE QuerySucceeds(x) \/ QueryBlocked(x) \/ (QueryFails(x) /\ row' # row) \/ RepairFails(x)
        <3>1. sql[x] \in Sqls
            BY <1>1, <2>5 DEF Placed, QuerySucceeds, QueryBlocked, QueryFails, RepairFails
        <3>2. PICK how \in {"SUCCESS", "ERROR"}, hasRows \in BOOLEAN :
                    row' = [row EXCEPT ![x] = HistoryRow(x, sql[x], how, hasRows)]
            BY <2>5 DEF QuerySucceeds, QueryBlocked, QueryFails, RepairFails, Record
        <3> QED
            BY <2>1, <3>1, <3>2
    <2> QED
        BY <2>2, <2>3, <2>4, <2>5 DEF Inside, FindRow, Collide, Insight, run
<1>12. RunType'
    BY <1>5, <1>6, <1>7, <1>8, <1>11 DEF RunType
<1>13. TypeOK'
    BY <1>10, <1>12, TypePartsNext
<1> QED
    BY <1>2, <1>3, <1>4, <1>5, <1>6, <1>8, <1>11, <1>13

LEMMA ReplacedType ==
    ASSUME TypeOK, NEW n \in DOMAIN messages, NEW m \in Message, messages' = [messages EXCEPT ![n] = m],
           UNCHANGED <<scenario, title, own, post, run>>, pc' \in [Requests -> PcValues]
    PROVE  TypeOK'
<1>1. PostType /\ RunType /\ OtherType
    BY TypeParts
<1>2. messages' \in Seq(Message) /\ DOMAIN messages' = DOMAIN messages
    BY <1>1, Replaced DEF OtherType
<1>3. OtherType'
    BY <1>1, <1>2 DEF OtherType
<1>4. PostType' /\ RunType'
    BY <1>1, <1>2, PostTypeKept, RunTypeKept
<1> QED
    BY <1>3, <1>4, TypePartsNext

\* Writing the row, and showing the result.
LEMMA WriteFrame ==
    ASSUME TypeOK, Placed, NEW x \in Runs, WriteRow(x), row[x] \in Rows, scenario' = scenario
    PROVE  /\ TypeOK' /\ UNCHANGED <<own, post, run>>
           /\ pc' = [pc EXCEPT ![x] = IF row[x].status = "SUCCESS" THEN "insight" ELSE "failed"]
           /\ own[x] \in DOMAIN messages
           /\ \E m \in Message : /\ messages' = [messages EXCEPT ![own[x]] = m]
                                 /\ m = [messages[own[x]] EXCEPT !.row = row[x]]
<1> DEFINE m == [messages[own[x]] EXCEPT !.row = row[x]]
<1>1. PostType /\ RunType /\ OtherType /\ x \in Requests
    BY TypeParts DEF Requests
<1>2. own[x] \in DOMAIN messages
    BY DEF WriteRow, Placed
<1>3. m \in Message
    <2>1. messages[own[x]] \in Message
        BY <1>1, <1>2, MessageAt DEF OtherType
    <2> QED
        BY <2>1 DEF Message
<1>4. messages' = [messages EXCEPT ![own[x]] = m] /\ UNCHANGED <<title, own, post, run>>
    BY <1>1, <1>2 DEF WriteRow, OtherType
<1>5. pc' \in [Requests -> PcValues]
      /\ pc' = [pc EXCEPT ![x] = IF row[x].status = "SUCCESS" THEN "insight" ELSE "failed"]
    BY <1>1 DEF WriteRow, OtherType, Goto, PcValues
<1> HIDE DEF m
<1>6. TypeOK'
    BY <1>2, <1>3, <1>4, <1>5, ReplacedType
<1>7. \E k \in Message : messages' = [messages EXCEPT ![own[x]] = k] /\ k = [messages[own[x]] EXCEPT !.row = row[x]]
    BY <1>3, <1>4 DEF m
<1> QED
    BY <1>2, <1>4, <1>5, <1>6, <1>7

LEMMA UpdateFrame ==
    ASSUME TypeOK, Placed, NEW x \in Runs, UpdateMessage(x), scenario' = scenario
    PROVE  /\ TypeOK' /\ UNCHANGED <<own, post, run>> /\ pc' = [pc EXCEPT ![x] = "done"]
           /\ own[x] \in DOMAIN messages
           /\ \E m \in Message : /\ messages' = [messages EXCEPT ![own[x]] = m]
                                 /\ m = UpdatedMessage(x, messages[own[x]])
<1> DEFINE m == UpdatedMessage(x, messages[own[x]])
<1>1. PostType /\ RunType /\ OtherType /\ x \in Requests
    BY TypeParts DEF Requests
<1>2. own[x] \in DOMAIN messages /\ sql[x] \in Sqls
    BY DEF UpdateMessage, Placed
<1>3. m \in Message
    <2>1. messages[own[x]] \in Message
        BY <1>1, <1>2, MessageAt DEF OtherType
    <2> QED
        <3>1. UpdatedMessage(x, messages[own[x]]) =
                [messages[own[x]] EXCEPT !.shown = x, !.sql = IF repaired[x] THEN sql[x] ELSE @,
                                         !.tokens = IF repaired[x] THEN @ + 1 ELSE @]
            BY DEF UpdatedMessage, Updated
        <3>2. (IF repaired[x] THEN sql[x] ELSE messages[own[x]].sql) \in Sqls \cup {None}
            BY <1>2, <2>1 DEF Message
        <3>3. (IF repaired[x] THEN messages[own[x]].tokens + 1 ELSE messages[own[x]].tokens) \in Nat
            BY <2>1 DEF Message
        <3> QED
            BY <2>1, <3>1, <3>2, <3>3 DEF Message
<1>4. messages' = [messages EXCEPT ![own[x]] = m] /\ UNCHANGED <<title, own, post, run>>
    BY <1>1, <1>2 DEF UpdateMessage, OtherType
<1>5. pc' \in [Requests -> PcValues] /\ pc' = [pc EXCEPT ![x] = "done"]
    BY <1>1 DEF UpdateMessage, OtherType, Goto, PcValues
<1> HIDE DEF m
<1>6. TypeOK'
    BY <1>2, <1>3, <1>4, <1>5, ReplacedType
<1>7. \E k \in Message : messages' = [messages EXCEPT ![own[x]] = k] /\ k = UpdatedMessage(x, messages[own[x]])
    BY <1>3, <1>4 DEF m
<1> QED
    BY <1>2, <1>4, <1>5, <1>6, <1>7

LEMMA ChooseFrame ==
    ASSUME TypeOK, Placed, NEW n \in DOMAIN messages, ChooseInterpretation(n), scenario' = scenario
    PROVE  /\ TypeOK' /\ UNCHANGED <<pc, own, post, run>>
           /\ \E text \in Sqls, m \in Message : /\ messages' = [messages EXCEPT ![n] = m]
                 /\ m = [messages[n] EXCEPT !.sql = text, !.shown = None] /\ text.how # "fixed"
<1>1. PostType /\ RunType /\ OtherType
    BY TypeParts
<1>2. PICK form \in {"generated", "option"} :
            messages' = [messages EXCEPT ![n].sql = Sql(messages[n].by, form), ![n].shown = None]
    BY DEF ChooseInterpretation
<1> DEFINE text == Sql(messages[n].by, form)
           m == [messages[n] EXCEPT !.sql = text, !.shown = None]
<1>3. messages[n].by \in Asks
    BY DEF ChooseInterpretation, Placed
<1>4. text \in Sqls /\ text.how # "fixed"
    BY <1>3, SqlType DEF Sql
<1>5. m \in Message
    <2>1. messages[n] \in Message
        BY <1>1, MessageAt DEF OtherType
    <2> HIDE DEF text
    <2> QED
        BY <2>1, <1>4 DEF Message
<1>6. messages' = [messages EXCEPT ![n] = m]
    <2> HIDE DEF text
    <2> QED
        BY <1>1, <1>2 DEF OtherType, text
<1>7. UNCHANGED <<scenario, title, pc, own, post, run>> /\ pc' \in [Requests -> PcValues]
    BY <1>1 DEF ChooseInterpretation, OtherType
<1> HIDE DEF m
<1>8. TypeOK'
    BY <1>5, <1>6, <1>7, ReplacedType
<1> HIDE DEF text
<1>9. m = [messages[n] EXCEPT !.sql = text, !.shown = None]
    BY DEF m
<1> QED
    BY <1>4, <1>5, <1>6, <1>7, <1>8, <1>9

-----------------------------------------------------------------------------
(* Runs and what they leave in the messages                                *)

RunOK(x) ==
    /\ pc[x] = "idle" => ~repaired[x] /\ row[x] = None /\ question[x] = None
    /\ pc[x] # "idle" => messages[own[x]].sql # None
    /\ pc[x] \in {"record", "blocked", "write", "insight", "update", "done"} =>
            row[x] # None /\ row[x].sql = sql[x] /\ row[x].by = x
    /\ pc[x] \in {"insight", "update", "done"} =>
            row[x].status = "SUCCESS" /\ messages[own[x]].row # None
    /\ row[x] # None /\ row[x].snapshot => row[x].status = "SUCCESS"
    /\ repaired[x] => pc[x] \in {"record", "write", "insight", "update", "done", "failed"}

MessageOK(n) ==
    /\ messages[n].role = "USER" => messages[n].sql = None /\ ~messages[n].options
    /\ messages[n].row # None => messages[n].sql # None
    /\ messages[n].row # None /\ messages[n].row.snapshot => messages[n].row.status = "SUCCESS"

RunsInv == (\A x \in Runs : RunOK(x)) /\ (\A n \in DOMAIN messages : MessageOK(n))

\* Messages are never taken away, and keep their author, their role, and what
\* has been written to them.
Grow ==
    \A n \in DOMAIN messages :
        /\ n \in DOMAIN messages'
        /\ messages'[n].by = messages[n].by /\ messages'[n].role = messages[n].role
        /\ messages'[n].options = messages[n].options
        /\ messages[n].sql # None => messages'[n].sql # None
        /\ messages[n].row # None => messages'[n].row # None

\* Nothing of a run changes.
Same(x) ==
    /\ pc'[x] = pc[x] /\ own'[x] = own[x] /\ sql'[x] = sql[x] /\ repaired'[x] = repaired[x]
    /\ row'[x] = row[x] /\ question'[x] = question[x]

LEMMA NextCases ==
    ASSUME Next
    PROVE  /\ scenario' = scenario
           /\ \/ \E q \in Posts : SaveQuestion(q)
              \/ \E q \in Posts : SaveAnswer(q)
              \/ \E q \in Requests : Aside(q)
              \/ \E x \in Runs : Inside(x)
              \/ \E x \in Runs : WriteRow(x)
              \/ \E x \in Runs : UpdateMessage(x)
              \/ \E n \in DOMAIN messages : ChooseInterpretation(n)
              \/ UNCHANGED vars
BY DEF Next, PostStep, RunStep, AllDone, Aside, Inside, vars, Requests, Posts

LEMMA PostSame ==
    ASSUME TypeOK, NEW q \in Posts, SaveQuestion(q) \/ SaveAnswer(q)
    PROVE  \A x \in Runs : Same(x)
<1>1. q \notin Runs /\ q \in Requests
    BY ConversationAssumption DEF Requests
<1>2. \A x \in Runs : x \in Requests /\ x # q
    BY <1>1 DEF Requests
<1>3. pc \in [Requests -> PcValues] /\ own \in [Requests -> Nat]
    BY DEF TypeOK
<1>4. \A x \in Runs : pc'[x] = pc[x]
    BY <1>2, <1>3 DEF SaveQuestion, SaveAnswer, Goto
<1>5. \A x \in Runs : own'[x] = own[x]
    BY <1>2, <1>3 DEF SaveQuestion, SaveAnswer
<1>6. UNCHANGED run
    BY DEF SaveQuestion, SaveAnswer
<1> QED
    BY <1>4, <1>5, <1>6 DEF Same, run

LEMMA QuestionGrows ==
    ASSUME TypeOK, NEW q \in Posts, SaveQuestion(q), scenario' = scenario
    PROVE  /\ Grow /\ Len(messages) \in Nat /\ DOMAIN messages = 1..Len(messages)
           /\ DOMAIN messages' = 1..(Len(messages) + 1) /\ Len(messages') = Len(messages) + 1
           /\ \A n \in DOMAIN messages : messages'[n] = messages[n]
           /\ messages'[Len(messages) + 1] = NewMessage("USER", q, FALSE, None)
<1> DEFINE m == NewMessage("USER", q, FALSE, None)
<1>1. m \in Message
    BY QuestionAdds
<1>2. messages \in Seq(Message) /\ Post(m)
    BY DEF TypeOK, SaveQuestion
<1> HIDE DEF m
<1>3. /\ DOMAIN messages \subseteq DOMAIN messages' /\ Len(messages) \in Nat
      /\ DOMAIN messages = 1..Len(messages)
      /\ DOMAIN messages' = 1..(Len(messages) + 1) /\ Len(messages') = Len(messages) + 1
      /\ \A n \in DOMAIN messages : messages'[n] = messages[n]
      /\ messages'[Len(messages) + 1] = m
    BY <1>1, <1>2, Appended
<1>4. Grow
    BY <1>3 DEF Grow
<1> QED
    BY <1>3, <1>4 DEF m

LEMMA AnswerGrows ==
    ASSUME TypeOK, NEW q \in Posts, SaveAnswer(q), scenario' = scenario
    PROVE  /\ Grow /\ Len(messages) \in Nat /\ DOMAIN messages = 1..Len(messages)
           /\ DOMAIN messages' = 1..(Len(messages) + 1) /\ Len(messages') = Len(messages) + 1
           /\ \A n \in DOMAIN messages : messages'[n] = messages[n]
           /\ LET m == messages'[Len(messages) + 1] IN
                m.by = q /\ m.role = "ASSISTANT" /\ m.row = None /\ m.shown = None /\ m.tokens = 0
                /\ (m.options => q \in Asks)
<1>1. PICK m \in Message : Post(m) /\ m.by = q /\ m.role = "ASSISTANT" /\ m.row = None /\ m.shown = None
                         /\ m.tokens = 0 /\ (m.options => q \in Asks)
    BY AnswerAdds
<1>2. messages \in Seq(Message)
    BY DEF TypeOK
<1>3. /\ DOMAIN messages \subseteq DOMAIN messages' /\ Len(messages) \in Nat
      /\ DOMAIN messages = 1..Len(messages)
      /\ DOMAIN messages' = 1..(Len(messages) + 1) /\ Len(messages') = Len(messages) + 1
      /\ \A n \in DOMAIN messages : messages'[n] = messages[n]
      /\ messages'[Len(messages) + 1] = m
    BY <1>1, <1>2, Appended
<1>4. Grow
    BY <1>3 DEF Grow
<1> QED
    BY <1>1, <1>3, <1>4

LEMMA ReplacedAt ==
    ASSUME TypeOK, NEW n \in DOMAIN messages, NEW m \in Message, messages' = [messages EXCEPT ![n] = m]
    PROVE  /\ DOMAIN messages' = DOMAIN messages /\ Len(messages') = Len(messages)
           /\ messages'[n] = m /\ \A k \in DOMAIN messages : k # n => messages'[k] = messages[k]
<1>1. messages \in Seq(Message)
    BY DEF TypeOK
<1> QED
    BY <1>1, Replaced

LEMMA AsideSame ==
    ASSUME TypeOK, Placed, NEW q, Aside(q), scenario' = scenario
    PROVE  messages' = messages /\ \A x \in Runs : Same(x)
BY AsideFrame DEF Same, run

LEMMA InsideSame ==
    ASSUME TypeOK, Placed, NEW x \in Runs, Inside(x), scenario' = scenario
    PROVE  messages' = messages /\ \A y \in Runs \ {x} : Same(y)
<1>1. /\ UNCHANGED <<messages, post>> /\ own' = [own EXCEPT ![x] = own'[x]]
      /\ pc' = [pc EXCEPT ![x] = pc'[x]]
      /\ sql' = [sql EXCEPT ![x] = sql'[x]] /\ repaired' = [repaired EXCEPT ![x] = repaired'[x]]
      /\ row' = [row EXCEPT ![x] = row'[x]] /\ question' = [question EXCEPT ![x] = question'[x]]
    BY InsideFrame
<1> QED
    BY <1>1 DEF TypeOK, Same, Requests

LEMMA WriteGrows ==
    ASSUME TypeOK, Placed, NEW x \in Runs, WriteRow(x), row[x] \in Rows, scenario' = scenario
    PROVE  Grow /\ \A y \in Runs \ {x} : Same(y)
<1>1. PICK m \in Message : /\ messages' = [messages EXCEPT ![own[x]] = m]
                           /\ m = [messages[own[x]] EXCEPT !.row = row[x]]
    BY WriteFrame
<1>2. own[x] \in DOMAIN messages
    BY WriteFrame
<1>3. /\ DOMAIN messages' = DOMAIN messages
      /\ messages'[own[x]] = m /\ \A k \in DOMAIN messages : k # own[x] => messages'[k] = messages[k]
    BY <1>1, <1>2, ReplacedAt
<1>4. messages[own[x]] \in Message /\ row[x] # None
    BY <1>2, MessageAt, ConversationAssumption DEF TypeOK
<1>5. /\ m.by = messages[own[x]].by /\ m.role = messages[own[x]].role /\ m.options = messages[own[x]].options
      /\ m.sql = messages[own[x]].sql /\ m.row # None
    BY <1>1, <1>4 DEF Message
<1>6. Grow
    BY <1>3, <1>5 DEF Grow
<1>7. UNCHANGED <<own, run>> /\ pc' = [pc EXCEPT ![x] = IF row[x].status = "SUCCESS" THEN "insight" ELSE "failed"]
    BY WriteFrame
<1>8. \A y \in Runs \ {x} : Same(y)
    BY <1>7 DEF TypeOK, Same, Requests, run
<1> QED
    BY <1>6, <1>8

LEMMA UpdateGrows ==
    ASSUME TypeOK, Placed, NEW x \in Runs, UpdateMessage(x), scenario' = scenario
    PROVE  /\ Grow /\ \A y \in Runs \ {x} : Same(y)
           /\ own[x] \in DOMAIN messages /\ DOMAIN messages' = DOMAIN messages
           /\ \A k \in DOMAIN messages : k # own[x] => messages'[k] = messages[k]
           /\ messages'[own[x]].shown = x
           /\ messages'[own[x]].sql = (IF repaired[x] THEN sql[x] ELSE messages[own[x]].sql)
           /\ messages'[own[x]].row = messages[own[x]].row
           /\ messages'[own[x]].tokens = (IF repaired[x] THEN messages[own[x]].tokens + 1 ELSE messages[own[x]].tokens)
<1>1. PICK m \in Message : /\ messages' = [messages EXCEPT ![own[x]] = m]
                           /\ m = UpdatedMessage(x, messages[own[x]])
    BY UpdateFrame
<1>2. own[x] \in DOMAIN messages
    BY UpdateFrame
<1>3. /\ DOMAIN messages' = DOMAIN messages
      /\ messages'[own[x]] = m /\ \A k \in DOMAIN messages : k # own[x] => messages'[k] = messages[k]
    BY <1>1, <1>2, ReplacedAt
<1>4. messages[own[x]] \in Message /\ sql[x] # None
    BY <1>2, MessageAt, ConversationAssumption DEF TypeOK, Placed, UpdateMessage
<1>5. /\ m.by = messages[own[x]].by /\ m.role = messages[own[x]].role /\ m.options = messages[own[x]].options
      /\ m.shown = x /\ m.row = messages[own[x]].row
      /\ m.sql = (IF repaired[x] THEN sql[x] ELSE messages[own[x]].sql)
      /\ m.tokens = (IF repaired[x] THEN messages[own[x]].tokens + 1 ELSE messages[own[x]].tokens)
    BY <1>1, <1>4 DEF Message, UpdatedMessage, Updated
<1>6. Grow
    BY <1>3, <1>4, <1>5 DEF Grow
<1>7. UNCHANGED <<own, run>> /\ pc' = [pc EXCEPT ![x] = "done"]
    BY UpdateFrame
<1>8. \A y \in Runs \ {x} : Same(y)
    BY <1>7 DEF TypeOK, Same, Requests, run
<1> QED
    BY <1>2, <1>3, <1>5, <1>6, <1>8

LEMMA ChooseGrows ==
    ASSUME TypeOK, Placed, NEW n \in DOMAIN messages, ChooseInterpretation(n), scenario' = scenario
    PROVE  /\ Grow /\ \A y \in Runs : Same(y)
           /\ DOMAIN messages' = DOMAIN messages
           /\ \A k \in DOMAIN messages : k # n => messages'[k] = messages[k]
           /\ messages'[n].shown = None /\ messages'[n].row = messages[n].row
           /\ messages'[n].tokens = messages[n].tokens
           /\ messages'[n].sql \in Sqls /\ messages'[n].sql.how # "fixed"
<1>1. PICK text \in Sqls, m \in Message : /\ messages' = [messages EXCEPT ![n] = m]
                 /\ m = [messages[n] EXCEPT !.sql = text, !.shown = None] /\ text.how # "fixed"
    BY ChooseFrame
<1>3. /\ DOMAIN messages' = DOMAIN messages
      /\ messages'[n] = m /\ \A k \in DOMAIN messages : k # n => messages'[k] = messages[k]
    BY <1>1, ReplacedAt
<1>4. messages[n] \in Message /\ text # None
    BY MessageAt, ConversationAssumption DEF TypeOK
<1>5. /\ m.by = messages[n].by /\ m.role = messages[n].role /\ m.options = messages[n].options
      /\ m.shown = None /\ m.row = messages[n].row /\ m.sql = text /\ m.tokens = messages[n].tokens
    BY <1>1, <1>4 DEF Message
<1>6. Grow
    BY <1>3, <1>4, <1>5 DEF Grow
<1>7. UNCHANGED <<pc, own, run>>
    BY ChooseFrame
<1>8. \A y \in Runs : Same(y)
    BY <1>7 DEF Same, run
<1> QED
    BY <1>1, <1>3, <1>5, <1>6, <1>8

-----------------------------------------------------------------------------
(* Each run finds its message, and records what it ran                     *)

LEMMA RunKept ==
    ASSUME Placed, NEW x \in Runs, RunOK(x), Grow, Same(x)
    PROVE  RunOK(x)'
<1>1. pc[x] # "idle" => own[x] \in DOMAIN messages
    BY DEF Placed
<1> QED
    BY <1>1 DEF RunOK, Grow, Same

LEMMA StepGrows ==
    ASSUME TypeOK, Placed, Next, \A x \in Runs : WriteRow(x) => row[x] \in Rows
    PROVE  Grow
<1>1. (messages' = messages) => Grow
    BY DEF Grow
<1>2. ASSUME NEW q \in Posts, SaveQuestion(q) PROVE Grow
    BY <1>2, NextCases, QuestionGrows
<1>3. ASSUME NEW q \in Posts, SaveAnswer(q) PROVE Grow
    BY <1>3, NextCases, AnswerGrows
<1>4. ASSUME NEW q \in Requests, Aside(q) PROVE Grow
    BY <1>1, <1>4, NextCases, AsideSame
<1>5. ASSUME NEW x \in Runs, Inside(x) PROVE Grow
    BY <1>1, <1>5, NextCases, InsideSame
<1>6. ASSUME NEW x \in Runs, WriteRow(x) PROVE Grow
    BY <1>6, NextCases, WriteGrows
<1>7. ASSUME NEW x \in Runs, UpdateMessage(x) PROVE Grow
    BY <1>7, NextCases, UpdateGrows
<1>8. ASSUME NEW n \in DOMAIN messages, ChooseInterpretation(n) PROVE Grow
    BY <1>8, NextCases, ChooseGrows
<1> QED
    BY <1>1, <1>2, <1>3, <1>4, <1>5, <1>6, <1>7, <1>8, NextCases DEF vars

LEMMA RowKnown ==
    ASSUME TypeOK, RunsInv, NEW x \in Runs, pc[x] \in {"write", "insight", "update", "done"}
    PROVE  row[x] \in Rows
BY DEF TypeOK, RunsInv, RunOK

LEMMA TypeStep ==
    ASSUME TypeOK, Placed, RunsInv, Next
    PROVE  TypeOK' /\ Grow
<1>1. \A x \in Runs : WriteRow(x) => row[x] \in Rows
    BY RowKnown DEF WriteRow
<1>2. Grow
    BY <1>1, StepGrows
<1>3. ASSUME NEW q \in Posts, SaveQuestion(q) PROVE TypeOK'
    BY <1>3, NextCases, QuestionAdds
<1>4. ASSUME NEW q \in Posts, SaveAnswer(q) PROVE TypeOK'
    BY <1>4, NextCases, AnswerAdds
<1>5. ASSUME NEW q \in Requests, Aside(q) PROVE TypeOK'
    BY <1>5, NextCases, AsideFrame
<1>6. ASSUME NEW x \in Runs, Inside(x) PROVE TypeOK'
    BY <1>6, NextCases, InsideFrame
<1>7. ASSUME NEW x \in Runs, WriteRow(x) PROVE TypeOK'
    BY <1>1, <1>7, NextCases, WriteFrame
<1>8. ASSUME NEW x \in Runs, UpdateMessage(x) PROVE TypeOK'
    BY <1>8, NextCases, UpdateFrame
<1>9. ASSUME NEW n \in DOMAIN messages, ChooseInterpretation(n) PROVE TypeOK'
    BY <1>9, NextCases, ChooseFrame
<1>10. ASSUME UNCHANGED vars PROVE TypeOK'
    BY <1>10 DEF vars, post, run, TypeOK
<1> QED
    BY <1>2, <1>3, <1>4, <1>5, <1>6, <1>7, <1>8, <1>9, <1>10, NextCases

\* Where a run can come to be, and what it brings.
LEMMA RunMoves ==
    ASSUME TypeOK, Placed, RunsInv, NEW x \in Runs, Inside(x), scenario' = scenario
    PROVE  RunOK(x)' /\ own'[x] \in DOMAIN messages /\ sql'[x] \in Sqls
<1>1. messages' = messages /\ RunOK(x) /\ x \in Requests
    BY InsideSame DEF RunsInv, Requests
<1>t. /\ pc \in [Requests -> PcValues] /\ own \in [Requests -> Nat] /\ sql \in [Runs -> Sqls \cup {None}]
      /\ repaired \in [Runs -> BOOLEAN] /\ row \in [Runs -> Rows \cup {None}]
      /\ question \in [Runs -> Posts \cup {None}]
    BY DEF TypeOK
<1>h. ASSUME NEW text \in Sqls, NEW how \in {"SUCCESS", "ERROR"}, NEW hasRows \in BOOLEAN
      PROVE  HistoryRow(x, text, how, hasRows) # None
    BY HistoryRowType, ConversationAssumption
<1>p. pc[x] # "idle" => own[x] \in DOMAIN messages /\ sql[x] \in Sqls
    BY DEF Placed
<1>2. CASE StartRun(x)
    <2>1. PICK n \in DOMAIN messages :
            /\ messages[n].sql # None
            /\ own' = [own EXCEPT ![x] = n]
            /\ \E text \in {messages[n].sql} \cup (IF scenario.edits THEN {Sql(x, "edited")} ELSE {}) :
                /\ sql' = [sql EXCEPT ![x] = text]
                /\ \/ Goto(x, "run") /\ UNCHANGED row
                   \/ Goto(x, "failed") /\ UNCHANGED row
                   \/ /\ Goto(x, "blocked")
                      /\ row' = [row EXCEPT ![x] = HistoryRow(x, text, "ERROR", FALSE)]
        BY <1>2 DEF StartRun
    <2>2. messages[n].sql \in Sqls /\ Sql(x, "edited") \in Sqls
        BY <2>1, MessageAt, SqlType DEF TypeOK
    <2>3. PICK text \in Sqls :
                /\ sql' = [sql EXCEPT ![x] = text]
                /\ \/ Goto(x, "run") /\ UNCHANGED row
                   \/ Goto(x, "failed") /\ UNCHANGED row
                   \/ /\ Goto(x, "blocked")
                      /\ row' = [row EXCEPT ![x] = HistoryRow(x, text, "ERROR", FALSE)]
        BY <2>1, <2>2
    <2>4. own'[x] = n /\ sql'[x] = text /\ ~repaired'[x]
        BY <1>1, <1>2, <1>t, <2>1, <2>3 DEF RunOK, StartRun, MayStart
    <2>5. \/ pc'[x] \in {"run", "failed"} /\ row'[x] = None
          \/ pc'[x] = "blocked" /\ row'[x] = HistoryRow(x, text, "ERROR", FALSE)
        BY <1>1, <1>2, <1>t, <2>3 DEF RunOK, StartRun, MayStart, Goto
    <2>6. HistoryRow(x, text, "ERROR", FALSE) # None
        BY <1>h
    <2> QED
        BY <1>1, <2>1, <2>4, <2>5, <2>6 DEF RunOK, HistoryRow
<1>3. CASE QuerySucceeds(x)
    <2>1. PICK hasRows \in BOOLEAN : Record(x, "record", "SUCCESS", hasRows)
        BY <1>3 DEF QuerySucceeds
    <2>2. /\ pc[x] = "run" /\ pc'[x] = "record" /\ row'[x] = HistoryRow(x, sql[x], "SUCCESS", hasRows)
          /\ own'[x] = own[x] /\ sql'[x] = sql[x] /\ repaired'[x] = repaired[x]
        BY <1>1, <1>t, <1>3, <2>1 DEF QuerySucceeds, Record, Goto
    <2>3. HistoryRow(x, sql[x], "SUCCESS", hasRows) # None
        BY <1>h, <1>p, <2>2
    <2> QED
        BY <1>1, <1>p, <2>2, <2>3 DEF RunOK, HistoryRow
<1>4. CASE QueryBlocked(x)
    <2>2. /\ pc[x] = "run" /\ pc'[x] = "blocked" /\ row'[x] = HistoryRow(x, sql[x], "ERROR", FALSE)
          /\ own'[x] = own[x] /\ sql'[x] = sql[x] /\ repaired'[x] = repaired[x]
        BY <1>1, <1>t, <1>4 DEF QueryBlocked, Record, Goto
    <2>3. HistoryRow(x, sql[x], "ERROR", FALSE) # None
        BY <1>h, <1>p, <2>2
    <2> QED
        BY <1>1, <1>p, <2>2, <2>3 DEF RunOK, HistoryRow
<1>5. CASE QueryFails(x)
    <2>2. /\ pc[x] = "run"
          /\ \/ pc'[x] = "repair" /\ row'[x] = row[x]
             \/ pc'[x] = "record" /\ row'[x] = HistoryRow(x, sql[x], "ERROR", FALSE)
          /\ own'[x] = own[x] /\ sql'[x] = sql[x] /\ repaired'[x] = repaired[x]
        BY <1>1, <1>t, <1>5 DEF QueryFails, Record, Goto
    <2>3. HistoryRow(x, sql[x], "ERROR", FALSE) # None
        BY <1>h, <1>p, <2>2
    <2> QED
        BY <1>1, <1>p, <2>2, <2>3 DEF RunOK, HistoryRow
<1>6. CASE RepairSucceeds(x)
    <2>1. PICK hasRows \in BOOLEAN : row' = [row EXCEPT ![x] = HistoryRow(x, Sql(x, "fixed"), "SUCCESS", hasRows)]
        BY <1>6 DEF RepairSucceeds
    <2>2. /\ pc[x] = "repair" /\ pc'[x] = "record"
          /\ row'[x] = HistoryRow(x, Sql(x, "fixed"), "SUCCESS", hasRows)
          /\ own'[x] = own[x] /\ sql'[x] = Sql(x, "fixed") /\ repaired'[x]
        BY <1>1, <1>t, <1>6, <2>1 DEF RepairSucceeds, Goto
    <2>3. Sql(x, "fixed") \in Sqls
        BY SqlType
    <2>4. HistoryRow(x, Sql(x, "fixed"), "SUCCESS", hasRows) # None
        BY <1>h, <2>3
    <2> QED
        BY <1>1, <1>p, <2>2, <2>3, <2>4 DEF RunOK, HistoryRow
<1>7. CASE RepairFails(x)
    <2>2. /\ pc[x] = "repair" /\ pc'[x] = "record" /\ row'[x] = HistoryRow(x, sql[x], "ERROR", FALSE)
          /\ own'[x] = own[x] /\ sql'[x] = sql[x] /\ repaired'[x] = repaired[x]
        BY <1>1, <1>t, <1>7 DEF RepairFails, Record, Goto
    <2>3. HistoryRow(x, sql[x], "ERROR", FALSE) # None
        BY <1>h, <1>p, <2>2
    <2> QED
        BY <1>1, <1>p, <2>2, <2>3 DEF RunOK, HistoryRow
<1>8. CASE FindRow(x) \/ Collide(x) \/ Insight(x)
    <2>1. /\ \/ pc[x] \in {"record", "blocked"} /\ pc'[x] = "write"
             \/ pc[x] = "write" /\ pc'[x] = "failed"
             \/ pc[x] = "insight" /\ pc'[x] = "update"
          /\ own' = own /\ sql' = sql /\ repaired' = repaired /\ row' = row
        BY <1>1, <1>t, <1>8 DEF FindRow, Collide, Insight, Goto, run
    <2> QED
        BY <1>1, <1>p, <2>1 DEF RunOK
<1> QED
    BY <1>2, <1>3, <1>4, <1>5, <1>6, <1>7, <1>8 DEF Inside

LEMMA WriteMoves ==
    ASSUME TypeOK, Placed, RunsInv, NEW x \in Runs, WriteRow(x), scenario' = scenario
    PROVE  /\ RunOK(x)' /\ own' = own /\ sql' = sql /\ row' = row /\ repaired' = repaired /\ question' = question
           /\ own[x] \in DOMAIN messages /\ row[x] \in Rows /\ pc[x] = "write"
           /\ pc'[x] = (IF row[x].status = "SUCCESS" THEN "insight" ELSE "failed")
           /\ DOMAIN messages' = DOMAIN messages
           /\ \A n \in DOMAIN messages : n # own[x] => messages'[n] = messages[n]
           /\ messages'[own[x]].row = row[x] /\ messages'[own[x]].sql = messages[own[x]].sql
           /\ messages'[own[x]].shown = messages[own[x]].shown /\ messages'[own[x]].tokens = messages[own[x]].tokens
<1>1. row[x] \in Rows /\ pc[x] = "write"
    BY RowKnown DEF WriteRow
<1>2. /\ UNCHANGED <<own, post, run>>
      /\ pc' = [pc EXCEPT ![x] = IF row[x].status = "SUCCESS" THEN "insight" ELSE "failed"]
      /\ own[x] \in DOMAIN messages
    BY <1>1, WriteFrame
<1>3. PICK m \in Message : /\ messages' = [messages EXCEPT ![own[x]] = m]
                           /\ m = [messages[own[x]] EXCEPT !.row = row[x]]
    BY <1>1, WriteFrame
<1>4. /\ DOMAIN messages' = DOMAIN messages
      /\ messages'[own[x]] = m /\ \A k \in DOMAIN messages : k # own[x] => messages'[k] = messages[k]
    BY <1>2, <1>3, ReplacedAt
<1>5. messages[own[x]] \in Message /\ row[x] # None
    BY <1>1, <1>2, MessageAt, ConversationAssumption DEF TypeOK
<1>6. m.row = row[x] /\ m.sql = messages[own[x]].sql /\ m.shown = messages[own[x]].shown
      /\ m.tokens = messages[own[x]].tokens
    BY <1>3, <1>5 DEF Message
<1>7. own' = own /\ sql' = sql /\ row' = row /\ repaired' = repaired /\ question' = question
    BY <1>2 DEF run
<1>8. pc'[x] = (IF row[x].status = "SUCCESS" THEN "insight" ELSE "failed")
    BY <1>2 DEF TypeOK, Requests
<1>9. RunOK(x)'
    BY <1>1, <1>4, <1>5, <1>6, <1>7, <1>8 DEF RunsInv, RunOK
<1> QED
    BY <1>1, <1>2, <1>4, <1>6, <1>7, <1>8, <1>9

LEMMA UpdateMoves ==
    ASSUME TypeOK, Placed, RunsInv, NEW x \in Runs, UpdateMessage(x), scenario' = scenario
    PROVE  /\ RunOK(x)' /\ own' = own /\ sql' = sql /\ row' = row /\ repaired' = repaired /\ question' = question
           /\ pc[x] = "update" /\ pc'[x] = "done"
<1>1. UNCHANGED <<own, run>> /\ pc' = [pc EXCEPT ![x] = "done"] /\ pc[x] = "update"
    BY UpdateFrame DEF UpdateMessage
<1>2. own' = own /\ sql' = sql /\ row' = row /\ repaired' = repaired /\ question' = question /\ pc'[x] = "done"
    BY <1>1 DEF run, TypeOK, Requests
<1>3. Grow /\ own[x] \in DOMAIN messages
    BY UpdateGrows
<1>4. messages'[own[x]].sql # None /\ messages'[own[x]].row # None
    BY <1>1, <1>3 DEF Grow, RunsInv, RunOK
<1>5. RunOK(x)'
    BY <1>1, <1>2, <1>4 DEF RunsInv, RunOK
<1> QED
    BY <1>1, <1>2, <1>5

LEMMA RunsStep ==
    ASSUME TypeOK, Placed, RunsInv, Next
    PROVE  \A x \in Runs : RunOK(x)'
<1> SUFFICES ASSUME NEW x \in Runs PROVE RunOK(x)'
    OBVIOUS
<1>0. RunOK(x) /\ Grow /\ scenario' = scenario
    BY TypeStep, NextCases DEF RunsInv
<1>1. ASSUME Same(x) PROVE RunOK(x)'
    BY <1>0, <1>1, RunKept
<1>2. ASSUME NEW q \in Posts, SaveQuestion(q) \/ SaveAnswer(q) PROVE RunOK(x)'
    BY <1>1, <1>2, PostSame
<1>4. ASSUME NEW q \in Requests, Aside(q) PROVE RunOK(x)'
    BY <1>0, <1>1, <1>4, AsideSame
<1>5. ASSUME NEW y \in Runs, Inside(y) PROVE RunOK(x)'
    <2>1. CASE x = y
        BY <1>0, <1>5, <2>1, RunMoves
    <2>2. CASE x # y
        BY <1>0, <1>1, <1>5, <2>2, InsideSame
    <2> QED
        BY <2>1, <2>2
<1>6. ASSUME NEW y \in Runs, WriteRow(y) PROVE RunOK(x)'
    <2>1. CASE x = y
        BY <1>0, <1>6, <2>1, WriteMoves
    <2>2. CASE x # y
        BY <1>0, <1>1, <1>6, <2>2, WriteGrows, RowKnown DEF WriteRow
    <2> QED
        BY <2>1, <2>2
<1>7. ASSUME NEW y \in Runs, UpdateMessage(y) PROVE RunOK(x)'
    <2>1. CASE x = y
        BY <1>0, <1>7, <2>1, UpdateMoves
    <2>2. CASE x # y
        BY <1>0, <1>1, <1>7, <2>2, UpdateGrows
    <2> QED
        BY <2>1, <2>2
<1>8. ASSUME NEW n \in DOMAIN messages, ChooseInterpretation(n) PROVE RunOK(x)'
    BY <1>0, <1>1, <1>8, ChooseGrows
<1>9. ASSUME UNCHANGED vars PROVE RunOK(x)'
    BY <1>1, <1>9 DEF vars, run, Same
<1> QED
    BY <1>2, <1>4, <1>5, <1>6, <1>7, <1>8, <1>9, NextCases

LEMMA MessagesStep ==
    ASSUME TypeOK, Placed, RunsInv, Next
    PROVE  \A n \in DOMAIN messages' : MessageOK(n)'
<1>0. Grow /\ scenario' = scenario /\ \A n \in DOMAIN messages : MessageOK(n)
    BY TypeStep, NextCases DEF RunsInv
<1>1. ASSUME NEW n \in DOMAIN messages, messages'[n] = messages[n] PROVE MessageOK(n)'
    BY <1>0, <1>1 DEF MessageOK
<1>a. ASSUME messages' = messages PROVE \A n \in DOMAIN messages' : MessageOK(n)'
    BY <1>1, <1>a
<1>2. ASSUME NEW q \in Posts, SaveQuestion(q) PROVE \A n \in DOMAIN messages' : MessageOK(n)'
    <2>1. /\ Len(messages) \in Nat /\ DOMAIN messages = 1..Len(messages)
          /\ DOMAIN messages' = 1..(Len(messages) + 1)
          /\ \A n \in DOMAIN messages : messages'[n] = messages[n]
          /\ messages'[Len(messages) + 1] = NewMessage("USER", q, FALSE, None)
        BY <1>0, <1>2, QuestionGrows
    <2>2. \A k \in Nat : k = Len(messages) + 1 => MessageOK(k)'
        BY <2>1 DEF MessageOK, NewMessage
    <2>3. \A n \in DOMAIN messages' : n \in DOMAIN messages \/ n = Len(messages) + 1
        BY <2>1
    <2> QED
        BY <1>1, <2>1, <2>2, <2>3
<1>3. ASSUME NEW q \in Posts, SaveAnswer(q) PROVE \A n \in DOMAIN messages' : MessageOK(n)'
    <2>1. /\ Len(messages) \in Nat /\ DOMAIN messages = 1..Len(messages)
          /\ DOMAIN messages' = 1..(Len(messages) + 1)
          /\ \A n \in DOMAIN messages : messages'[n] = messages[n]
          /\ messages'[Len(messages) + 1].role = "ASSISTANT" /\ messages'[Len(messages) + 1].row = None
        BY <1>0, <1>3, AnswerGrows
    <2>2. \A k \in Nat : k = Len(messages) + 1 => MessageOK(k)'
        BY <2>1 DEF MessageOK
    <2>3. \A n \in DOMAIN messages' : n \in DOMAIN messages \/ n = Len(messages) + 1
        BY <2>1
    <2> QED
        BY <1>1, <2>1, <2>2, <2>3
<1>4. ASSUME NEW x \in Runs, WriteRow(x) PROVE \A n \in DOMAIN messages' : MessageOK(n)'
    <2>1. /\ RunOK(x) /\ own[x] \in DOMAIN messages /\ row[x] \in Rows /\ pc[x] = "write"
          /\ DOMAIN messages' = DOMAIN messages
          /\ \A n \in DOMAIN messages : n # own[x] => messages'[n] = messages[n]
          /\ messages'[own[x]].row = row[x] /\ messages'[own[x]].sql = messages[own[x]].sql
        BY <1>0, <1>4, WriteMoves DEF RunsInv
    <2>2. \A k \in DOMAIN messages : k = own[x] => MessageOK(k)'
        BY <1>0, <2>1 DEF MessageOK, RunOK, Grow
    <2> QED
        BY <1>1, <2>1, <2>2
<1>5. ASSUME NEW x \in Runs, UpdateMessage(x) PROVE \A n \in DOMAIN messages' : MessageOK(n)'
    <2>1. /\ own[x] \in DOMAIN messages /\ DOMAIN messages' = DOMAIN messages
          /\ \A n \in DOMAIN messages : n # own[x] => messages'[n] = messages[n]
          /\ messages'[own[x]].row = messages[own[x]].row
        BY <1>0, <1>5, UpdateGrows
    <2>2. RunOK(x) /\ pc[x] = "update"
        BY <1>5 DEF RunsInv, UpdateMessage
    <2>3. \A k \in DOMAIN messages : k = own[x] => MessageOK(k)'
        BY <1>0, <2>1, <2>2 DEF MessageOK, RunOK, Grow
    <2> QED
        BY <1>1, <2>1, <2>3
<1>6. ASSUME NEW n \in DOMAIN messages, ChooseInterpretation(n) PROVE \A k \in DOMAIN messages' : MessageOK(k)'
    <2>1. /\ DOMAIN messages' = DOMAIN messages /\ messages'[n].row = messages[n].row /\ messages'[n].sql \in Sqls
          /\ \A k \in DOMAIN messages : k # n => messages'[k] = messages[k]
        BY <1>0, <1>6, ChooseGrows
    <2>2. messages[n].options
        BY <1>6 DEF ChooseInterpretation
    <2>3. MessageOK(n)'
        BY <1>0, <2>1, <2>2, ConversationAssumption DEF MessageOK, Grow
    <2> QED
        BY <1>1, <2>1, <2>3
<1>7. ASSUME NEW q \in Requests, Aside(q) PROVE \A n \in DOMAIN messages' : MessageOK(n)'
    BY <1>0, <1>a, <1>7, AsideSame
<1>8. ASSUME NEW x \in Runs, Inside(x) PROVE \A n \in DOMAIN messages' : MessageOK(n)'
    BY <1>0, <1>a, <1>8, InsideSame
<1>9. ASSUME UNCHANGED vars PROVE \A n \in DOMAIN messages' : MessageOK(n)'
    BY <1>a, <1>9 DEF vars
<1> QED
    BY <1>2, <1>3, <1>4, <1>5, <1>6, <1>7, <1>8, <1>9, NextCases

-----------------------------------------------------------------------------
(* One request moves at a time                                             *)

\* The request a moves on, or begins.
Moves(a) ==
    /\ \A p \in Requests \ {a} : pc'[p] = pc[p] /\ own'[p] = own[p]
    /\ Running(a) \/ MayStart(a)
    /\ pc[a] # "idle" => own'[a] = own[a]
    /\ a \in Posts \cup Runs => own'[a] \in DOMAIN messages'

LEMMA OneMoves ==
    ASSUME TypeOK, Placed, RunsInv, Next
    PROVE  UNCHANGED <<pc, own>> \/ \E a \in Requests : Moves(a)
<1>0. TypeOK' /\ Grow /\ scenario' = scenario
    BY TypeStep, NextCases
<1>t. pc \in [Requests -> PcValues] /\ own \in [Requests -> Nat]
    BY DEF TypeOK
<1>d. DOMAIN messages \subseteq DOMAIN messages'
    BY <1>0 DEF Grow
<1>1. ASSUME NEW q \in Posts, SaveQuestion(q) PROVE Moves(q)
    <2>1. q \in Requests /\ MayStart(q) /\ own' = [own EXCEPT ![q] = Len(messages) + 1]
        BY <1>1 DEF SaveQuestion, Requests
    <2>2. pc' = [pc EXCEPT ![q] = IF q \in Asks THEN "context" ELSE "answer"]
        BY <1>1 DEF SaveQuestion, Goto
    <2>3. Len(messages) + 1 \in DOMAIN messages'
        <3>1. Len(messages) \in Nat /\ DOMAIN messages' = 1..(Len(messages) + 1)
            BY <1>0, <1>1, QuestionGrows
        <3> QED
            BY <3>1
    <2> QED
        BY <1>t, <2>1, <2>2, <2>3 DEF Moves, MayStart
<1>2. ASSUME NEW q \in Posts, SaveAnswer(q) PROVE Moves(q)
    <2>1. q \in Requests /\ pc[q] = "answer" /\ own' = own /\ pc' = [pc EXCEPT ![q] = "title"]
        BY <1>2 DEF SaveAnswer, Requests, Goto
    <2> QED
        BY <1>t, <1>d, <2>1 DEF Moves, Running, Placed
<1>3. ASSUME NEW q \in Requests, Aside(q) PROVE Moves(q)
    <2>1. own' = own /\ \A p \in Requests : p # q => pc'[p] = pc[p]
        BY <1>0, <1>3, AsideFrame
    <2>2. (q \in Posts /\ Running(q)) \/ (q \in Renames /\ MayStart(q))
        BY <1>3 DEF Aside, AskStep, NoSchema, LoadContext, ReadLastResult, AnswerFails, ReadTitle, WriteTitle, Rename,
            Running, Posts
    <2>3. q \in Posts \cup Runs => own'[q] \in DOMAIN messages'
        <3>1. q \in Renames => q \notin Posts \cup Runs
            BY ConversationAssumption
        <3> QED
            BY <1>d, <2>1, <2>2, <3>1 DEF Placed, Running
    <2> QED
        BY <2>1, <2>2, <2>3 DEF Moves
<1>4. ASSUME NEW x \in Runs, Inside(x) PROVE Moves(x)
    <2>1. own' = [own EXCEPT ![x] = own'[x]] /\ pc' = [pc EXCEPT ![x] = pc'[x]] /\ messages' = messages
        BY <1>0, <1>4, InsideFrame
    <2>2. own'[x] \in DOMAIN messages'
        BY <1>0, <1>4, <2>1, RunMoves
    <2>3. x \in Requests
        BY DEF Requests
    <2>4. \A p \in Requests \ {x} : pc'[p] = pc[p] /\ own'[p] = own[p]
        BY <1>t, <2>1, <2>3
    <2>5. MayStart(x) \/ (Running(x) /\ own' = own)
        BY <1>4 DEF Inside, StartRun, QuerySucceeds, QueryBlocked, QueryFails, RepairSucceeds, RepairFails, FindRow,
            Collide, Insight, Running
    <2> QED
        BY <2>2, <2>4, <2>5 DEF Moves, MayStart
<1>5. ASSUME NEW x \in Runs, WriteRow(x) PROVE Moves(x)
    <2>1. x \in Requests /\ own' = own /\ own[x] \in DOMAIN messages /\ pc[x] = "write"
        BY <1>0, <1>5, WriteMoves DEF Requests
    <2>2. \A p \in Requests \ {x} : pc'[p] = pc[p]
        BY <1>t, <1>5 DEF WriteRow, Goto
    <2> QED
        BY <1>d, <2>1, <2>2 DEF Moves, Running
<1>6. ASSUME NEW x \in Runs, UpdateMessage(x) PROVE Moves(x)
    <2>1. x \in Requests /\ own' = own /\ own[x] \in DOMAIN messages /\ pc[x] = "update"
        BY <1>0, <1>6, UpdateMoves, UpdateGrows DEF Requests
    <2>2. \A p \in Requests \ {x} : pc'[p] = pc[p]
        BY <1>t, <1>6 DEF UpdateMessage, Goto
    <2> QED
        BY <1>d, <2>1, <2>2 DEF Moves, Running
<1>7. ASSUME NEW n \in DOMAIN messages, ChooseInterpretation(n) PROVE UNCHANGED <<pc, own>>
    BY <1>7 DEF ChooseInterpretation
<1> QED
    BY <1>1, <1>2, <1>3, <1>4, <1>5, <1>6, <1>7, NextCases DEF vars, Requests

LEMMA PlacedStep ==
    ASSUME TypeOK, Placed, RunsInv, Next
    PROVE  Placed'
<1>0. Grow /\ scenario' = scenario
    BY TypeStep, NextCases
<1>1. ASSUME NEW q \in Posts \cup Runs, pc'[q] # "idle" PROVE own'[q] \in DOMAIN messages'
    <2>1. q \in Requests
        BY DEF Requests
    <2>2. CASE pc'[q] = pc[q] /\ own'[q] = own[q]
        BY <1>0, <1>1, <2>2 DEF Grow, Placed
    <2>3. CASE Moves(q)
        BY <2>3 DEF Moves
    <2> QED
        BY <2>1, <2>2, <2>3, OneMoves DEF Moves
<1>2. ASSUME NEW x \in Runs, pc'[x] # "idle" PROVE sql'[x] \in Sqls
    <2>1. CASE Same(x)
        BY <1>2, <2>1 DEF Same, Placed
    <2>2. ASSUME NEW y \in Runs, Inside(y) PROVE sql'[x] \in Sqls
        BY <1>0, <2>1, <2>2, InsideSame, RunMoves
    <2>3. ASSUME NEW y \in Runs, WriteRow(y) PROVE sql'[x] \in Sqls
        <3>1. sql' = sql /\ pc[y] = "write"
            BY <1>0, <2>3, WriteMoves
        <3>2. CASE x = y
            BY <3>1, <3>2 DEF Placed
        <3>3. CASE x # y
            BY <1>0, <2>1, <2>3, <3>3, WriteGrows, RowKnown DEF WriteRow
        <3> QED
            BY <3>2, <3>3
    <2>4. ASSUME NEW y \in Runs, UpdateMessage(y) PROVE sql'[x] \in Sqls
        <3>1. sql' = sql /\ pc[y] = "update"
            BY <1>0, <2>4, UpdateMoves
        <3>2. CASE x = y
            BY <3>1, <3>2 DEF Placed
        <3>3. CASE x # y
            BY <1>0, <2>1, <2>4, <3>3, UpdateGrows
        <3> QED
            BY <3>2, <3>3
    <2>5. ASSUME NEW q \in Posts, SaveQuestion(q) \/ SaveAnswer(q) PROVE Same(x)
        BY <2>5, PostSame
    <2>6. ASSUME NEW q \in Requests, Aside(q) PROVE Same(x)
        BY <1>0, <2>6, AsideSame
    <2>7. ASSUME NEW n \in DOMAIN messages, ChooseInterpretation(n) PROVE Same(x)
        BY <1>0, <2>7, ChooseGrows
    <2>8. ASSUME UNCHANGED vars PROVE Same(x)
        BY <2>8 DEF vars, run, Same
    <2> QED
        BY <2>1, <2>2, <2>3, <2>4, <2>5, <2>6, <2>7, <2>8, NextCases
<1>3. ASSUME NEW n \in DOMAIN messages', messages'[n].options PROVE messages'[n].by \in Asks
    <2>1. CASE n \in DOMAIN messages
        BY <1>0, <1>3, <2>1 DEF Grow, Placed
    <2>2. ASSUME NEW q \in Posts, SaveQuestion(q), n \notin DOMAIN messages PROVE FALSE
        <3>1. /\ Len(messages) \in Nat /\ DOMAIN messages = 1..Len(messages)
              /\ DOMAIN messages' = 1..(Len(messages) + 1)
              /\ messages'[Len(messages) + 1] = NewMessage("USER", q, FALSE, None)
            BY <1>0, <2>2, QuestionGrows
        <3>3. n = Len(messages) + 1
            BY <2>2, <3>1
        <3>2. messages'[n] = NewMessage("USER", q, FALSE, None)
            BY <3>1, <3>3
        <3> QED
            BY <1>3, <3>2 DEF NewMessage
    <2>3. ASSUME NEW q \in Posts, SaveAnswer(q), n \notin DOMAIN messages PROVE messages'[n].by \in Asks
        BY <1>0, <1>3, <2>3, AnswerGrows
    <2>4. ASSUME NEW x \in Runs, WriteRow(x) PROVE DOMAIN messages' = DOMAIN messages
        BY <1>0, <2>4, WriteMoves
    <2>5. ASSUME NEW x \in Runs, UpdateMessage(x) PROVE DOMAIN messages' = DOMAIN messages
        BY <1>0, <2>5, UpdateGrows
    <2>6. ASSUME NEW k \in DOMAIN messages, ChooseInterpretation(k) PROVE DOMAIN messages' = DOMAIN messages
        BY <1>0, <2>6, ChooseGrows
    <2>7. ASSUME NEW q \in Requests, Aside(q) PROVE DOMAIN messages' = DOMAIN messages
        BY <1>0, <2>7, AsideSame
    <2>8. ASSUME NEW x \in Runs, Inside(x) PROVE DOMAIN messages' = DOMAIN messages
        BY <1>0, <2>8, InsideSame
    <2>9. ASSUME UNCHANGED vars PROVE DOMAIN messages' = DOMAIN messages
        BY <2>9 DEF vars
    <2> QED
        BY <2>1, <2>2, <2>3, <2>4, <2>5, <2>6, <2>7, <2>8, <2>9, NextCases
<1> QED
    BY <1>1, <1>2, <1>3 DEF Placed

\* What can happen to a message.
LEMMA MessageChange ==
    ASSUME TypeOK, Placed, RunsInv, Next, NEW n \in DOMAIN messages'
    PROVE  \/ n \in DOMAIN messages /\ messages'[n] = messages[n]
           \/ /\ n = Len(messages) + 1 /\ n \notin DOMAIN messages
              /\ messages'[n].shown = None /\ messages'[n].row = None /\ messages'[n].tokens = 0
           \/ \E x \in Runs : WriteRow(x) /\ n = own[x] /\ n \in DOMAIN messages
           \/ \E x \in Runs : UpdateMessage(x) /\ n = own[x] /\ n \in DOMAIN messages
           \/ n \in DOMAIN messages /\ ChooseInterpretation(n)
<1> DEFINE Kept == n \in DOMAIN messages /\ messages'[n] = messages[n]
           New == /\ n = Len(messages) + 1 /\ n \notin DOMAIN messages
                  /\ messages'[n].shown = None /\ messages'[n].row = None /\ messages'[n].tokens = 0
<1>0. scenario' = scenario
    BY NextCases
<1>1. ASSUME NEW q \in Posts, SaveQuestion(q) PROVE Kept \/ New
    <2>1. /\ Len(messages) \in Nat /\ DOMAIN messages = 1..Len(messages)
          /\ DOMAIN messages' = 1..(Len(messages) + 1)
          /\ \A k \in DOMAIN messages : messages'[k] = messages[k]
          /\ messages'[Len(messages) + 1] = NewMessage("USER", q, FALSE, None)
        BY <1>0, <1>1, QuestionGrows
    <2>2. LET m == NewMessage("USER", q, FALSE, None) IN m.shown = None /\ m.row = None /\ m.tokens = 0
        BY DEF NewMessage
    <2>3. n \in DOMAIN messages \/ (n = Len(messages) + 1 /\ n \notin DOMAIN messages)
        BY <2>1
    <2> QED
        BY <2>1, <2>2, <2>3
<1>2. ASSUME NEW q \in Posts, SaveAnswer(q) PROVE Kept \/ New
    <2>1. /\ Len(messages) \in Nat /\ DOMAIN messages = 1..Len(messages)
          /\ DOMAIN messages' = 1..(Len(messages) + 1)
          /\ \A k \in DOMAIN messages : messages'[k] = messages[k]
          /\ LET m == messages'[Len(messages) + 1] IN m.shown = None /\ m.row = None /\ m.tokens = 0
        BY <1>0, <1>2, AnswerGrows
    <2>3. n \in DOMAIN messages \/ (n = Len(messages) + 1 /\ n \notin DOMAIN messages)
        BY <2>1
    <2> QED
        BY <2>1, <2>3
<1>3. ASSUME NEW q \in Requests, Aside(q) PROVE Kept
    BY <1>0, <1>3, AsideSame
<1>4. ASSUME NEW x \in Runs, Inside(x) PROVE Kept
    BY <1>0, <1>4, InsideSame
<1>5. ASSUME NEW x \in Runs, WriteRow(x), n # own[x] PROVE Kept
    BY <1>0, <1>5, WriteMoves
<1>6. ASSUME NEW x \in Runs, UpdateMessage(x), n # own[x] PROVE Kept
    BY <1>0, <1>6, UpdateGrows
<1>7. ASSUME NEW k \in DOMAIN messages, ChooseInterpretation(k), n # k PROVE Kept
    BY <1>0, <1>7, ChooseGrows
<1>8. ASSUME NEW x \in Runs, WriteRow(x) PROVE own[x] \in DOMAIN messages
    BY <1>0, <1>8, WriteMoves
<1>9. ASSUME NEW x \in Runs, UpdateMessage(x) PROVE own[x] \in DOMAIN messages
    BY <1>0, <1>9, UpdateGrows
<1>10. ASSUME UNCHANGED vars PROVE Kept
    BY <1>10 DEF vars
<1> QED
    BY <1>1, <1>2, <1>3, <1>4, <1>5, <1>6, <1>7, <1>8, <1>9, <1>10, NextCases

\* ... and to a run.
LEMMA RunChange ==
    ASSUME TypeOK, Placed, RunsInv, Next, NEW x \in Runs
    PROVE  Same(x) \/ Inside(x) \/ WriteRow(x) \/ UpdateMessage(x)
<1>0. scenario' = scenario
    BY NextCases
<1>1. ASSUME NEW q \in Posts, SaveQuestion(q) \/ SaveAnswer(q) PROVE Same(x)
    BY <1>1, PostSame
<1>2. ASSUME NEW q \in Requests, Aside(q) PROVE Same(x)
    BY <1>0, <1>2, AsideSame
<1>3. ASSUME NEW y \in Runs, Inside(y), x # y PROVE Same(x)
    BY <1>0, <1>3, InsideSame
<1>4. ASSUME NEW y \in Runs, WriteRow(y), x # y PROVE Same(x)
    BY <1>0, <1>4, WriteGrows, RowKnown DEF WriteRow
<1>5. ASSUME NEW y \in Runs, UpdateMessage(y), x # y PROVE Same(x)
    BY <1>0, <1>5, UpdateGrows
<1>6. ASSUME NEW n \in DOMAIN messages, ChooseInterpretation(n) PROVE Same(x)
    BY <1>0, <1>6, ChooseGrows
<1>7. ASSUME UNCHANGED vars PROVE Same(x)
    BY <1>7 DEF vars, run, Same
<1> QED
    BY <1>1, <1>2, <1>3, <1>4, <1>5, <1>6, <1>7, NextCases

LEMMA DoneSame ==
    ASSUME TypeOK, Placed, RunsInv, Next, NEW x \in Runs, pc[x] = "done"
    PROVE  Same(x)
BY RunChange DEF Inside, StartRun, MayStart, QuerySucceeds, QueryBlocked, QueryFails, RepairSucceeds, RepairFails,
    FindRow, Collide, Insight, WriteRow, UpdateMessage

LEMMA DoneOnlyByUpdate ==
    ASSUME TypeOK, Placed, RunsInv, Next, NEW x \in Runs, pc'[x] = "done"
    PROVE  Same(x) \/ UpdateMessage(x)
<1>0. scenario' = scenario
    BY NextCases
<1>1. ~Inside(x)
    BY DEF TypeOK, Inside, StartRun, QuerySucceeds, QueryBlocked, QueryFails, RepairSucceeds, RepairFails, FindRow,
        Collide, Insight, Record, Goto, Requests
<1>2. ~WriteRow(x)
    BY <1>0, WriteMoves
<1> QED
    BY <1>1, <1>2, RunChange

-----------------------------------------------------------------------------
(* What a message shows, and what its corrections cost                     *)

\* The run whose result is shown has ended.
ShownInv ==
    /\ ShownIsRecorded
    /\ \A n \in DOMAIN messages : messages[n].shown # None => pc[messages[n].shown] = "done"

LEMMA ShownStep ==
    ASSUME TypeOK, Placed, RunsInv, ShownInv, Next
    PROVE  ShownInv'
<1>0. TypeOK' /\ Grow /\ scenario' = scenario
    BY TypeStep, NextCases
<1> SUFFICES ASSUME NEW n \in DOMAIN messages', NEW x, x = messages'[n].shown, x # None
             PROVE  own'[x] = n /\ row'[x].status = "SUCCESS" /\ messages'[n].row # None /\ pc'[x] = "done"
    BY DEF ShownInv, ShownIsRecorded
<1>1. ASSUME n \in DOMAIN messages, messages[n].shown = x
      PROVE  own'[x] = n /\ row'[x].status = "SUCCESS" /\ messages'[n].row # None /\ pc'[x] = "done"
    <2>1. x \in Runs
        BY <1>1, MessageAt DEF TypeOK
    <2>2. own[x] = n /\ pc[x] = "done" /\ row[x].status = "SUCCESS" /\ messages[n].row # None
        BY <1>1 DEF ShownInv, ShownIsRecorded
    <2>3. Same(x)
        BY <2>1, <2>2, DoneSame
    <2> QED
        BY <1>0, <1>1, <2>2, <2>3 DEF Same, Grow
<1>2. ASSUME NEW y \in Runs, WriteRow(y), n = own[y], n \in DOMAIN messages PROVE messages'[n].shown = messages[n].shown
    BY <1>0, <1>2, WriteMoves
<1>3. ASSUME NEW y \in Runs, UpdateMessage(y), n = own[y]
      PROVE  own'[x] = n /\ row'[x].status = "SUCCESS" /\ messages'[n].row # None /\ pc'[x] = "done"
    <2>1. messages'[n].shown = y
        BY <1>0, <1>3, UpdateGrows
    <2>2. RunOK(y)' /\ own' = own /\ pc'[y] = "done"
        BY <1>0, <1>3, UpdateMoves
    <2> QED
        BY <1>3, <2>1, <2>2 DEF RunOK
<1>4. ASSUME n \in DOMAIN messages, ChooseInterpretation(n) PROVE FALSE
    BY <1>0, <1>4, ChooseGrows
<1> QED
    BY <1>1, <1>2, <1>3, <1>4, MessageChange

LEMMA RepairsCountedStep ==
    ASSUME TypeOK, Placed, RunsInv, RepairsCounted, Next
    PROVE  RepairsCounted'
<1>0. TypeOK' /\ Grow /\ scenario' = scenario
    BY TypeStep, NextCases
<1> DEFINE Done(n) == {x \in Runs : own[x] = n /\ repaired[x] /\ pc[x] = "done"}
<1>1. \A n : IsFiniteSet(Done(n))
    <2>1. IsFiniteSet(Runs)
        BY ConversationAssumption, FS_Subset DEF Requests
    <2> QED
        BY <2>1, FS_Subset
<1>2. \A n \in DOMAIN messages : messages[n].tokens = Cardinality(Done(n))
    BY DEF RepairsCounted
<1>3. ASSUME NEW n, \A x \in Runs : UpdateMessage(x) => n # own[x]
      PROVE  Done(n)' = Done(n)
    <2>1. ASSUME NEW x \in Runs, own'[x] = n, repaired'[x], pc'[x] = "done"
          PROVE  own[x] = n /\ repaired[x] /\ pc[x] = "done"
        <3>1. ~UpdateMessage(x)
            BY <1>0, <1>3, <2>1, UpdateMoves
        <3> QED
            BY <2>1, <3>1, DoneOnlyByUpdate DEF Same
    <2>2. ASSUME NEW x \in Runs, own[x] = n, repaired[x], pc[x] = "done"
          PROVE  own'[x] = n /\ repaired'[x] /\ pc'[x] = "done"
        BY <2>2, DoneSame DEF Same
    <2> QED
        BY <2>1, <2>2
<1>4. ASSUME NEW n \in DOMAIN messages', ~\E x \in Runs : UpdateMessage(x) /\ n = own[x]
      PROVE  messages'[n].tokens = Cardinality(Done(n)')
    <2>1. Done(n)' = Done(n)
        BY <1>3, <1>4
    <2>2. CASE n \in DOMAIN messages
        <3>1. messages'[n].tokens = messages[n].tokens
            BY <1>0, <1>4, <2>2, MessageChange, WriteMoves, ChooseGrows
        <3> QED
            BY <1>2, <2>1, <2>2, <3>1
    <2>3. CASE n \notin DOMAIN messages
        <3>1. Done(n) = {}
            BY <2>3 DEF Placed
        <3>2. messages'[n].tokens = 0
            BY <1>4, <2>3, MessageChange
        <3> QED
            BY <2>1, <3>1, <3>2, FS_EmptySet
    <2> QED
        BY <2>2, <2>3
<1>5. ASSUME NEW x \in Runs, UpdateMessage(x), NEW n, n = own[x]
      PROVE  messages'[n].tokens = Cardinality(Done(n)')
    <2>1. own' = own /\ repaired' = repaired /\ pc[x] = "update" /\ pc'[x] = "done"
        BY <1>0, <1>5, UpdateMoves
    <2>2. /\ n \in DOMAIN messages
          /\ messages'[n].tokens = (IF repaired[x] THEN messages[n].tokens + 1 ELSE messages[n].tokens)
          /\ \A y \in Runs \ {x} : Same(y)
        BY <1>0, <1>5, UpdateGrows
    <2>3. x \notin Done(n)
        BY <2>1
    <2>4. CASE repaired[x]
        <3>1. Done(n)' = Done(n) \cup {x}
            BY <1>5, <2>1, <2>2, <2>4 DEF Same
        <3>2. Cardinality(Done(n) \cup {x}) = Cardinality(Done(n)) + 1
            <4>1. IsFiniteSet(Done(n))
                BY <1>1
            <4> HIDE DEF Done
            <4> QED
                BY <2>3, <4>1, FS_AddElement
        <3> QED
            BY <1>2, <2>2, <2>4, <3>1, <3>2
    <2>5. CASE ~repaired[x]
        <3>1. Done(n)' = Done(n)
            BY <1>5, <2>1, <2>2, <2>5 DEF Same
        <3> QED
            BY <1>2, <2>2, <2>5, <3>1
    <2> QED
        BY <2>4, <2>5
<1>6. \A n \in DOMAIN messages' : messages'[n].tokens = Cardinality(Done(n)')
    BY <1>4, <1>5
<1> QED
    BY <1>6 DEF RepairsCounted

LEMMA FixedSqlRanStep ==
    ASSUME TypeOK, Placed, RunsInv, Next
    PROVE  FixedSqlRan
<1>0. TypeOK' /\ Grow /\ scenario' = scenario
    BY TypeStep, NextCases
<1> SUFFICES ASSUME NEW n \in DOMAIN messages, messages'[n].sql # None, messages'[n].sql.how = "fixed",
                    messages'[n].sql # messages[n].sql
             PROVE  \E x \in Runs : own[x] = n /\ row[x] # None /\ row[x].sql = messages'[n].sql
                                   /\ row[x].status = "SUCCESS"
    BY DEF FixedSqlRan
<1>1. n \in DOMAIN messages'
    BY <1>0 DEF Grow
<1>2. ASSUME NEW x \in Runs, WriteRow(x), n = own[x] PROVE FALSE
    BY <1>0, <1>2, WriteMoves
<1>3. ~ChooseInterpretation(n)
    BY <1>0, ChooseGrows
<1>4. PICK x \in Runs : UpdateMessage(x) /\ n = own[x]
    BY <1>1, <1>2, <1>3, MessageChange
<1>5. messages'[n].sql = sql[x]
    BY <1>0, <1>4, UpdateGrows
<1>6. row[x] # None /\ row[x].sql = sql[x] /\ row[x].status = "SUCCESS"
    BY <1>4 DEF UpdateMessage, RunsInv, RunOK
<1> QED
    BY <1>4, <1>5, <1>6

-----------------------------------------------------------------------------
(* Requests that do not overlap                                            *)

SerialInv ==
    /\ \A q \in Requests : pc[q] # "idle" => q \in scenario.active
    /\ NoOverlap => \A p, q \in Requests : Running(p) /\ Running(q) => p = q

LEMMA Alone ==
    ASSUME SerialInv, NoOverlap, NEW a \in Requests, Running(a) \/ MayStart(a), NEW p \in Requests \ {a}
    PROVE  ~Running(p)
BY DEF SerialInv, NoOverlap, MayStart, Running

LEMMA SerialStep ==
    ASSUME TypeOK, Placed, RunsInv, SerialInv, Next
    PROVE  SerialInv'
<1>0. scenario' = scenario
    BY NextCases
<1>1. ASSUME UNCHANGED <<pc, own>> PROVE SerialInv'
    BY <1>0, <1>1 DEF SerialInv, NoOverlap, Running
<1>2. ASSUME NEW a \in Requests, Moves(a) PROVE SerialInv'
    <2>1. \A p \in Requests \ {a} : pc'[p] = pc[p]
        BY <1>2 DEF Moves
    <2>2. a \in scenario.active
        BY <1>2 DEF Moves, Running, MayStart, SerialInv
    <2>3. NoOverlap => \A p \in Requests \ {a} : ~Running(p)
        BY <1>2, Alone DEF Moves
    <2> QED
        BY <1>0, <2>1, <2>2, <2>3 DEF SerialInv, NoOverlap, Running
<1> QED
    BY <1>1, <1>2, OneMoves

\* While a row has been written and not shown, it is the message's row; and
\* otherwise a successful row is what the message shows, if anything.
AgreeInv ==
    /\ \A x \in Runs : pc[x] \in {"insight", "update"} => messages[own[x]].row = row[x]
    /\ \A n \in DOMAIN messages : LET r == messages[n].row IN
        /\ r # None /\ r.status = "SUCCESS"
        /\ \A x \in Runs : own[x] = n => pc[x] \notin {"insight", "update"}
        => messages[n].shown \in {None, r.by}

LEMMA AgreeStep ==
    ASSUME TypeOK, Placed, RunsInv, SerialInv, NoOverlap, AgreeInv, Next
    PROVE  AgreeInv'
<1>0. TypeOK' /\ Grow /\ scenario' = scenario
    BY TypeStep, NextCases
<1>r. Runs \subseteq Requests
    BY DEF Requests
<1>1. ASSUME NEW x \in Runs, pc'[x] \in {"insight", "update"} PROVE messages'[own'[x]].row = row'[x]
    <2>1. CASE WriteRow(x)
        BY <1>0, <2>1, WriteMoves
    <2>2. ~UpdateMessage(x)
        BY <1>0, <1>1, UpdateMoves
    <2>3. ASSUME Inside(x) PROVE pc[x] = "insight" /\ own' = own /\ row' = row
        BY <1>1, <2>3 DEF TypeOK, Inside, StartRun, QuerySucceeds, QueryBlocked, QueryFails, RepairSucceeds, RepairFails,
            FindRow, Collide, Insight, Record, Goto, Requests
    <2>4. CASE Same(x) \/ Inside(x)
        <3>1. pc[x] \in {"insight", "update"} /\ own'[x] = own[x] /\ row'[x] = row[x]
            BY <1>1, <2>3, <2>4 DEF Same
        <3>2. own[x] \in DOMAIN messages /\ messages[own[x]].row = row[x]
            BY <3>1 DEF Placed, AgreeInv
        <3>3. own[x] \in DOMAIN messages'
            BY <1>0, <3>2 DEF Grow
        <3>4. ASSUME NEW y \in Runs, WriteRow(y) \/ UpdateMessage(y) PROVE y = x
            <4>1. Running(y) /\ Running(x)
                BY <3>1, <3>4 DEF Running, WriteRow, UpdateMessage
            <4> QED
                BY <1>r, <4>1 DEF SerialInv
        <3>5. ASSUME ChooseInterpretation(own[x]) PROVE messages'[own[x]].row = messages[own[x]].row
            BY <1>0, <3>2, <3>5, ChooseGrows
        <3>6. messages'[own[x]].row = messages[own[x]].row \/ WriteRow(x) \/ UpdateMessage(x)
            BY <3>2, <3>3, <3>4, <3>5, MessageChange
        <3> QED
            BY <2>1, <2>2, <3>1, <3>2, <3>6
    <2> QED
        BY <2>1, <2>2, <2>4, RunChange
<1>2. ASSUME NEW n \in DOMAIN messages', NEW r, r = messages'[n].row, r # None, r.status = "SUCCESS",
             \A x \in Runs : own'[x] = n => pc'[x] \notin {"insight", "update"}
      PROVE  messages'[n].shown \in {None, r.by}
    <2>1. ASSUME NEW x \in Runs, own[x] = n, pc[x] \in {"insight", "update"} PROVE UpdateMessage(x)
        <3>1. ~WriteRow(x)
            BY <2>1 DEF WriteRow
        <3>2. ASSUME Inside(x) PROVE pc'[x] = "update" /\ own' = own
            BY <2>1, <3>2 DEF TypeOK, Inside, StartRun, MayStart, QuerySucceeds, QueryBlocked, QueryFails, RepairSucceeds,
                RepairFails, FindRow, Collide, Insight, Record, Goto, Requests
        <3> QED
            BY <1>2, <2>1, <3>1, <3>2, RunChange DEF Same
    <2>2. CASE n \in DOMAIN messages /\ messages'[n] = messages[n]
        <3>1. CASE \E x \in Runs : own[x] = n /\ pc[x] \in {"insight", "update"}
            <4>1. PICK x \in Runs : UpdateMessage(x) /\ own[x] = n
                BY <2>1, <3>1
            <4>2. messages'[n].shown = x /\ messages[n].row = row[x] /\ row[x].by = x
                BY <1>0, <4>1, UpdateGrows DEF UpdateMessage, AgreeInv, RunsInv, RunOK
            <4> QED
                BY <1>2, <2>2, <4>2
        <3>2. CASE ~\E x \in Runs : own[x] = n /\ pc[x] \in {"insight", "update"}
            BY <1>2, <2>2, <3>2 DEF AgreeInv
        <3> QED
            BY <3>1, <3>2
    <2>3. ASSUME NEW x \in Runs, WriteRow(x), n = own[x] PROVE FALSE
        <3>1. messages'[n].row = row[x] /\ own' = own
              /\ pc'[x] = (IF row[x].status = "SUCCESS" THEN "insight" ELSE "failed")
            BY <1>0, <2>3, WriteMoves
        <3> QED
            BY <1>2, <2>3, <3>1
    <2>4. ASSUME NEW x \in Runs, UpdateMessage(x), n = own[x] PROVE messages'[n].shown \in {None, r.by}
        <3>1. messages'[n].shown = x /\ messages'[n].row = messages[n].row
            BY <1>0, <2>4, UpdateGrows
        <3>2. messages[n].row = row[x] /\ row[x].by = x
            BY <2>4 DEF UpdateMessage, AgreeInv, RunsInv, RunOK
        <3> QED
            BY <1>2, <3>1, <3>2
    <2>5. ASSUME n \in DOMAIN messages, ChooseInterpretation(n) PROVE messages'[n].shown = None
        BY <1>0, <2>5, ChooseGrows
    <2> QED
        BY <1>2, <2>2, <2>3, <2>4, <2>5, MessageChange
<1> QED
    BY <1>1, <1>2 DEF AgreeInv

LEMMA AgreementHolds ==
    ASSUME TypeOK, ShownInv, NoOverlap => AgreeInv
    PROVE  HistoryAndMessageAgree
BY DEF ShownInv, AgreeInv, HistoryAndMessageAgree, Running

-----------------------------------------------------------------------------
(* What the model is given belongs to the question                         *)

\* The question being answered is the newest message, and every answer
\* follows its own question.
QuestionInv ==
    /\ \A q \in Posts : pc[q] \in {"context", "result", "answer"} =>
            own[q] = Len(messages) /\ messages[own[q]].role = "USER" /\ messages[own[q]].by = q
    /\ \A n \in DOMAIN messages : messages[n].role = "ASSISTANT" =>
            n > 1 /\ messages[n - 1].role = "USER" /\ messages[n - 1].by = messages[n].by
    /\ \A a \in Asks : dropped[a] # 0 => dropped[a] = own[a] /\ pc[a] \notin {"idle", "context"}
    /\ InsightForOwnQuestion

LEMMA QuestionForOwn ==
    ASSUME TypeOK, QuestionInv, NEW n \in DOMAIN messages, MessageOK(n), messages[n].sql # None
    PROVE  QuestionFor(n) = messages[n].by
<1> DEFINE asked == {m \in 1..(n - 1) : messages[m].role = "USER"}
<1>1. n \in 1..Len(messages) /\ Len(messages) \in Nat /\ messages[n].role = "ASSISTANT"
    BY MessageAt DEF TypeOK, MessageOK
<1>2. n > 1 /\ messages[n - 1].role = "USER" /\ messages[n - 1].by = messages[n].by
    BY <1>1 DEF QuestionInv
<1>3. n - 1 \in asked /\ asked \subseteq 1..(n - 1) /\ n - 1 \in Nat
    BY <1>1, <1>2
<1>4. Max(asked) \in asked /\ Max(asked) >= n - 1
    <2> HIDE DEF asked
    <2> QED
        BY <1>3, MaxOf
<1>5. Max(asked) = n - 1
    <2> HIDE DEF asked
    <2>1. Max(asked) \in 1..(n - 1)
        BY <1>3, <1>4
    <2> QED
        BY <1>1, <1>4, <2>1
<1> QED
    BY <1>2, <1>3, <1>5 DEF QuestionFor

\* Only questions and answers make the conversation longer.
LEMMA LengthChange ==
    ASSUME TypeOK, Placed, RunsInv, Next
    PROVE  \/ Len(messages') = Len(messages)
           \/ \E q \in Posts : SaveQuestion(q) \/ SaveAnswer(q)
<1>0. scenario' = scenario
    BY NextCases
<1>1. ASSUME NEW q \in Requests, Aside(q) PROVE messages' = messages
    BY <1>0, <1>1, AsideSame
<1>2. ASSUME NEW x \in Runs, Inside(x) PROVE messages' = messages
    BY <1>0, <1>2, InsideSame
<1>3. ASSUME NEW x \in Runs, WriteRow(x) PROVE Len(messages') = Len(messages)
    <2>1. row[x] \in Rows
        BY <1>3, RowKnown DEF WriteRow
    <2>2. own[x] \in DOMAIN messages /\ \E m \in Message : messages' = [messages EXCEPT ![own[x]] = m]
        BY <1>0, <1>3, <2>1, WriteFrame
    <2> QED
        BY <2>2, ReplacedAt
<1>4. ASSUME NEW x \in Runs, UpdateMessage(x) PROVE Len(messages') = Len(messages)
    <2>1. own[x] \in DOMAIN messages /\ \E m \in Message : messages' = [messages EXCEPT ![own[x]] = m]
        BY <1>0, <1>4, UpdateFrame
    <2> QED
        BY <2>1, ReplacedAt
<1>5. ASSUME NEW n \in DOMAIN messages, ChooseInterpretation(n) PROVE Len(messages') = Len(messages)
    <2>1. \E m \in Message : messages' = [messages EXCEPT ![n] = m]
        BY <1>0, <1>5, ChooseFrame
    <2> QED
        BY <2>1, ReplacedAt
<1> QED
    BY <1>1, <1>2, <1>3, <1>4, <1>5, NextCases DEF vars

\* What is read for a question changes only by steps of that question.
LEMMA ReadChange ==
    ASSUME TypeOK, Placed, RunsInv, Next, NEW a \in Asks
    PROVE  \/ /\ pc'[a] = pc[a] \/ SaveQuestion(a) \/ SaveAnswer(a) \/ Aside(a)
              /\ dropped'[a] = dropped[a] /\ lastSql'[a] = lastSql[a] /\ lastResult'[a] = lastResult[a]
           \/ LoadContext(a) \/ ReadLastResult(a)
<1> DEFINE Unread == /\ dropped'[a] = dropped[a] /\ lastSql'[a] = lastSql[a]
                     /\ lastResult'[a] = lastResult[a]
<1>0. scenario' = scenario /\ a \in Requests /\ a \in Posts /\ a \notin Runs
    BY NextCases, ConversationAssumption DEF Requests, Posts
<1>t. /\ pc \in [Requests -> PcValues] /\ DOMAIN lastSql = Asks /\ DOMAIN dropped = Asks
      /\ DOMAIN lastResult = Asks
    BY DEF TypeOK
<1>1. ASSUME NEW q \in Posts, SaveQuestion(q) \/ SaveAnswer(q)
      PROVE  Unread /\ (pc'[a] = pc[a] \/ SaveQuestion(a) \/ SaveAnswer(a))
    <2>1. Unread
        BY <1>1 DEF SaveQuestion, SaveAnswer, post
    <2>2. q # a => pc'[a] = pc[a]
        BY <1>0, <1>t, <1>1 DEF SaveQuestion, SaveAnswer, Goto
    <2> QED
        BY <1>1, <2>1, <2>2
<1>2. ASSUME NEW q \in Requests, Aside(q)
      PROVE  (Unread /\ (pc'[a] = pc[a] \/ Aside(a))) \/ LoadContext(a) \/ ReadLastResult(a)
    <2>1. q # a => pc'[a] = pc[a]
        BY <1>0, <1>2, AsideFrame
    <2>2. Unread \/ LoadContext(a) \/ ReadLastResult(a)
        BY <1>t, <1>2 DEF Aside, AskStep, NoSchema, LoadContext, ReadLastResult, AnswerFails, ReadTitle, WriteTitle, Rename,
            post
    <2> QED
        BY <1>2, <2>1, <2>2
<1>3. ASSUME NEW x \in Runs, Inside(x) \/ WriteRow(x) \/ UpdateMessage(x) PROVE Unread /\ pc'[a] = pc[a]
    <2>1. UNCHANGED post
        BY <1>3 DEF Inside, StartRun, QuerySucceeds, QueryBlocked, QueryFails, RepairSucceeds, RepairFails, FindRow, Collide,
            Insight, WriteRow, UpdateMessage
    <2>2. pc' = [pc EXCEPT ![x] = pc'[x]]
        <3>1. CASE Inside(x)
            BY <1>0, <3>1, InsideFrame
        <3>2. CASE WriteRow(x) \/ UpdateMessage(x)
            BY <1>t, <3>2 DEF WriteRow, UpdateMessage, Goto
        <3> QED
            BY <1>3, <3>1, <3>2
    <2>3. pc'[a] = pc[a]
        BY <1>0, <1>t, <2>2
    <2> QED
        BY <2>1, <2>3 DEF post
<1>4. ASSUME NEW n \in DOMAIN messages, ChooseInterpretation(n) PROVE Unread /\ pc'[a] = pc[a]
    BY <1>4 DEF ChooseInterpretation, post
<1>5. ASSUME UNCHANGED vars PROVE Unread /\ pc'[a] = pc[a]
    BY <1>5 DEF vars, post
<1> QED
    BY <1>1, <1>2, <1>3, <1>4, <1>5, NextCases

LEMMA QuestionStep ==
    ASSUME TypeOK, Placed, RunsInv, SerialInv, NoOverlap, QuestionInv, Next
    PROVE  QuestionInv'
<1>0. TypeOK' /\ Grow /\ scenario' = scenario
    BY TypeStep, NextCases
<1>r. Runs \subseteq Requests /\ Posts \subseteq Requests /\ Asks \subseteq Posts
    BY DEF Requests, Posts
<1>t. pc \in [Requests -> PcValues] /\ own \in [Requests -> Nat] /\ messages \in Seq(Message)
    BY DEF TypeOK
<1>m. Len(messages) \in Nat /\ DOMAIN messages = 1..Len(messages)
    BY <1>t
<1>q. ASSUME NEW q \in Posts, SaveQuestion(q) \/ SaveAnswer(q), NEW p \in Posts \ {q} PROVE ~Running(p)
    <2>1. Running(q) \/ MayStart(q)
        BY <1>q DEF SaveQuestion, SaveAnswer, Running
    <2> QED
        BY <1>r, <2>1, Alone
<1>1. ASSUME NEW q \in Posts, pc'[q] \in {"context", "result", "answer"}
      PROVE  own'[q] = Len(messages') /\ messages'[own'[q]].role = "USER" /\ messages'[own'[q]].by = q
    <2>1. CASE SaveQuestion(q)
        <3>1. own'[q] = Len(messages) + 1
            BY <1>r, <1>t, <2>1 DEF SaveQuestion
        <3>2. /\ Len(messages') = Len(messages) + 1
              /\ messages'[Len(messages) + 1] = NewMessage("USER", q, FALSE, None)
            BY <1>0, <2>1, QuestionGrows
        <3>3. LET m == NewMessage("USER", q, FALSE, None) IN m.role = "USER" /\ m.by = q
            BY DEF NewMessage
        <3> QED
            BY <3>1, <3>2, <3>3
    <2>2. ~SaveAnswer(q)
        BY <1>1, <1>r, <1>t DEF SaveAnswer, Goto
    <2>3. CASE ~SaveQuestion(q)
        <3>1. Moves(q) \/ (pc'[q] = pc[q] /\ own'[q] = own[q])
            BY <1>r, OneMoves DEF Moves
        <3>2. pc[q] \in {"context", "result", "answer"} /\ own'[q] = own[q]
            <4>1. CASE pc'[q] = pc[q]
                BY <1>1, <3>1, <4>1 DEF Moves
            <4>2. CASE pc'[q] # pc[q]
                <5>1. ASSUME NEW p \in Posts, SaveQuestion(p) \/ SaveAnswer(p) PROVE FALSE
                    <6>1. p # q
                        BY <2>2, <2>3, <5>1
                    <6> QED
                        BY <1>r, <1>t, <4>2, <5>1, <6>1 DEF SaveQuestion, SaveAnswer, Goto
                <5>2. ASSUME NEW x \in Runs, Inside(x) PROVE FALSE
                    <6>1. x # q
                        BY ConversationAssumption
                    <6>2. pc' = [pc EXCEPT ![x] = pc'[x]]
                        BY <1>0, <5>2, InsideFrame
                    <6> QED
                        BY <1>r, <1>t, <4>2, <6>1, <6>2
                <5>3. ASSUME NEW x \in Runs, WriteRow(x) \/ UpdateMessage(x) PROVE FALSE
                    <6>1. x # q
                        BY ConversationAssumption
                    <6> QED
                        BY <1>r, <1>t, <4>2, <5>3, <6>1 DEF WriteRow, UpdateMessage, Goto
                <5>4. ASSUME NEW n \in DOMAIN messages, ChooseInterpretation(n) PROVE FALSE
                    BY <4>2, <5>4 DEF ChooseInterpretation
                <5>5. PICK p \in Requests : Aside(p)
                    BY <4>2, <5>1, <5>2, <5>3, <5>4, NextCases DEF vars
                <5>6. p = q
                    BY <1>0, <1>r, <4>2, <5>5, AsideFrame
                <5>7. q \notin Renames
                    BY ConversationAssumption
                <5>8. pc[q] \in {"context", "result", "answer"}
                    BY <1>1, <1>r, <1>t, <5>5, <5>6, <5>7 DEF Aside, AskStep, NoSchema, LoadContext, ReadLastResult, AnswerFails,
                        ReadTitle, WriteTitle, Goto
                <5> QED
                    BY <3>1, <5>8 DEF Moves
            <4> QED
                BY <4>1, <4>2
        <3>3. own[q] = Len(messages) /\ messages[own[q]].role = "USER" /\ messages[own[q]].by = q
              /\ own[q] \in DOMAIN messages
            BY <3>2 DEF QuestionInv, Placed
        <3>4. ASSUME NEW p \in Posts, SaveQuestion(p) \/ SaveAnswer(p) PROVE FALSE
            <4>1. p # q
                BY <2>2, <2>3, <3>4
            <4>2. Running(q)
                BY <3>2 DEF Running
            <4> QED
                BY <1>q, <3>4, <4>1, <4>2
        <3>5. Len(messages') = Len(messages)
            BY <3>4, LengthChange
        <3> QED
            BY <1>0, <3>2, <3>3, <3>5 DEF Grow
    <2> QED
        BY <2>1, <2>3
<1>2. ASSUME NEW n \in DOMAIN messages', messages'[n].role = "ASSISTANT"
      PROVE  n > 1 /\ messages'[n - 1].role = "USER" /\ messages'[n - 1].by = messages'[n].by
    <2>1. CASE n \in DOMAIN messages
        <3>1. messages[n].role = "ASSISTANT" /\ messages'[n].by = messages[n].by
            BY <1>0, <1>2, <2>1 DEF Grow
        <3>2. n > 1 /\ messages[n - 1].role = "USER" /\ messages[n - 1].by = messages[n].by
            BY <2>1, <3>1 DEF QuestionInv
        <3>3. n - 1 \in DOMAIN messages
            BY <1>m, <2>1, <3>2
        <3> QED
            BY <1>0, <3>1, <3>2, <3>3 DEF Grow
    <2>2. CASE n \notin DOMAIN messages
        <3>0. n = Len(messages) + 1
            BY <2>2, MessageChange
        <3>1. Len(messages') # Len(messages)
            BY <1>0, <1>m, <2>2, <3>0 DEF TypeOK
        <3>2. PICK q \in Posts : SaveQuestion(q) \/ SaveAnswer(q)
            BY <3>1, LengthChange
        <3>3. ~SaveQuestion(q)
            <4>1. ASSUME SaveQuestion(q) PROVE messages'[n] = NewMessage("USER", q, FALSE, None)
                BY <1>0, <3>0, <4>1, QuestionGrows
            <4> QED
                BY <1>2, <4>1 DEF NewMessage
        <3>4. messages'[n].by = q /\ \A k \in DOMAIN messages : messages'[k] = messages[k]
            BY <1>0, <3>0, <3>2, <3>3, AnswerGrows
        <3>5. pc[q] = "answer" /\ own[q] \in DOMAIN messages
            BY <3>2, <3>3 DEF SaveAnswer, Placed
        <3>6. own[q] = Len(messages) /\ messages[own[q]].role = "USER" /\ messages[own[q]].by = q
            BY <3>5 DEF QuestionInv
        <3>7. n - 1 = own[q] /\ n > 1
            BY <1>m, <3>0, <3>5, <3>6
        <3> QED
            BY <3>4, <3>5, <3>6, <3>7
    <2> QED
        BY <2>1, <2>2
<1>3. ASSUME NEW a \in Asks, dropped'[a] # 0
      PROVE  dropped'[a] = own'[a] /\ pc'[a] \notin {"idle", "context"}
    <2>0. a \in Posts /\ a \in Requests /\ a \notin Renames
        BY ConversationAssumption DEF Posts, Requests
    <2>1. CASE LoadContext(a)
        <3> DEFINE newest == {n \in DOMAIN messages : n + Take > Len(messages)}
        <3>1. own[a] = Len(messages) /\ own[a] \in DOMAIN messages /\ own' = own
            BY <2>0, <2>1 DEF LoadContext, QuestionInv, Placed
        <3>2. Len(messages) \in newest /\ newest \subseteq 1..Len(messages)
            BY <1>m, <3>1, ConversationAssumption
        <3>3. Max(newest) \in newest /\ Max(newest) >= Len(messages)
            <4> HIDE DEF newest
            <4> QED
                BY <1>m, <3>2, MaxOf
        <3>4. Max(newest) = Len(messages)
            <4> HIDE DEF newest
            <4>1. Max(newest) \in 1..Len(messages)
                BY <3>2, <3>3
            <4> QED
                BY <1>m, <3>3, <4>1
        <3>5. dropped'[a] = Max(newest)
            BY <2>1 DEF LoadContext, DroppedMessage, TypeOK
        <3>6. pc'[a] = "result"
            BY <1>t, <2>0, <2>1 DEF LoadContext, Goto
        <3> QED
            BY <3>1, <3>4, <3>5, <3>6
    <2>2. CASE ReadLastResult(a)
        <3>1. dropped' = dropped /\ own' = own /\ pc'[a] = "answer"
            BY <1>t, <2>0, <2>2 DEF ReadLastResult, Goto
        <3> QED
            BY <1>3, <3>1 DEF QuestionInv
    <2>3. CASE dropped'[a] = dropped[a] /\ (pc'[a] = pc[a] \/ SaveQuestion(a) \/ SaveAnswer(a) \/ Aside(a))
        <3>1. dropped[a] = own[a] /\ pc[a] \notin {"idle", "context"}
            BY <1>3, <2>3 DEF QuestionInv
        <3>2. own'[a] = own[a]
            BY <2>0, <3>1, OneMoves DEF Moves
        <3>3. ~SaveQuestion(a)
            BY <3>1 DEF SaveQuestion, MayStart
        <3>4. pc'[a] \notin {"idle", "context"}
            BY <1>t, <2>0, <2>3, <3>1, <3>3 DEF SaveAnswer, Aside, AskStep, NoSchema, LoadContext, ReadLastResult, AnswerFails,
                ReadTitle, WriteTitle, Goto
        <3> QED
            BY <2>3, <3>1, <3>2, <3>4
    <2> QED
        BY <2>1, <2>2, <2>3, ReadChange
<1>4. ASSUME NEW x \in Runs, question'[x] # None PROVE question'[x] = messages'[own'[x]].by
    <2>1. ASSUME question[x] # None, own'[x] = own[x], question'[x] = question[x] PROVE question'[x] = messages'[own'[x]].by
        <3>1. pc[x] # "idle"
            BY <2>1 DEF RunsInv, RunOK
        <3>2. own[x] \in DOMAIN messages /\ question[x] = messages[own[x]].by
            BY <2>1, <3>1 DEF Placed, QuestionInv, InsightForOwnQuestion
        <3> QED
            BY <1>0, <2>1, <3>2 DEF Grow
    <2>2. CASE Same(x)
        BY <1>4, <2>1, <2>2 DEF Same
    <2>3. CASE WriteRow(x)
        BY <1>0, <1>4, <2>1, <2>3, WriteMoves
    <2>4. CASE UpdateMessage(x)
        BY <1>0, <1>4, <2>1, <2>4, UpdateMoves
    <2>5. CASE StartRun(x)
        <3>1. question' = question /\ question[x] = None
            BY <2>5 DEF StartRun, MayStart, RunsInv, RunOK
        <3> QED
            BY <1>4, <3>1
    <2>6. CASE Insight(x)
        <3>1. own' = own /\ messages' = messages /\ pc[x] = "insight"
              /\ question'[x] = (IF row[x].snapshot THEN QuestionFor(own[x]) ELSE question[x])
            BY <2>6 DEF Insight, TypeOK
        <3>2. own[x] \in DOMAIN messages /\ messages[own[x]].sql # None /\ MessageOK(own[x])
            BY <3>1 DEF Placed, RunsInv, RunOK
        <3>3. QuestionFor(own[x]) = messages[own[x]].by
            BY <3>2, QuestionForOwn
        <3> QED
            BY <1>4, <2>1, <3>1, <3>3
    <2>7. CASE QuerySucceeds(x) \/ QueryBlocked(x) \/ QueryFails(x) \/ RepairSucceeds(x) \/ RepairFails(x)
               \/ FindRow(x) \/ Collide(x)
        <3>1. own' = own /\ question' = question
            BY <2>7 DEF QuerySucceeds, QueryBlocked, QueryFails, RepairSucceeds, RepairFails, FindRow, Collide, run
        <3> QED
            BY <1>4, <2>1, <3>1
    <2> QED
        BY <2>2, <2>3, <2>4, <2>5, <2>6, <2>7, RunChange DEF Inside
<1> QED
    BY <1>1, <1>2, <1>3, <1>4 DEF QuestionInv, InsightForOwnQuestion

\* Rows that are kept are those of the SQL their message shows, as long as no
\* other SQL is run.
LastInv ==
    /\ \A n \in DOMAIN messages : LET r == messages[n].row IN
        /\ r # None /\ r.snapshot
        /\ \A x \in Runs : own[x] = n => pc[x] \notin {"insight", "update"}
        => r.sql = messages[n].sql
    /\ \A x \in Runs : Running(x) /\ ~repaired[x] => sql[x] = messages[own[x]].sql
    /\ \A a \in Asks : pc[a] = "result" /\ lastSql[a] # None => lastSql[a].sql = messages[lastSql[a].at].sql
    /\ LastResultPaired

LEMMA LastStep ==
    ASSUME TypeOK, Placed, RunsInv, SerialInv, NoOverlap, AgreeInv, QuestionInv, LastInv, ~scenario.edits, Next
    PROVE  LastInv'
<1>0. TypeOK' /\ Grow /\ scenario' = scenario
    BY TypeStep, NextCases
<1>r. Runs \subseteq Requests /\ Posts \subseteq Requests /\ Asks \subseteq Posts
    BY DEF Requests, Posts
<1>t. pc \in [Requests -> PcValues] /\ own \in [Requests -> Nat] /\ sql \in [Runs -> Sqls \cup {None}]
      /\ repaired \in [Runs -> BOOLEAN]
    BY DEF TypeOK
<1>c. ASSUME NEW n \in DOMAIN messages, ChooseInterpretation(n) PROVE messages[n].sql = None
    BY <1>c DEF ChooseInterpretation
<1>1. ASSUME NEW n \in DOMAIN messages', NEW r, r = messages'[n].row, r # None, r.snapshot,
             \A x \in Runs : own'[x] = n => pc'[x] \notin {"insight", "update"}
      PROVE  r.sql = messages'[n].sql
    <2>1. ASSUME NEW x \in Runs, own[x] = n, pc[x] \in {"insight", "update"} PROVE UpdateMessage(x)
        <3>1. ~WriteRow(x)
            BY <2>1 DEF WriteRow
        <3>2. ASSUME Inside(x) PROVE pc'[x] = "update" /\ own' = own
            BY <2>1, <3>2 DEF TypeOK, Inside, StartRun, MayStart, QuerySucceeds, QueryBlocked, QueryFails, RepairSucceeds,
                RepairFails, FindRow, Collide, Insight, Record, Goto, Requests
        <3> QED
            BY <1>1, <2>1, <3>1, <3>2, RunChange DEF Same
    <2>2. ASSUME NEW x \in Runs, UpdateMessage(x), n = own[x] PROVE r.sql = messages'[n].sql
        <3>1. messages'[n].row = messages[n].row
              /\ messages'[n].sql = (IF repaired[x] THEN sql[x] ELSE messages[n].sql)
            BY <1>0, <2>2, UpdateGrows
        <3>2. messages[n].row = row[x] /\ row[x].sql = sql[x]
            BY <2>2 DEF UpdateMessage, AgreeInv, RunsInv, RunOK
        <3>3. ~repaired[x] => sql[x] = messages[n].sql
            BY <2>2 DEF UpdateMessage, Running, LastInv
        <3> QED
            BY <1>1, <3>1, <3>2, <3>3
    <2>3. CASE n \in DOMAIN messages /\ messages'[n] = messages[n]
        <3>1. CASE \E x \in Runs : own[x] = n /\ pc[x] \in {"insight", "update"}
            BY <2>1, <2>2, <3>1
        <3>2. CASE ~\E x \in Runs : own[x] = n /\ pc[x] \in {"insight", "update"}
            BY <1>1, <2>3, <3>2 DEF LastInv
        <3> QED
            BY <3>1, <3>2
    <2>4. ASSUME NEW x \in Runs, WriteRow(x), n = own[x] PROVE FALSE
        <3>1. messages'[n].row = row[x] /\ own' = own /\ row[x] # None
              /\ pc'[x] = (IF row[x].status = "SUCCESS" THEN "insight" ELSE "failed")
            BY <1>0, <1>1, <2>4, WriteMoves
        <3>2. row[x].snapshot => row[x].status = "SUCCESS"
            BY <3>1 DEF RunsInv, RunOK
        <3> QED
            BY <1>1, <2>4, <3>1, <3>2
    <2>5. ASSUME n \in DOMAIN messages, ChooseInterpretation(n) PROVE FALSE
        <3>1. messages'[n].row = messages[n].row
            BY <1>0, <2>5, ChooseGrows
        <3> QED
            BY <1>1, <1>c, <2>5, <3>1 DEF RunsInv, MessageOK
    <2> QED
        BY <1>1, <2>2, <2>3, <2>4, <2>5, MessageChange
<1>s. ASSUME NEW n \in DOMAIN messages, messages[n].sql # None, ~\E y \in Runs : UpdateMessage(y)
      PROVE  messages'[n].sql = messages[n].sql
    <2>1. n \in DOMAIN messages'
        BY <1>0 DEF Grow
    <2>2. ~ChooseInterpretation(n)
        BY <1>c, <1>s
    <2>3. ASSUME NEW x \in Runs, WriteRow(x), n = own[x] PROVE messages'[n].sql = messages[n].sql
        BY <1>0, <2>3, WriteMoves
    <2> QED
        BY <1>s, <2>1, <2>2, <2>3, MessageChange
<1>2. ASSUME NEW x \in Runs, Running(x)', ~repaired'[x] PROVE sql'[x] = messages'[own'[x]].sql
    <2>1. ASSUME Running(x), ~repaired[x], own'[x] = own[x], sql'[x] = sql[x] PROVE sql'[x] = messages'[own'[x]].sql
        <3>1. own[x] \in DOMAIN messages /\ messages[own[x]].sql # None /\ sql[x] = messages[own[x]].sql
            BY <2>1 DEF Running, Placed, RunsInv, RunOK, LastInv
        <3>2. ASSUME NEW y \in Runs, UpdateMessage(y) PROVE FALSE
            <4>1. Running(y)
                BY <3>2 DEF UpdateMessage, Running
            <4>2. x = y
                BY <1>r, <2>1, <4>1 DEF SerialInv
            <4>3. pc'[x] = "done"
                BY <1>0, <3>2, <4>2, UpdateMoves
            <4> QED
                BY <1>2, <4>3 DEF Running
        <3> QED
            BY <1>s, <2>1, <3>1, <3>2
    <2>2. CASE Same(x)
        BY <1>2, <2>1, <2>2 DEF Same, Running
    <2>3. CASE WriteRow(x)
        <3>1. own' = own /\ sql' = sql /\ repaired' = repaired /\ pc[x] = "write"
            BY <1>0, <2>3, WriteMoves
        <3> QED
            BY <1>2, <2>1, <3>1 DEF Running
    <2>4. ~UpdateMessage(x)
        <3>1. ASSUME UpdateMessage(x) PROVE pc'[x] = "done"
            BY <1>0, <3>1, UpdateMoves
        <3> QED
            BY <1>2, <3>1 DEF Running
    <2>5. CASE StartRun(x)
        <3>1. PICK n \in DOMAIN messages : own' = [own EXCEPT ![x] = n] /\ sql' = [sql EXCEPT ![x] = messages[n].sql]
            BY <2>5 DEF StartRun
        <3>2. messages' = messages
            BY <2>5 DEF StartRun
        <3> QED
            BY <1>r, <1>t, <3>1, <3>2
    <2>6. CASE RepairSucceeds(x)
        BY <1>2, <1>t, <2>6 DEF RepairSucceeds
    <2>7. CASE QuerySucceeds(x) \/ QueryBlocked(x) \/ QueryFails(x) \/ RepairFails(x) \/ FindRow(x) \/ Collide(x)
               \/ Insight(x)
        <3>1. own' = own /\ sql' = sql /\ repaired' = repaired /\ Running(x)
            BY <2>7 DEF QuerySucceeds, QueryBlocked, QueryFails, RepairFails, FindRow, Collide, Insight, run, Running
        <3> QED
            BY <1>2, <2>1, <3>1
    <2> QED
        BY <2>2, <2>3, <2>4, <2>5, <2>6, <2>7, RunChange DEF Inside
<1>3. ASSUME NEW a \in Asks, pc'[a] = "result", lastSql'[a] # None
      PROVE  lastSql'[a].sql = messages'[lastSql'[a].at].sql
    <2>1. CASE LoadContext(a)
        <3> DEFINE newest == {n \in DOMAIN messages : n + Take > Len(messages)}
                   withSql == {n \in newest : messages[n].sql # None}
        <3>1. lastSql'[a] = LastSqlMessage(newest) /\ messages' = messages
            BY <2>1 DEF LoadContext, TypeOK
        <3>2. lastSql'[a] = [at |-> Max(withSql), sql |-> messages[Max(withSql)].sql]
            BY <1>3, <3>1 DEF LastSqlMessage
        <3> HIDE DEF withSql
        <3> QED
            BY <3>1, <3>2
    <2>2. ~ReadLastResult(a)
        BY <1>3, <1>r, <1>t DEF ReadLastResult, Goto
    <2>3. CASE lastSql'[a] = lastSql[a] /\ (pc'[a] = pc[a] \/ SaveQuestion(a) \/ SaveAnswer(a) \/ Aside(a))
               /\ ~LoadContext(a)
        <3>1. a \notin Renames
            BY <1>r, ConversationAssumption
        <3>2. pc[a] = "result"
            BY <1>3, <1>r, <1>t, <2>2, <2>3, <3>1 DEF SaveQuestion, SaveAnswer, Aside, AskStep, NoSchema, AnswerFails,
                ReadTitle, WriteTitle, Goto
        <3>3. lastSql[a].at \in DOMAIN messages /\ lastSql[a].sql = messages[lastSql[a].at].sql
              /\ lastSql[a].sql \in Sqls
            BY <1>3, <2>3, <3>2 DEF LastInv, TypeOK
        <3>4. ASSUME NEW y \in Runs, UpdateMessage(y) PROVE FALSE
            <4>1. Running(y) /\ Running(a)
                BY <3>2, <3>4 DEF UpdateMessage, Running
            <4>2. a \notin Runs
                BY <1>r, ConversationAssumption
            <4> QED
                BY <1>r, <4>1, <4>2 DEF SerialInv
        <3>5. lastSql[a].sql # None
            BY <3>3, ConversationAssumption
        <3> QED
            BY <1>s, <2>3, <3>3, <3>4, <3>5
    <2> QED
        BY <2>1, <2>2, <2>3, ReadChange
<1>4. ASSUME NEW a \in Asks, lastResult'[a] # None PROVE lastResult'[a].sql = lastResult'[a].rowsOf
    <2>1. CASE lastResult'[a] = lastResult[a]
        BY <1>4, <2>1 DEF LastInv, LastResultPaired
    <2>2. CASE ReadLastResult(a)
        <3> DEFINE r == messages[lastSql[a].at].row
        <3>1. lastSql[a] # None /\ r # None /\ r.snapshot
              /\ lastResult'[a] = [sql |-> lastSql[a].sql, rowsOf |-> r.sql]
            BY <1>4, <2>2 DEF ReadLastResult, TypeOK
        <3>2. pc[a] = "result" /\ lastSql[a].at \in DOMAIN messages
            BY <2>2, <3>1 DEF ReadLastResult, TypeOK
        <3>3. lastSql[a].sql = messages[lastSql[a].at].sql
            BY <3>1, <3>2 DEF LastInv
        <3>4. ASSUME NEW x \in Runs PROVE pc[x] \notin {"insight", "update"}
            <4>1. Running(a)
                BY <3>2 DEF Running
            <4>2. a \notin Runs
                BY <1>r, ConversationAssumption
            <4> QED
                BY <1>r, <4>1, <4>2 DEF SerialInv, Running
        <3>5. r.sql = messages[lastSql[a].at].sql
            BY <3>1, <3>2, <3>4 DEF LastInv
        <3> HIDE DEF r
        <3> QED
            BY <3>1, <3>3, <3>5
    <2>3. CASE LoadContext(a)
        BY <1>4, <2>3 DEF LoadContext, LastInv, LastResultPaired
    <2> QED
        BY <2>1, <2>2, <2>3, ReadChange
<1> QED
    BY <1>1, <1>2, <1>3, <1>4 DEF LastInv, LastResultPaired

-----------------------------------------------------------------------------
(* The theorems                                                            *)

\* Runs know their messages whatever overlaps; what is matched by order, and
\* what is read before it is written, is right when nothing overlaps.
IInv ==
    /\ TypeOK /\ Placed /\ RunsInv /\ ShownInv /\ RepairsCounted /\ SerialInv
    /\ NoOverlap => AgreeInv /\ QuestionInv /\ (~scenario.edits => LastInv)

LEMMA InitInv == Init => IInv
<1> SUFFICES ASSUME Init PROVE IInv
    OBVIOUS
<1>1. TypeOK
    BY TypeInit
<1>2. /\ messages = <<>> /\ DOMAIN messages = {}
      /\ \A q \in Requests : pc[q] = "idle"
      /\ \A x \in Runs : ~repaired[x] /\ row[x] = None /\ question[x] = None
      /\ \A a \in Asks : dropped[a] = 0 /\ lastResult[a] = None
      /\ Runs \subseteq Requests /\ Posts \subseteq Requests /\ Asks \subseteq Posts
    BY DEF Init, Requests, Posts
<1>3. Placed /\ RunsInv /\ ShownInv /\ RepairsCounted /\ SerialInv
    BY <1>2 DEF Placed, RunsInv, RunOK, ShownInv, ShownIsRecorded, RepairsCounted, SerialInv, Running
<1>4. AgreeInv /\ QuestionInv /\ LastInv
    BY <1>2 DEF AgreeInv, QuestionInv, InsightForOwnQuestion, LastInv, LastResultPaired, Running
<1> QED
    BY <1>1, <1>3, <1>4 DEF IInv

LEMMA NextInv == IInv /\ Next => IInv'
<1> SUFFICES ASSUME IInv, Next PROVE IInv'
    OBVIOUS
<1>1. TypeOK /\ Placed /\ RunsInv /\ ShownInv /\ RepairsCounted /\ SerialInv
    BY DEF IInv
<1>2. TypeOK' /\ Placed' /\ ShownInv' /\ RepairsCounted' /\ SerialInv'
    BY <1>1, TypeStep, PlacedStep, ShownStep, RepairsCountedStep, SerialStep
<1>3. RunsInv'
    BY <1>1, RunsStep, MessagesStep DEF RunsInv
<1>4. scenario' = scenario
    BY NextCases
<1>5. NoOverlap => AgreeInv'
    BY <1>1, AgreeStep DEF IInv
<1>6. NoOverlap => QuestionInv'
    BY <1>1, QuestionStep DEF IInv
<1>7. NoOverlap /\ ~scenario.edits => LastInv'
    BY <1>1, LastStep DEF IInv
<1>8. NoOverlap' <=> NoOverlap
    BY <1>4 DEF NoOverlap
<1> QED
    BY <1>2, <1>3, <1>4, <1>5, <1>6, <1>7, <1>8 DEF IInv

LEMMA Inductive == Spec => []IInv
<1>1. ASSUME IInv, [Next]_vars PROVE IInv'
    <2>1. CASE Next
        BY <1>1, <2>1, NextInv
    <2>2. CASE UNCHANGED vars
        <3>1. /\ scenario' = scenario /\ messages' = messages /\ title' = title /\ pc' = pc /\ own' = own
              /\ titleRead' = titleRead /\ lastSql' = lastSql /\ dropped' = dropped /\ context' = context
              /\ lastResult' = lastResult /\ sql' = sql /\ repaired' = repaired /\ row' = row /\ found' = found
              /\ question' = question
            BY <2>2 DEF vars, post, run
        <3>2. TypeOK' /\ Placed'
            BY <1>1, <3>1 DEF IInv, TypeOK, Placed
        <3>3. RunsInv'
            BY <1>1, <3>1 DEF IInv, RunsInv, RunOK, MessageOK
        <3>4. ShownInv' /\ SerialInv'
            BY <1>1, <3>1 DEF IInv, ShownInv, ShownIsRecorded, SerialInv, NoOverlap, Running
        <3>5. RepairsCounted'
            BY <1>1, <3>1 DEF IInv, RepairsCounted
        <3>6. NoOverlap' => AgreeInv' /\ QuestionInv'
            BY <1>1, <3>1 DEF IInv, NoOverlap, AgreeInv, QuestionInv, InsightForOwnQuestion
        <3>7. NoOverlap' /\ ~scenario'.edits => LastInv'
            BY <1>1, <3>1 DEF IInv, NoOverlap, LastInv, LastResultPaired, Running
        <3> QED
            BY <3>2, <3>3, <3>4, <3>5, <3>6, <3>7 DEF IInv
    <2> QED
        BY <1>1, <2>1, <2>2
<1> QED
    BY <1>1, InitInv, PTL DEF Spec

\* Whatever requests do to the conversation, its state has the types the
\* queries and the handlers rely on.
THEOREM ConversationTyped == Spec => []TypeOK
<1>1. IInv => TypeOK
    BY DEF IInv
<1> QED
    BY <1>1, Inductive, PTL

\* A message shows a result only after a run of it was recorded, and the
\* recorded one when its runs did not overlap (executeSQL).
THEOREM HistoryMatchesMessages == Spec => []HistoryAndMessageAgree
<1>1. IInv => HistoryAndMessageAgree
    BY AgreementHolds DEF IInv
<1> QED
    BY <1>1, Inductive, PTL

\* Without overlap, the context, the last result and the insight are those of
\* the question they are given for, although messages are matched by their
\* order alone (generateSQLStream, getQuestionForMessage).
THEOREM ContextBelongs == Spec => []GivenForOwnQuestion
<1>1. IInv => GivenForOwnQuestion
    <2>1. (\A a \in Asks : dropped[a] # 0 => dropped[a] = own[a]) => ContextDropsOwnQuestion
        BY DEF ContextDropsOwnQuestion
    <2> QED
        BY <2>1 DEF IInv, QuestionInv, LastInv, GivenForOwnQuestion
<1> QED
    BY <1>1, Inductive, PTL

\* However runs overlap, each correction that was shown is counted once, and
\* replaces the SQL of a message only after it ran (tryRepair, executeSQL).
THEOREM RepairsSettle == Spec => RepairsSettled
<1>1. IInv /\ IInv' /\ [Next]_vars => [RepairsCounted' /\ FixedSqlRan]_vars
    BY FixedSqlRanStep DEF IInv
<1> QED
    BY <1>1, Inductive, PTL DEF Spec, RepairsSettled
=============================================================================
