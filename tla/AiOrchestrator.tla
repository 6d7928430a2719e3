--------------------------- MODULE AiOrchestrator ---------------------------
(***************************************************************************)
(* apps/api/src/ai: what the AI service makes of the replies of its three   *)
(* providers (ai-orchestrator.service.ts) with the validator's reading of   *)
(* them (sql-validator.service.ts), and what the guardrails refuse          *)
(* (sql-guard.service.ts).                                                  *)
(*                                                                          *)
(* A text is told apart by what the parsers find in it.  The providers are  *)
(* asked in the order Groq, OpenRouter, Gemini; `replies` holds what each   *)
(* would reply, and NoReply stands for a provider without a key or one that *)
(* fails, is slow or returns what cannot be parsed.                         *)
(***************************************************************************)
EXTENDS Naturals, Sequences, FiniteSets, FiniteSetsExt, SequencesExt, Folds

CONSTANTS
    Sqls,      \* texts of queries
    Facts,     \* what the parser and the database find in each of them
    Lower,     \* a function: the lower case of each name
    NoReply,   \* no usable text
    NoSql,     \* a reply without SQL
    MaxDepth,  \* MAX_SELECT_DEPTH, 4 in the code
    MaxEstimated \* MAX_ESTIMATED_ROWS, a million in the code

Nothing == [type |-> "nothing"]
GiveUp == [type |-> "give_up"]

-----------------------------------------------------------------------------
(* sql-validator.service.ts and sql-guard.service.ts                       *)

\* validate: one statement that starts with SELECT or WITH, holds no
\* forbidden word, parses in a dialect of the engine and is a SELECT.
Valid(s) ==
    LET f == Facts[s] IN
    f.prefix /\ ~f.forbidden /\ f.parses /\ f.statements = 1 /\ f.select

\* checkStructure: SQL nobody can parse is left to validate.
StructureAllowed(s) == Facts[s].parses => Facts[s].depth <= MaxDepth

\* evaluateExplain: the product of the estimates of a plan's tables.
EstimateAllowed(plan) ==
    FoldSeq(LAMBDA rows, product : Max({rows, 1}) * product, 1, plan) <= MaxEstimated

\* parseClarification keeps the options whose SQL is valid.
ValidOptions(reply) == {i \in DOMAIN reply.options : Valid(reply.options[i])}

-----------------------------------------------------------------------------
(* ai-orchestrator.service.ts                                              *)

\* The loop over the providers: the first reply something is made of.
FirstUsable(replies, Read(_)) ==
    LET usable == {i \in DOMAIN replies : replies[i] # NoReply /\ Read(replies[i]) # Nothing}
    IN IF usable = {} THEN Nothing ELSE Read(replies[Min(usable)])

\* A choice comes before a remark, a remark before a refusal, and SQL last;
\* missing or invalid SQL passes the question on.
ReadAnswer(reply) ==
    IF Cardinality(ValidOptions(reply)) >= 2
    THEN [type |-> "clarification", options |-> {reply.options[i] : i \in ValidOptions(reply)}]
    ELSE IF reply.says # "sql" THEN [type |-> reply.says]
    ELSE IF reply.sql # NoSql /\ Valid(reply.sql) THEN [type |-> "sql", sql |-> reply.sql]
    ELSE Nothing

GenerateSQL(replies) == FirstUsable(replies, ReadAnswer)

\* repairSQL: a refusal ends the search; NoSql when there is no correction.
RepairSQL(replies) ==
    FirstUsable(replies, LAMBDA reply :
        IF reply.says = "cannot_answer" THEN GiveUp
        ELSE IF reply.sql # NoSql /\ Valid(reply.sql)
        THEN [type |-> "sql", sql |-> reply.sql] ELSE Nothing)

\* generateInsight: any text will do, and no text is no failure.
GenerateInsight(replies) == \E i \in DOMAIN replies : replies[i] # NoReply

\* The real name a reply means: the last one with the same lower case.
RealNames(said, names) ==
    LET same == {i \in DOMAIN names : Lower[names[i]] = Lower[said]} IN
    IF same = {} THEN {} ELSE {names[Max(same)]}

\* generateTableDescription: texts for the columns the table really has.
TableDescription(replies, columns) ==
    FirstUsable(replies, LAMBDA reply :
        [type |-> "description",
         columns |-> UNION {RealNames(said, columns) : said \in reply.columns}])

\* parseModules: a table goes to the first module that names it; modules
\* without a name or without a table are dropped, the others keep their place.
ParseModules(said, tables) ==
    LET Means(i) == IF said[i].name = "" THEN {} ELSE UNION {RealNames(t, tables) : t \in said[i].tables}
        Left(i) == Means(i) \ UNION {Means(j) : j \in 1..(i - 1)}
    IN [i \in {j \in DOMAIN said : Left(j) # {}} |-> [name |-> said[i].name, tables |-> Left(i)]]

\* suggestModules: an empty grouping passes the question on.
SuggestModules(replies, tables) ==
    FirstUsable(replies, LAMBDA reply :
        IF DOMAIN ParseModules(reply, tables) = {} THEN Nothing
        ELSE [type |-> "modules", modules |-> ParseModules(reply, tables)])

\* interpretImportFilter: the conditions on known columns and operators; none
\* is an answer too.
ImportFilter(replies, columns, operators) ==
    FirstUsable(replies, LAMBDA reply :
        [type |-> "filter", match |-> IF reply.any THEN "any" ELSE "all",
         conditions |-> UNION {
             {[column |-> real, operator |-> c.operator, value |-> c.value] : real \in RealNames(c.column, columns)} :
                 c \in {d \in reply.conditions : d.operator \in operators}}])

\* reviewSchema: findings with a title, of a known severity; none at all when
\* every provider fails.
ReviewSchema(replies) ==
    LET review == FirstUsable(replies, LAMBDA reply :
            [type |-> "review",
             findings |-> {[f EXCEPT !.severity =
                                IF @ \in {"high", "medium", "low"} THEN @ ELSE "info"] :
                           f \in {g \in reply.findings : g.title # ""}}])
    IN IF review = Nothing THEN {} ELSE review.findings
=============================================================================
