# QuerySense: a TLA+ verification project

QuerySense lets people connect their databases, ask questions in words, run the
SQL a model writes, import spreadsheets, audit schemas and migrate data between
engines. This directory holds TLA+ models of its API (`src/apps/api`) and of the
screens of its web client (`src/apps/web`), where correctness depends on the
order of steps (what several requests share, what a failure leaves half done,
what was read before an `await` and is used after it) or on rules with many
cases (five dialects of paging, nine file formats, four catalogs). TLC checks the
models on small instances; TLAPS proves theorems about the pool cache, imports,
the schema metadata and its reading, conversations, the copying of tables, the
chat screen with the paging of queries, the connection screens with the audit of
schemas, the browser's session and the migration wizard for every size.

Paths below are relative to `src/apps/api/src/` or, after *web*, to
`src/apps/web/src/`, unless they start with `src/`.

## 1. The system

One Node process (NestJS) serves all HTTP requests. Its own data is in MySQL
through Prisma (`src/apps/api/prisma/schema.prisma`); the customers' databases
(MySQL, MariaDB, Postgres, Redshift, SQL Server, Oracle, Snowflake) are reached
through drivers. Node runs the code between two awaits without interruption, so
the interleavings that matter on the server are those at awaits. No queue, lock
or job table serializes requests, and Prisma transactions are used in none of
the operations modelled here. The web client is one React page with TanStack
Query and Zustand stores: its interleavings are those of user actions with
answers that arrive late.

| component | state it keeps | operations | talks to | what is hard | what makes it correct |
|---|---|---|---|---|---|
| Pool cache (`common/db/mysql-pool.ts`) | `POOL_CACHE`, holders and idle timer per pool, SSH tunnels | acquire, release, create, evict | every component that reads a customer database | creation shared by waiting callers, timer against acquisition, failed creation, teardown order | no pool is closed in use; one pool per connection; unused pools go away |
| CSV import (`connections/csv-import.service.ts`) | a customer's table: columns, rows, transaction | create or alter the table, deduplicate, insert in chunks, probe, revert | pool cache, schema metadata (re-sync at the end) | DDL outside the transaction undone by hand, other imports meanwhile, deadlock victims | all rows or none; a failed import leaves nothing; duplicates only are skipped |
| Schema metadata (`connections/connections.service.ts`, `schema-discovery.service.ts`) | tables, columns, descriptions, modules, status of a connection | sync, describe by AI, edit, group into modules, suggest modules, test, delete | customer database, AI, CSV import | delete and re-insert without a transaction, AI call of seconds between read and write | what people wrote survives; no column twice; manual groups stay |
| Conversations (`conversations/conversations.service.ts`) | messages, history row per message, title | ask (streamed), choose an interpretation, run a page, repair, record an import, rename | AI, pool cache, guardrails | messages paired by time, find-then-create, result, row and SQL written separately | results, insights and context belong to the right message; only guarded SQL runs |
| Data migration (`migrations/data-migration.service.ts`, `migrations/drivers/*`) | none between runs; target tables | plan, script, run table by table | two customer databases, migration validation | source changes while paged, foreign keys on the target, one table failing | every row copied once; gate before start; a true report |
| Migration validation (`migrations/validation/*`) | a report | connection, grants, schema, types, data, dependencies, volume, readiness | adapters of four engines | rules with many cases; probes that an engine refuses | a clean report means the rows fit; the order is an order |
| AI orchestration, guardrails (`ai/*`) | providers | generate, repair, describe, suggest, review, filter, with fallback | providers | a reply that parses but is not usable, the second try | the first usable reply is taken; only reads pass |
| Authentication, workspaces (`auth/*`, `workspaces/*`, web `lib/api-client.ts`, `stores`, forms) | users, workspaces, tokens, who is shown as signed in | register, login, refresh, log out, the retry after a 401 | Prisma, every screen | steps without a transaction; several 401 at once; a refresh across a sign-out | tokens of who is shown; no account half made but by a failure |
| Chat screen (web `features/chat`) | messages, results, edits, pages, a stream | ask, run, edit, choose, page, leave and come back | conversations | the stream ends early, answers after the screen is gone | a question once saved is shown; the footer counts the rows |
| Data import screen (web `features/chat/lib/data-import.ts`, `components/DataImportWizard.tsx`) | the file read, mapping, filter, imports under way | parse nine formats, infer types, filter, map, import | CSV import, AI, conversations | quoting, spans, escapes; the wizard moves on while answers are late | what was written is shown; what is sent fits what is shown; what is recorded was sent |
| Connection screens (web `features/connections`) | cached connection, editors, audit report | modules, descriptions, test, sync, delete, audit | schema metadata, schema audit | answers out of order replace the cache | the screen ends up with what is stored |
| Schema audit (`connections/schema-audit.service.ts`, `audit-dialect.ts`) | none | read a catalog, apply rules, score, offer a statement | customer database, AI review | four catalogs, one rule set | engines agree; a statement helps |
| Migration wizard (web `features/migrations`) | step, pair, selection, report, run | plan, validate, script, run, cancel | data migration, validation | late answers, a run that goes on after Cancel | what runs was validated; the outcome shown is the last run's |
| Dashboards, history listing (`dashboards/*`, `query-history/*`) | independent rows | CRUD | Prisma | - | owner sees own rows |
| Application shell | wiring | - | - | - | - |

`PROJECT.json` lists the same parts with their status, the hazards at their
lines, and for every definition that models code the lines it stands for.

## 2. Modules

| module | models | abstract / composes |
|---|---|---|
| `PoolCache` | `acquireCachedPool`, its release, idle eviction and the factories of `createMysqlPool` and `createPostgresPool` | implements `PoolLease` |
| `PoolLease` | what the cache promises: a pool is opened for a connection no live pool serves, joined while live, retired when unused | - |
| `CsvImport` | `importCsv` with `createTable`, `prepareExistingTable`, `filterDuplicates`, `insertRowsAtomic`, `revertSchemaChanges`; the transaction of `createSqlExecutor` | - |
| `SchemaSync` | `syncSchema`, `describeTable`, `updateColumnDescription` on the stored columns | - |
| `SchemaReading` | `discoverSchema` with its queries on seven engines and `assemble`; `selectRelevantTables`, which chooses the tables sent with a question | runs beside `SchemaSync` in `MCSchemaSync` |
| `Conversation` | `generateSQLStream`, `recordImport`, `chooseInterpretation`, `executeSQL` with `tryRepair`, history rows, titles, rename, of one conversation | - |
| `ArrayOps` | `Array.filter` | - |
| `TableOrder` | `topoOrder`: parents before children | extends `ArrayOps` |
| `DataMigration` | `DataMigrationService.run`: the gate, the table loop, `copyTable` of the four drivers, on a source in use | extends `TableOrder` |
| `MigrationRules` | the pure rules: type changes, column comparison, dependency order and cycles, volume, readiness | extends `TableOrder` |
| `MigrationValidation` | `validate` phase by phase over the adapters of four engines, the report, the plan and the gate of a run | extends `MigrationRules` |
| `MigrationWizard` | `MigrationWizard.tsx`: two connections, preview, validation, script, run with its event stream, dialogs | the run itself is `DataMigration`'s |
| `AiOrchestrator` | the order of the providers and what is accepted of a reply, for every kind of request; the validator and the guardrails | - |
| `QueryPaging` | `executePaginated` and its six engines: limits, pages, totals, the EXPLAIN gate | extends `AiOrchestrator` |
| `ChatScreen` | `useChat.ts`, `ChatInterface.tsx`, `AssistantMessage.tsx`, `chat.api.ts`, against the conversations API as single steps | composes `QueryPaging` and `AiOrchestrator` with the screen |
| `FileParsing` | `data-import.ts`: CSV, TSV, JSON, XML, HTML, Markdown, spreadsheets, SQL dumps, pasted text; types, names, filter | pure operators; extends `ArrayOps` |
| `DataImport` | the import in the chat: reading a file, the wizard, the instruction, the import and its record | composes `FileParsing` and `AiOrchestrator` |
| `SchemaAudit` | reading the catalogs of MySQL, Postgres, SQL Server, Oracle; the rules, score, and what each statement offered does | extends `AiOrchestrator` |
| `ConnectionScreens` | the explorer, the connection card, the audit report and the service's modules, descriptions, tests and deletion | composes `SchemaAudit` |
| `AuthSession` | `register`, `login`, `refresh`, the interceptors, the stores, the forms, `AuthGuard`, logging out | - |
| `CsvImportProofs`, `ConversationProofs`, `AuthSessionProofs`, `ChatScreenProofs` | the theorems about the module of that name; `ChatScreenProofs` also about `QueryPaging`, `AiOrchestrator`, `FileParsing` and `DataImport` | - |
| `MigrationRulesProofs` | the algorithms on the references between tables, and the lemmas on sets, sequences and types: `TableOrder`, `MigrationRules` | - |
| `MigrationProofs` | the theorems about `DataMigration`, `MigrationWizard` and `MigrationValidation` | extends `MigrationRulesProofs` |
| `SchemaProofs` | the theorems about `SchemaSync` and `SchemaReading` | - |
| `ConnectionProofs` | the theorems about `PoolCache`, `ConnectionScreens` and `SchemaAudit` | - |
| `MC...` | values for the constants of the module of that name | - |

Conventions. A request is an element of a constant set with a program counter
`pc`; a step is what the code does between two calls to a database or provider.
A model value stands for a text (a description, a title, a query): two texts
are equal when the same request wrote them. Where what is in a text matters, it is
a sequence of tokens (`FileParsing`) or a record of what the parsers find in it
(`Facts` of `AiOrchestrator`, `Class` of `SchemaAudit`). Definitions preceded by
a "Mutant" comment are plausible bugs in the definition after them; no
specification uses them. They document which bug each property would catch.

### PoolCache

`cache` is the map `POOL_CACHE`. An *entry* is one run of the factory: its
promise is `phase` (`pending`, `open`, `failed`), its pool's end is `closing`
and `ended`, and `keyOf`, `inFlight`, `timers` and `tunnel` are the variables
of its closure. `AcquireCached` and `AcquireNew` are the part of
`acquireCachedPool` before its await, `Resume` and `Reject` the part after it,
`Cleanup` the returned `cleanup()`, `IdleTimerFires` the timer callback and
`PoolEnds` and `CloseTunnel` the two awaits of `closeUnderlying`. A continuation
of a settled promise is a microtask and runs before any timer callback, which is
`MicrotasksPending`; without it the idle timer could close a pool between
its creation and the resumption of the caller that waits for it. An entry's name
is reused only when nothing refers to the entry any more (`Garbage`), so a
finite set of names stands for an unbounded series of pools.

`LeakyRequests` are requests of handlers that can throw between acquiring a pool
and the `try` whose `finally` calls `cleanup()`: `executePaginatedPostgres`
awaits `pool.connect()` there (`conversations.service.ts:1073-1079`), `importCsv` validates
there (`csv-import.service.ts:314-333`), validation connects both databases there
(`migration-validation.service.ts:76-79`).

### CsvImport

One table of a customer database and several imports. `creator` and `owner`
say who created the table and added each column, so that properties can speak of
traces; `rows` are the committed rows, `tx` those of an import's open
transaction. The database is external: DDL waits for transactions that have
written to the table (`DdlAllowed`), a failed statement changes nothing, and a
MySQL deadlock victim has lost its transaction, after which the probe inserts of
`insertRowsAtomic` commit one at a time. `Canon` is what the database gives
back for a key written in some way ("01" comes back as "1" from an integer
column); `filterDuplicates` compares texts, the database compares values, and the
model keeps the two apart. `adding` is the local list of
`prepareExistingTable`, `columnsAdded` the variable of `importCsv` that receives
it: they differ exactly when the function throws half-way. Columns and rows are
kept as sets and taken in the order of the mapping and of the file (`IsFirst`,
`Chunk`). What the database gives back for a key, it gives back again for itself,
and NULL is no key: the module assumes both of `Canon`.

### SchemaSync

`source` is the live schema, `store` the `ColumnMetadata` rows. A row is
identified by the sync that inserted it, as it is in the code by a fresh id.
`saved` is a history variable: the description last confirmed to somebody. A
`Describer` stands for its AI's texts, an `Editor` for a person's text. Any
request may overlap any other, and a sync may stop at any call; `overlap` is a
history of which requests ran at the same time, and each property says which
overlaps it does not survive.

### SchemaReading

`SchemaSync` takes what a sync discovers as one step; here each catalog query is
one (`ReadTables`, `ReadColumns`, `ReadPrimaryKeys`, `ReadForeignKeys`), since
nothing holds a snapshot and the customer may alter the database between two
(`AlterDatabase`). `live` is the database, `met` a history of what it was while it was
read, and a fact is right if the database declared it at some time in `met`. What the
catalogs show of the constraints is external (`KeyColumnUsage`,
`ConstraintColumnUsage`, `ColumnKeyPri`); how the queries join and filter it
(`JoinedByName`, `ByColumn`, `ByPosition`) and how `assemble` brings it together is the
code's. `SendAll` and `SendRelevant` are the ends of `selectRelevantTables`; what the
words of a question score for each table is any function into `WordScores`, and
the stable sort is `RowOrder`. `WordScores`, `MaxTables`, `AlwaysAllUnder` and
`MoreTables` are small here (2, 2 and 1 for 12, 8 and 8). Observations: on Postgres
and Redshift the columns of a foreign key of several columns, and of constraints
that share a name, are each joined with each (`Mixed`); of a column with
several references one is kept; Snowflake's keys are not read; a table dropped
after the first query is returned without columns. The model hands what a reading
found to the choice of tables at once; in the code it is stored first
(`SchemaSync`) and a question is answered from what is stored
(`conversations.service.ts:172-201`), so that between the reading and the question
the customer may alter the schema and people its descriptions: `PromptTellsSchema` is
about the database as it was read.

### Conversation

`messages` in order of `createdAt`; a message carries its SQL, the history row
that points to it, the result it shows and the repairs counted in its
telemetry. The `upsert` of `QueryHistory` is a find and then a create or update
(`FindRow`, `WriteRow`, `Collide`), as Prisma runs it on MySQL. A *scenario*,
chosen in the initial state, says which requests there are, which sets of them do
not overlap, and whether people run other SQL than the message shows (`dto.sql`)
or choose again among interpretations.

### DataMigration

`source` has the rows of each source table in physical order, `old` the rows the
target had before the run, `copies` how often the run inserted a row. A page
is read (`ReadPage`) and written (`WritePage`) in two statements on two
databases, and between any two the source may change (`SourceStep`). Keys
of one column are paged by value (`KeysetPage`), others by OFFSET
(`OffsetPage`). The target is external: a statement that would break a primary
or foreign key is refused (`Violates`, `Referenced`, `ParentMissing`); MySQL
turns foreign keys off, Postgres when privileged, the other two leave them on.
MySQL and Postgres commit every batch, SQL Server and Oracle one transaction per
table (`before` is what a rollback restores). `stable`, `touched` and `refused`
are history variables: the rows in the source from a copy's start to its end,
the tables changed while they were copied, and those with a refused INSERT.
An unordered scan (MySQL, SQL Server) is taken to return an unchanged
table's rows in the same order each time, which those databases do not promise.

### MigrationRules and MigrationValidation

A type is a record of its name, base, length, precision, scale, sign and the words of
an enum; the rules compare two of them as the code does, with what is absent as 0, and
find a column by its name in lower case (`Named`, `Column`). Phase 4 goes by the name
of a type, the rules by its base: `character varying` and `varchar2` have another. A
database is what the adapters can ask of it: whether it answers, its grants, tables,
columns and rows. A value of a row is `NULL` or a record of what databases look at: its
sign, the least integer type it fits, its characters, its digits before and after the
point, the rank of its bytes, the word it is and the charsets it can be written in. What each
adapter reports of a column (`MysqlColumn`, ...) is less than what is declared:
only MySQL tells `UNSIGNED`, charsets and the words of an enum. `Inspect` runs the phases on one pair of databases; a phase of a side that does not
answer is skipped as in the code. The database does not change while it is
inspected. What the engines do with a row (`Holds`, `Takes`, `Fits`) is external and the
reference the report is compared with: lengths, integer ranges, precision and scale,
the capacity of MySQL's texts and blobs, words and charsets. Arrays and composite types of
Postgres are known by their name only, labels with quotes or commas are not spelled out,
and keys and generated columns are not part of `Fits`. The two algorithms of `dependency.ts` are recursive functions:
`Sorted` counts Kahn's passes, and `StrongConnect` is a function of how deep its calls may
nest, from a table and the state of the search (`Searches`: `index`, `low`, the stack, the
cycles found) to the state it leaves; as deep as there are tables is deep enough, which the
proof shows. Observations: an unreachable source is not reported as
such (its later phases are skipped); "create missing columns" is announced by the
report and done by nobody; the grant `CREATE VIEW` is read as `CREATE` where
privileges are matched by substring; an Oracle view is "missing" on the target; `varchar2`
is none of the string types whose lengths phase 4 measures; and some changes that are
only warned about are measured nowhere (`Unmeasured`): a column that becomes unsigned, a
string into a `tinytext`, a number without precision into one that has it, another
charset, an enum of Postgres, a float into a `varchar2`. The comment above the rules
("Narrowing that risks data loss → ERROR; safe widening → WARNING",
`rules/type-compatibility.ts:72-76`) says otherwise of the second and third.

### MigrationWizard

`sourceId`, `targetId` and `validationReport` are the component's state of the same name.
`call[k]` is the payload of the pending call of kind `k` (preview, validation,
script); `streams` are the runs whose event stream is read. `runs` counts the runs
started, `shown` is the run whose outcome is on the screen. Cancel and
Close abort the stream only: the run goes on at the server (`RunEnds`,
`EndLost`).
`late` and `moved` are history variables: a preview or a validation answered
after what it was asked for had been changed; such an answer led away from a run.

### AiOrchestrator, QueryPaging, ChatScreen

The three providers are asked in order; `replies` holds what each would say and
`NoReply` stands for one without a key, one that fails, times out or returns
what does not parse. What a query is, is a record (`Facts`): whether it starts as
a read, parses, is one SELECT, how deep it nests, how many rows it returns, with
what limit and offset written how, whether the database runs, counts and
explains it. `ExecutePaginated` computes the page, the total and the pages
offered for each engine from that record. `ChatScreen` takes a request to the
server as one step (what happens within is `Conversation`'s) and models what
surrounds it: the stream of events that may break off, the card that is run,
edited, paged, and the hooks that forget what was on its way when the screen is
left, whereas the stores remember. Observations: `checkStructure` is not applied to
edited or corrected SQL; without a count (a derived table that the database
refuses) the page limit is not applied; an own `OFFSET` is dropped with the
limit; Postgres's `FETCH FIRST` gets a second limit.

### FileParsing and DataImport

A text is a sequence of tokens: the characters the parsers look at and pieces of
plain text, so that quoting, escapes, spans and separators are all there while
words are not spelled out. `MCDataImport` writes every small table in every format
the way a spreadsheet or a database would write it, and the parser must give it
back. The libraries for spreadsheets, XML and HTML are external: they give grids,
elements and tables; an XML document is the list of its elements in document order,
each with the number of its parent. `DataImportAssumption` says what the
parsers are handed: texts that are lists of tokens, trees of lists, spans that are
positive, tables of finitely many columns. The wizard is one record; `key` is the
React key under which it keeps its state, `on` the table it was mounted for, `moved`
says that it was kept for another one since, and `picked` is the connection and
the tables it was shown when one was chosen. `Payload` is what one press of Import
sends, frozen as the closure freezes it; `asShown` holds of a payload whose wizard has
not moved and which is for a new table or for the tables shown when it was
picked. Left out: column types, which are only passed on; both
kinds of quotes of a dump are one token; a gzipped file is taken as unpacked.
Observations: a corrected file of the same name, sheet and number of rows keeps
the wizard and its old mapping, a switched connection keeps the table, and a
Google sheet that answers late replaces the wizard.

### SchemaAudit and ConnectionScreens

A live schema is a function from table names to columns, keys, foreign keys and
indexes, with neutral types; `key` is what MySQL's `COLUMN_KEY` calls primary, which
without a primary key is a unique index (`MysqlKeys`), the first the table was given.
`SchemaAuditAssumption` says of the names of the columns that statements add that no
rule is about them; `Native` is the name each engine's catalog gives a
type, and `Introspect...` reads it back as the code does, so the rules meet what
the mapping leaves of it. `Accepted` says whether the engine takes the offered statement,
`RunFix` which databases it may leave. A statement that changes a type changes more
(`Altered`): MySQL's `MODIFY` states the whole column anew, so that `DECIMAL(12,2)` drops
NOT NULL and `AUTO_INCREMENT` and `TINYINT(1) NOT NULL` sets the former, and SQL Server's
`ALTER COLUMN` lets the column be NULL. A unique index may thereby cease to be what
MySQL shows as the primary key, or another become it (`KeysAfter`). In `ConnectionScreens` a request runs on
the server one Prisma call at a time (`NextTables`) and its answer comes later; `cached`
is the query cache. Observations: the statement that adds timestamps adds both
columns when only one is missing; on MyISAM a foreign key is accepted and ignored;
a group whose name was taken meanwhile (P2002) stops a suggestion half-way; text
typed for one table is saved to the table selected after it; a fetch of the connection
that fails leaves the old cache (`FetchRead`); the statement that makes a price exact
can cost a table the only key MySQL shows of it, and raise the penalty.

### AuthSession

Tokens are kept in localStorage and in a persisted store; only the former is ever
sent. `call[c]` is a request with the tokens it carries; `MayRetry` is the
interceptor's `_retry` mark; `Refreshed` stores new tokens whoever is shown by
then. `crossed` marks a call during which somebody signed in or out and `late`
a history in which such a refresh stored its tokens. A registration runs on the
server in three steps, one of which is a unique index away from the other browser's
(`Other`). Observations: signing out does not forget the current workspace; a
forced sign-out leaves `isAuthenticated` set; refresh tokens are not revoked; a
wrong password also triggers a refresh, with no token.


## 3. Runs

Eleven runs pass; `import_trace` shows a place where the code does not do what
its own comment says.

| run | instance | states | checks |
|---|---|---|---|
| `pool` | 3 requests (one may forget its release), a direct and a tunnelled connection, 3 entries; fairness | 54 062 | `HeldPoolIsOpen`, `CacheSound`, `ImplementsLease`, `PoolsWindDown`, `AcquireSettles` |
| `import` | one import alone in every mode over keys with blanks, repetitions and two spellings, or two that create, alter and fill one table with deadlocks; chunks of 2; fairness | 82 998 | `AllOrNothing`, `PreparedFailureUndone`, `OnlyDuplicatesSkipped`, `DedupedKeysUnique`, `ImportEnds` |
| `import_trace` (violation) | one import | - | `FailedImportLeavesNoTrace` |
| `sync` | 1 table of 2 columns, 2 symmetric syncs, a describe and an edit, overlapping or not, a sync stopped at any call, one change of the schema; and 42 readings of up to four tables on seven engines, with one change between two queries, and every choice of tables | 1 949 402 | `DescriptionsSurvive`, `OneRowPerColumn`, `PromptTellsSchema`, `SyncStoresFound`, `NeverClobber` |
| `chat` | 4 scenarios of 2 questions, 2 runs, an import and a rename, one after the other or overlapping, with or without edited SQL; `Take` = 3 | 1 078 749 | `GivenForOwnQuestion`, `HistoryAndMessageAgree`, `RepairsSettled` |
| `migrate` | 58 migrations: every engine and mode with and without a key, new tables, unselected parents, a diamond and a cycle of three tables; pages of 2, one change of the source | 219 672 | `ReportHolds`, `FailedCopyAtomic`, `ExistingRowsKept`, `TablesInOrder` |
| `session` | 2 accounts, one of them not registered yet, a query and the form in the browser, a registration elsewhere; fairness | 169 498 | `TokensOfShown`, `RegistrationComplete`, `OwnWorkspace`, `CallSettles` |
| `migration_check` | a column changing between any two types its engine is given (sizes, signs, precisions, capacities, words, charsets), with every value the first takes, names that differ in case, every set of references among three tables and between two mutual pairs, 25 troubles one at a time on four engines | 94 878 | `CleanReportCopies`, `OrderSound` |
| `migration_wizard` | 3 connections, 2 tables, 2 edits of the set-up after each report, 2 runs | 837 912 | `OutcomeOfLastRun`, `RunWasValidated` |
| `chat_screen` | 1 question answered in 8 ways, 7 queries, 2 runs, 2 visits, pages of 2 rows; fairness | 230 162 | `RanSqlIsGuarded`, `FooterCountsRows`, `SavedQuestionStaysShown` |
| `data_import` | every table of up to two rows of cells with separators, quotes and line ends in nine formats, every tiling of 3 x 2 cells by spans, and files, pasted text and sheets followed through 2 uploads, 2 edits and 2 imports | 161 047 | `WrittenIsShown`, `RecordedAsSent`, `SentFitsShown` |
| `connection_screens` | schemas of two tables audited on every engine with 1 or 2 fixes; six visits to the explorer of 2 or 3 requests each | 1 032 313 | `ScreenSettles`, `FixesHelp`, `SameFindings`, `SuggestKeepsGroups` |

**Why the bounds are enough.**

- *Pool cache*: two requests and one key give every race of a holder, a timer
  and a newcomer; the third request, the second key and the third entry give an
  entry that closes while its successor is created and shared, and cross-talk
  between keys. The theorems remove the bounds for all of the safety properties.
- *Import*: two imports are enough for each to be in any statement while the
  other fails; files of up to five rows with chunks of two have full, partial
  and several chunks; a column to add without a valid type comes after one with,
  which is where `prepareExistingTable` throws half-way.
- *Sync*: a column per role (kept, dropped, added) and one schema change between
  two syncs.
- *Reading*: four tables have a key and a reference of two columns, a table that
  relates two others and a chain of references; with at most two chosen tables and
  one more, both cuts of the choice take place. Two constraints of one name are
  among the readings, and so are an empty database and a schema that loses its keys,
  a table or a target while it is read.
- *Conversation*: two questions are needed to mistake one for the other, two runs
  to mix results; `Take` = 3 (6 in the code) makes two questions and their
  answers overflow the context window.
- *Migration*: pages of two over a table of three rows and tables of one row give
  full, short and empty pages; one change is enough for a row to move from an
  unread page to a read one or back. Two changes (`MaxWrites` = 2, 4 million
  states) find nothing more.
- *Validation*: the rules compare one column with its counterpart, so pairs of
  columns are enough; the types chosen have a neighbour on both sides of each
  comparison of bounds, with and without a length or precision, by both names where an
engine has two; three tables give every shape of a cycle, four give two
  cycles with or without a path between them. `MigrationProofs` removes the bounds on
  columns, types, rows, tables and references.
- *Session*: two users are needed for one's tokens to appear under the other;
  one query and the form give two calls that expire, refresh and are retried
  together. `AuthSessionProofs` removes the bound on calls and users.
- *Migration wizard*: two runs are needed to take one's outcome for the other's,
  three connections for a target that was changed to differ from the source.
  `MigrationProofs` removes the bounds.
- *Chat screen*: five rows on pages of two give a full and a last page, a limit
  of three ends inside a page; a second visit shows what the first left behind.
- *Data import*: each cell alphabet has the empty cell, a plain one and one with
  each character the format escapes; two rows and two columns give the first,
  last and inner cell of a line and of a file. Two uploads are needed for a late
  answer to concern an earlier file.
- *Connection screens*: findings are about one table and what it refers to, so
  two tables suffice, one of them without a key but with a unique index; three requests are needed for one to overlap another with
  a grouping between them.

**Deadlock checking** is on in `pool`, `import`, `sync`, `chat`, `migrate` and
`session`: `AllDone` (every request of the instance has ended) stutters, as
the service waits for the next request, and a pool cache always has a next
acquisition. The other runs end where a bound of the instance ends them, or when a
pure computation is over, and do not check it.

**Fairness.** `PoolCache!Fairness`: the event loop runs microtasks and due
timers; an SSH handshake settles within `readyTimeout`; `pool.end()` and
`server.close()` settle. Nothing is assumed of requests, which may hold a pool for
ever; that is why `PoolsWindDown` speaks of pools nobody counts.
`CsvImport!FairSpec`: a statement returns or fails once the database can
execute it; DDL that waits for another import's transaction may wait as long as
that transaction lasts (the code sets no lock timeout), so `ImportEnds` also says
that no import ends without releasing what others wait for. `AuthSession!Fairness`:
an HTTP call is answered or fails, a registration's next Prisma call returns or
fails, and the form goes on after an answer; nothing is assumed of people, of
tokens that expire or of the other browser. `ChatScreen`: the server saves and
answers a question or fails, the stream delivers or breaks off, and a query
that was invalidated is fetched; `LoseEvent` stays possible.

**What the violation shows.** Columns added before `prepareExistingTable` throws
stay in the table, since `columnsAdded` is assigned only from its return value
(`csv-import.service.ts:338`), whereas the comment at 382-384 wants the database
as it was.

**Claims that are not kept.** The following configurations check one statement
each that a comment or a label makes; TLC refutes it. The code accepts some of
them knowingly, so they are kept beside the runs and are no runs of their own.

| configuration | statement | counterexample |
|---|---|---|
| `MCMigrationGate.cfg` | `GateHolds`: "never start if a BLOCKER is present" (`data-migration.service.ts:167`) | the validation throws, the gate is skipped with a warning (line 184) |
| `MCMigrationWizardConfirm.cfg` | `ConfirmNamesTarget`: the dialog names the database that is overwritten | the target is changed while the preview is on its way: the plan names one database, what is sent names another, or none |
| `MCChatScreenCorrected.cfg` | `CorrectedSqlShown`: "refetch so the SQL block shows the corrected version" | an edited card keeps the text of its editor after the refetch |
| `MCDataImportXml.cfg` | `SingleRecordRead`: "the root's children are one row" (`data-import.ts:300`) | a root whose fields occur once each: the groups of one element already beat the empty list, so the first field alone becomes the table and the fallback is never reached |
| `MCSchemaSyncJoins.cfg` | `ChosenJoinable`: "so the chosen tables remain joinable" (`ai/prompts/schema-relevance.ts:7`) | only references of chosen tables are followed: two chosen tables go without the third that relates them, though there is room |
| `MCConnectionScreensGroups.cfg` | `ManualEditsPreserved`: "preserve manual edits" (`connections.service.ts:513`) | a table is grouped while the AI is thinking |

The same models reach other states a comment excludes; to see one, change what is
named.

- `ConnectionScreens`: `TypedForItsTable` in place of the invariants: text typed
  for one table is saved to the table selected after it.
- `SchemaSync`, the premises of its properties dropped: a description
  saved between a sync's read (`connections.service.ts:278`) and its delete
  (line 290) is lost, as are those of a table whose sync stopped before the
  insert (`DescriptionsSurvive`); two syncs that overlap both delete and both
  insert, as `ColumnMetadata` has no unique key on the name
  (`OneRowPerColumn`); a describe that overlaps an edit replaces what was
  typed (`NeverClobber`).
- `Conversation`, with two questions that overlap: insight and context of the
  wrong question, as messages are paired by time only. Two first runs of one
  message take the action `Collide`: one request ends with an error. Rows of
  edited SQL are shown to the model as those of the SQL in the message.
- `CsvImport`: `AllOrNothing` leaves out an import whose transaction was lost to
  a deadlock: its probe rows stay. `DedupedKeysUnique` holds for one import at a
  time and for keys written as the database returns them; it fails for two
  imports at a time or for a key such as "01".
- `MigrationValidation`, one of the disjuncts of `Unmeasured` dropped: a report without
  errors on a column whose values the target refuses (`CleanReportCopies`). With
  `CaseApart` dropped, two columns of Postgres that differ in case only are taken for one.
- `ConnectionScreens`, `KeyMoves` dropped: the penalty rises after a price of a MySQL
  table without a primary key was made exact (`FixesHelp`).
- `AuthSession`, `MigrationWizard`, `DataImport` without the histories `late`, `moved` and
  `asShown`: tokens of the one user stored after the other signed in, an old run's outcome
  under a new set-up, a mapping sent for a file it was not made for.
- `PoolCache`: `PoolsWindDown` is about pools nobody counts. A
  handler that throws before its `try` never releases; `inFlight` stays positive
  and the pool is never evicted.
- `DataMigration`: `ReportHolds` is about tables nobody wrote to while they were
  copied. With OFFSET paging, when a row of a page already copied is deleted from
  the source, every later row moves up and the first row of the next page is never
  read. Ordering by `ctid`, which the comment gives as the reason why this cannot
  happen (`postgres-migration.driver.ts:339`), does not prevent it.

## 4. Theorems

TLAPS proves the following for every value of the constants that the named
assumption of each module allows: finiteness of the set of requests for the pool
cache and conversations; absent values and the kinds of requests are none of the
others; what databases can declare; which migrations can be asked for (no table
twice, no row twice in a table); what the parsers find in a query and what is left
of a provider's reply once it is read; the text the database gives back for a key
is given back as it is; what a customer's schema consists of, and that no rule of the
audit is about the columns it offers to add; that the databases a validation
looks at hold lists of columns and rows, each value of the source one that its own column
takes, and that no table is asked for twice.

| module, theorem | says |
|---|---|
| `ConnectionProofs`: `TypeCorrect` | the cache is well typed |
| `PoolSafety` | no pool is closed and no tunnel torn down under a holder |
| `RefCountCorrect` | `inFlight` is the number of unreleased acquisitions |
| `SharingCorrect`, `CacheCorrect`, `EvictionScheduled` | one live pool per connection; the cache holds only pending or open entries for their key; an open pool without users has one idle timer, a used one none |
| `CacheIsSound` | the last four together, as the run checks them |
| `LeaseRefinement` | `Spec => Lease!Spec` |
| `ScreenShowsStored` | with nothing on its way and no suggestion, sync or last fetch failed, the screen shows what is stored, unless a description was on its way with another request |
| `SuggestionKeepsGroups` | a suggestion moves a table out of its module only if an assignment or another suggestion was on its way with it |
| `FindingsPortable` | the rules find the same in the same schema on four engines, for any schema, whatever offered statements were run before |
| `StatementsHelp` | an offered statement, accepted by the audited database, removes its finding, but for a foreign key on a MySQL table that is not InnoDB; and it lowers the penalty of what is found then, but for a change of type after which MySQL shows another key of the table |
| `CsvImportProofs`: `ImportsTyped` | the imports and their table are well typed |
| `Atomic` | all rows of an import are stored or none, but for one whose transaction a deadlock ended |
| `SchemaUndone` | an import that fails after it prepared the schema leaves no table or column, unless the database refuses its undo |
| `DuplicatesSkipped` | a row left out by an import alone has a key that is stored or stands earlier in the file |
| `KeysUnique` | a deduplicated import, alone and of canonical keys, adds no second row with a stored key |
| `SchemaProofs`: `MetadataTyped` | the metadata is well typed |
| `FoundStored` | a completed sync that met no other sync leaves rows for exactly the columns it found, by name |
| `OneRow` | as long as no two syncs have overlapped, a column has one stored row |
| `NothingClobbered` | a generated description replaces no stored one, if no edit and no other describe overlapped |
| `TextsSurvive` | the description last confirmed for a column is stored, as long as no sync has stopped half-way or overlapped any other request |
| `PromptTold` | the tables a question is answered with carry the keys the database declared while it was read, and come with the tables they refer to as far as the limit admits, but for keys that Postgres and Redshift mix up |
| `ConversationProofs`: `ConversationTyped` | the conversation is well typed |
| `HistoryMatchesMessages` | a message shows a result only after a run of it was recorded; if its runs did not overlap, the recorded one |
| `ContextBelongs` | without overlap, context, last result and insight are those of the question they are given for |
| `RepairsSettle` | however runs overlap, a repair is counted once and replaces the SQL of a message only after it ran |
| `MigrationProofs`: `CopiesHold` | a table reported as done, paged by its key or written to by the run alone, has every row the source had throughout, each once; in truncate mode the counts of its report are those of both sides |
| `FailuresAtomic` | where a table is copied in one transaction, a failed one has none of the copy, or every row if it was paged by its key or nobody changed it |
| `OrderHolds` | a table is copied after those it refers to, but for cycles, and no insert is refused for a parent that is still to come while the source is only read |
| `RowsKept` | but in truncate mode, no row the target had is ever missing, whatever fails or is rolled back |
| `OutcomeShown` | the outcome the wizard shows is the last run's, in a wizard that no late answer has led away from a run |
| `WhatRunsWasValidated` | a run starts only for what the last validation was asked for and found without blockers, provided preview and validation were answered before the pair was changed |
| `OrdersSound` | the order and the plan of a report have every table once and after those it refers to, but for those on a cycle or behind one; the groups it calls circular are exactly those of tables that refer to each other |
| `CleanReportsCopy` | after a report without errors every row of a selected table the target has fits it, on four engines, but for the values of changes that nothing measures (`Unmeasured`) and tables with names told apart by case; keys and generated columns aside |
| `MigrationRulesProofs`: `TopoOrderSound` | `topoOrder` has every table once, after those it refers to, but for those on a cycle or behind one |
| `FoundCycles` | `findCycles` finds exactly the strongly connected groups of several tables |
| `AuthSessionProofs`: `SessionTyped` | the session is well typed |
| `TokensCorrect` | what is sent belongs to who is shown, but for a refresh that crossed a sign-in or sign-out |
| `RegistrationCorrect` | two registrations for one address never both succeed; an account without a workspace has its registration at work or stopped half-way |
| `WorkspaceCorrect` | a sign-in that reaches the dashboard shows the user's own workspace, if the account has one and nobody signed in or out meanwhile |
| `ChatScreenProofs`: `ScreenTyped` | messages, runs and results are well typed, every query among them a known one |
| `SqlGuarded` | only a single read-only statement reaches the database, and no scan over the limit where the engine estimates it, whoever wrote it and however it was corrected |
| `FootersCount` | the footer of a result counts the rows it shows, on every page, for every engine, limit, page size and number of rows |
| `ImportsRecorded` | an import that succeeded is in the chat history once, with the file, sheet and filter whose rows it sent, whatever files of nine formats are opened, re-read and closed meanwhile |
| `SentFitsTable` | what is sent has columns of the table that was shown, each once, taken from columns the file has, with every required one and its keys among them, unless the wizard was kept for another table, file or connection |

**Pool cache.** None of the properties is inductive alone. The invariant `Inv` is
`TypeOK` with five conjuncts. `HeldPoolIsOpen` needs to know that the timer
callback sees every holder (`RefCountExact`) and that no callback runs between
the settling of a promise and the resumption of those who await it; that an
awaited entry is still cached while pending (`PendingInv`, `CacheInv`); and that a
name is not reused while somebody refers to it (`RefInv`). `TunnelInv` ties
the tunnel to the phase of its pool. One lemma per action shows that `Inv` is
preserved; the lemmas about the cardinality of the set of counted requests carry
the arithmetic. The refinement theorem uses `Inv` in both the current and the next
state and maps each step to a step of the lease or a stutter.

**Connection screens.** A list that is fetched while something else is written may
show either, so `Settling` says that while nothing has gone wrong the screen is
either right or about to be put right (`ShownOrComing`): a request that refetches
is still on its way, a fetch has yet to read or has read what is stored, or the
answer of a description is the only difference. The last holds only if that request met
no other: `Overlaps` says that requests on their way together have met, `RepliesFit` that
the answer of one that met none is the table as it is stored. `GroupsFit` follows a
suggestion from the tables it read without a module (`ToAssign`): as long as nothing
excuses it they have none, since the modules of a plan share no table
(`ModulesApart`) and a plan is worked off one module at a time (`Turn`).

**Audit.** The models of two engines' catalogs are not equal, as each names types in
its own way. `Alike` relates two models that no portable rule tells apart; every rule
finds the same in both (`FindingsAlike`), and `ModelsAlike` shows it of what is read from
two engines. `AuditInv` says that the statements run leave well-formed tables (`FixRun`),
that a report shown is what the rules find in the schema it was made of, and that its
statements still suit their tables.

That a statement helps is not obvious because it may make other rules speak up. `Better`
relates a table to one with more or better columns, keys, references and indexes, up to
columns X that have become references and Y that have become keys; `BetterFindings`
shows, rule by rule, that a schema improved in this way has no findings but the earlier
ones, a nullable reference for each of X and an INT key for each of Y. Read through
whichever catalog, each statement makes its table better (`AddedKeyBetter`,
`ForeignKeyBetter`, `IndexBetter`, ...) with at most one column in X or Y. One
is in X when a reference is added: the finding that goes costs 5 points, the one
that may come 2. One is in Y when MySQL takes the new unique index for the missing
primary key: then the finding about the missing key, of 12 points, goes with it. `PenaltyDrops` counts them; the
sum of points is written as three counts (`Penalty`), for which no induction over the set is
needed, and `FiniteFindings` makes them numbers. That a rule is silent at its own place
afterwards is shown for each of the ten rules that offer a statement (`NoPkHelped`, ...).
A change of type is the delicate case (`TypeBetter`): it states NOT NULL anew, which must
make no reference NULL that was not (`NoLooser`: a column of a foreign key is not altered),
and may end an auto-increment (`AutosLeft`, for which `OneAutoKept` follows that MySQL's
tables have one at most). As to the penalty the proof, and the theorem, need that MySQL
goes on showing the same key.

**Imports.** `ProgressInv` ties each step of an import to its transaction: what
has been inserted is in `tx` until the commit, `tx` is empty outside it, nothing is
dropped before the undo. `OwnerInv` adds that a table or column
of an import is one it still remembers to undo, which gives `SchemaUndone`;
`RowsInv` and `FilterInv` that stored rows are rows of a file, and that what the
filter kept is still what it would keep when the chunks are inserted: the last
needs that no other import takes place, as does the property.

**Schema metadata.** `Base` is `TypeOK` with what each step of a request has read
(`Current`), who holds a table (`Holding`), that overlaps are recorded for both
requests (`Together`) and that an id is inserted once (`Ids`, `AllFresh`): without
the last, a row created by a sync could be taken for one that another request
has read. `FoundInv` (a sync has emptied the table it creates rows for, and the
tables behind it have what it found) carries the first two theorems, `FilledInv`
the third, and `CarriedInv` with `SavedInSource` the last: what was confirmed
is in the store or in the map `preserved` of the sync that has deleted it.

**Reading.** `Inv` says which of the two databases has been met, that the rows of
keys are those of one of them, and keeps `KeysTold` from the last query on. What one
query tells is a lemma per way of joining (`PrimaryByName`, `PrimaryByColumnKey`,
`ReferenceRows`), each from what a database can declare (`DatabaseOK`): names that
are unique as far as each engine makes them so, one primary key per table. The cuts of
the choice are `MatchedStay` (a table chosen for its words is before every one that
is not) and `TopFills` (the ranks of finitely many tables are the numbers below
their count, so a cut that leaves one out is full).

**Conversations.** `IInv` has a part that holds whatever overlaps: a run that has
begun knows a message with SQL, and its row is of the SQL it ran (`RunsInv`); the
run whose result is shown has ended (`ShownInv`); the repairs are counted. The
part for requests that do not overlap starts from `SerialInv` (one request is
running). `AgreeInv` says that a row written and not yet shown is still the
message's row. `QuestionInv` that the question being answered is the newest message
and every answer stands behind its own question, from which the newest question
before a message is the right one (`QuestionForOwn`, with `MaxOf` for the maximum of
a bounded set). `LastInv` that kept rows are those of the SQL the message shows,
which needs in addition that no other SQL is run. `RunChange` and `MessageChange` list
what a step can do to a run and to a message; each invariant is preserved case by
case along them.

**Copying tables.** `CopyInv` is about each table on its own (`Settled`): one whose
turn has not come is as it was (`AsBefore`), and one that has been reported keeps what
its report promises (`Exact`, `Atomic`, `AddsUp`). For the table at hand,
`CopyingTable` says how far paging has got: of the rows it has gone past (`Passed`:
up to the last key, or the first `offset` rows) those that were in the source
throughout are on the target, and nothing else was copied (`Reached`). `PageFits` says
that the page just read holds exactly the rows between those and the ones after
it; this is where the two ways of paging differ (`KeysetFits`, `OffsetFits`), and why
the promise leaves out tables paged by OFFSET that others write to. `Saved`
says what a rollback goes back to. That reported tables stay as they are needs that the
table at hand is none of them, hence that the queue is the rest of an order without
repetitions (`Queued`). `TopoOrderSound` shows that of the order: the tables chosen, each once,
parents first unless a cycle forbids it. `TopoOrder` is a recursive function, whose
values `Iteration` constructs, and what holds after each round is shown with `Counting`,
induction over numbers as a lemma about sets, which the provers can use where an
induction rule over predicates is out of reach. `RowsKept` follows step by step:
what a rollback restores has the rows too, by `Saved`.

**Validation: the order.** A report is made of what two algorithms found, so `OrdersInv` says
little more than that; the work is in the algorithms, which run to their end within one step
of the service. For Kahn's loop, `RoundInv` says that after `n` passes what is ordered is in
order (`Closed`), and that either `n` tables are, or no table waits for ordered ones only; after
as many passes as there are tables nothing more can be ordered (`SortedInv`). For Tarjan's
search, `SearchInv` has four parts: the stack is in the order of the indices (`Numbered`); a
table that has been left refers only to tables that have been met, and one whose group has
been popped only to popped ones (`Explored`); every table on the stack reaches
one below it whose call has not returned, and those of the latter that are below it
reach it (`Connected`); and the cycles found are
the groups among the popped tables (`Components`). `Serves` is the contract of a call that may
nest `n` deep: from a search in which that many tables have not been met, it leaves
one in which its table has been met, with `low` a bound that is attained (`Bounded`). It is
shown for `n + 1` from `n`, the loop over the references by `Looping`. The search is given
only the tables that Kahn's loop has left, and `GroupsAreLeft` shows that no cycle
is among the others. The plan moves the tables that
refer to none first and then the others, in the order found (`PlanMoves`), which keeps parents before
children.

**Validation: a clean report.** `CleanInv` says that each phase that is over has either found
something grave (an ERROR or a BLOCKER, which no later phase removes) or settled its part
(`SettledBy`): the source has every selected table (`SourceOk`); columns, types and
what may be NULL compare without an error (`TableMatches`); lengths and numbers were
measured and fit (`ValuesFit`). `ReportedFacts` and `ChangeFacts` bring the four engines'
ways of reporting a column to one set of facts, `Promised`: a change of type that is
no error either loses nothing or is one whose values are measured. `MeasuredFacts` ties
the single value of a probe, a MAX or a count, to every row. What is not measured (a change within
the integers that is no narrowing, a text or blob into a larger one, a decimal that keeps
its digits on both sides of the point) is harmless by `WidthsGrow`, `IntMaxFacts`,
`SizesGrow` and `LikeTakes`, which also says where it is not: those changes are what
`Unmeasured` excepts. `SettledFits` puts them together: with all three parts settled the
target takes a value, be it NULL, an integer, a decimal, a text or a word.

**Chat screen.** `ScreenInv` is `Typed` with the two properties: `FootersRight`
extends the claim about footers from the result shown to every page and result
that may be shown later. `PageCounts` shows of `ExecutePaginated` that the count is the
number of rows: for the whole query (`WholeQueryCounts`) and for a page of it
(`CountedPageCounts`), with the arithmetic of limits, offsets and the one row read too many
in `Smaller`, `Larger` and `PageBounds`. `PageScanned` shows that an engine which estimates
has let the query through. `ReplyChosen`, `AnswersTyped` and `RepairsValid` follow a reply
through parsing, validation and fallback: whichever provider it is taken from, the SQL in it
has been accepted by the validator. One lemma per action carries these to the screen.

**Data import.** `ImportInv` follows a table from its file to the history. The sheets
shown are `Parsed(file)` of their file and stay so when the sheet is changed
(`UploadRead`), and `ParsedSheets` shows, parser by parser through `FileParsing`, that
each has a list of headers and rows with a value under every one of them: lines that
are too short or too long, spans that reach into later rows, objects with other
fields and statements that list their columns. The wizard fits that table
(`FitsTable`: one new column per header, only its headers mapped) unless it has moved,
and maps only columns of the table picked (`MappedInPicked`), which the tables shown now
need no longer contain: this is why `SentFitsShown` is about those kept in the import.
Tables have finitely many columns (`ServerInv`), which the counting in
`Cardinality(names) = Cardinality(columns)` needs. `IsImport` states what an import sends
when it starts, and no step changes more of it than its status; `RecordsInv` that
each import that is done has its record and no record is without one.
`ExistingFits` and `NewFits` are the two ways through the wizard to `RunImport`.

**Session.** `Inv` is `TypeOK` with `EmailInv` (a call that signs in, and a
registration at the server, name a user), `BearerInv` (a call under way that no
sign-in or sign-out has crossed carries the tokens of who is shown, so that
the tokens a refresh brings are theirs too) and `SignupInv` (what each step of a
registration has already made). `TokensOfShown` follows
from it only together with the history `late`: once a crossed refresh has
stored its tokens nothing more is claimed.

**Migration wizard.** Two invariants, one per theorem. `OutcomeInv` says which
streams are read on which step, `ValidatedInv` what each pending call and the
report shown were asked for (`ChosenInv`) and that the dialog asks about them
(`DialogHolds`).

Only model-checked: the liveness properties (TLAPS does not reason here about
`ENABLED`); and `WrittenIsShown`, that every parser gives back what
was written, which needs induction over the text that the parser and the writer walk
through. The modules without a type theorem have a
`TypeOK` that holds on the instances of their runs, without being one of the
properties listed there.

## 5. Not modelled

- *Migration*: `verify`, which compares counts and checksums after a run; the plan
  preview and the generated script, which change nothing; identity columns and
  sequences; whether the copy of a table that keeps growing ends.
- *Connections*: the form that adds or edits one; sample values; a tunnel that dies
  while its pool is cached; the session state of pooled connections
  (`MAX_EXECUTION_TIME`, `UNIQUE_CHECKS`), listed among the hazards.
- *Pools*: `closeAllPools`, which nothing calls; the dedicated pools of SQL
  Server, Oracle and Snowflake, which have no cache.
- *Conversations*: few-shot examples, listing and deleting conversations.
- *AI*: prompts; what a word scores for a table is any number.
- *Import*: the types of columns, which the wizard only passes on; the reading
  of a table's columns for the list of targets beyond what the wizard gets.
- *Screens*: charts, the result table, feedback, dashboards, history pages.
- *Workspaces*: renaming, deleting and listing them; the slug.
- *Dashboards and query history*: one Prisma call each on independent rows.
- The text of SQL; the parsers, drivers and file libraries, which are external.

## 6. What is left

The order in which the rest would pay: the generated script against the run it
stands for; `verify` against the rows it compares; the session state of pooled
connections, composed with `PoolCache`.
