---------------------------- MODULE MigrationProofs ----------------------------
(***************************************************************************)
(* The migrations.  The promises of a run over the rows of the target      *)
(* (what a table that is reported as done holds, what a failed one does,   *)
(* which parents come before it, and that the rows the target had stay),   *)
(* for any tables, rows, migrations, batch size and writes to the source;  *)
(* that the wizard runs what was validated and shows the outcome of its    *)
(* last run, for any connections, tables and bounds; and what a report of  *)
(* the validation says of the orders of the tables and of the rows, for    *)
(* any two databases.                                                      *)
(***************************************************************************)
EXTENDS DataMigration, MigrationWizard, MigrationValidation, MigrationRulesProofs

-----------------------------------------------------------------------------
(* The invariant                                                           *)

Busy == pc \in {"truncate", "read", "write", "count"}
Moving == pc \in {"read", "write", "count"}

Typed ==
    /\ job \in Jobs /\ pc \in PcValues
    /\ source \in [Tables -> Seq(Rows)] /\ \A t \in Tables : IsInjective(source[t])
    /\ writes \in Nat
    /\ old \in [Tables -> SUBSET Rows]
    /\ copies \in [Tables -> [Rows -> Nat]]
    /\ order \in Seq(Tables) /\ queue \in Seq(Tables)
    /\ Busy => cur \in Tables
    /\ last \in Nat /\ offset \in Nat /\ copied \in Nat
    /\ page \in Seq(Rows) /\ Len(page) <= Batch
    /\ DOMAIN report = Tables /\ \A t \in Tables : report[t].status \in {"none", "done", "error"}
    /\ stable \in [Tables -> SUBSET Rows]
    /\ touched \subseteq Tables /\ refused \subseteq Tables

\* Nothing is ordered yet, or the order is that of the foreign keys; what is
\* left of it is the queue, and what was taken from it has been reported.
Taken == Len(order) - Len(queue)
Queued ==
    /\ pc \in {"gate", "open"} => order = <<>> /\ queue = <<>>
    /\ order # <<>> => order = TopoOrder(job.selected, job.fks)
    /\ Len(queue) <= Len(order)
    /\ \A i \in 1..Len(queue) : queue[i] = order[Taken + i]
    /\ Busy => Taken > 0 /\ cur = order[Taken]
    /\ \A i \in 1..Taken : report[order[i]].status = "none" => Busy /\ i = Taken

\* A table whose turn has not come, or has just come, is as it was.
Waiting(t) == pc \in {"gate", "open"} \/ t \in Range(queue) \/ (pc = "truncate" /\ t = cur)
Zero == [r \in Rows |-> 0]
AsBefore(t) == copies[t] = Zero /\ old[t] = HadRows(t) /\ report[t].status = "none"
               /\ t \notin touched /\ t \notin refused

\* The promises, table by table.
Exact(t) ==
    Followed(t) =>
        /\ report[t].status = "done" => Complete(t)
        /\ \A r \in Rows : copies[t][r] <= 1
Atomic(t) ==
    OneTransaction /\ report[t].status = "error" =>
        \/ ~Started(t) /\ (job.conflict # "truncate" => old[t] = HadRows(t))
        \/ Followed(t) => Complete(t)
AddsUp(t) ==
    job.conflict = "truncate" /\ report[t].status = "done" /\ t \notin touched =>
        /\ report[t].copied = report[t].sourceRows
        /\ report[t].copied = report[t].targetRows

Settled(t) ==
    /\ Waiting(t) => AsBefore(t)
    /\ report[t].status = "done" /\ writes = 0 => stable[t] = Range(SourceRows[t])
    /\ Exact(t) /\ Atomic(t) /\ AddsUp(t)

\* A rollback goes back to where nothing was copied.
Saved ==
    pc \in {"read", "write"} =>
        /\ before.copies = Zero /\ before.old \subseteq Rows
        /\ job.conflict # "truncate" => before.old = HadRows(cur)

Unwritten == writes = 0 => source = SourceRows /\ touched = {}

\* The rows paging has gone past, and will have with the page just read.
Upto(n) == {r \in Rows : r <= n}
FirstRows(t, n) == {source[t][i] : i \in 1..n}
Passed(t) == IF Keyset(t) THEN Upto(last) ELSE FirstRows(t, offset)
PassedNext(t) == IF Keyset(t) THEN Upto(page[Len(page)]) ELSE FirstRows(t, offset + Len(page))

Copied(t) == {r \in Rows : copies[t][r] > 0}

\* Of the rows paging has gone past, those there throughout are on the target,
\* and nothing else was copied.
Reached(t) ==
    Followed(t) =>
        /\ Copied(t) \subseteq Passed(t)
        /\ \A r \in stable[t] \cap Passed(t) : OnTarget(t, r)
        /\ pc = "count" => stable[t] \subseteq Passed(t)
        /\ ~Keyset(t) => offset <= Len(source[t])
        /\ t \notin touched => Copied(t) \subseteq Range(source[t])
CopyingTable(t) ==
    /\ report[t].status = "none" /\ t \notin refused
    /\ stable[t] \subseteq Range(source[t])
    /\ t \notin touched => stable[t] = Range(source[t])
    /\ job.conflict = "truncate" =>
            old[t] = {} /\ (t \notin touched => copied = Cardinality(Copied(t)))
    /\ Reached(t)

\* The page read lies between the rows passed and the rows after it.
PageFits(t) ==
    /\ page # <<>> /\ IsInjective(page)
    /\ Followed(t) =>
        /\ Range(page) \cap Passed(t) = {}
        /\ Range(page) \subseteq PassedNext(t) /\ Passed(t) \subseteq PassedNext(t)
        /\ \A r \in stable[t] \cap PassedNext(t) : r \in Passed(t) \/ r \in Range(page)
        /\ Len(page) < Batch => stable[t] \subseteq PassedNext(t)
        /\ ~Keyset(t) => offset + Len(page) <= Len(source[t])
        /\ t \notin touched => Range(page) \subseteq Range(source[t])

CopyInv ==
    /\ Typed /\ Queued /\ Saved /\ Unwritten
    /\ \A t \in Tables : Settled(t)
    /\ Moving => CopyingTable(cur)
    /\ pc = "write" => PageFits(cur)
    /\ OrderKeepsInsertsValid

-----------------------------------------------------------------------------
(* What a page holds                                                       *)

LEMMA Bounds ==
    Rows \subseteq Nat /\ 0 \notin Rows /\ IsFiniteSet(Rows) /\ Batch \in Nat /\ Batch # 0
BY DataMigrationAssumption

\* The first n elements of a set of numbers, in order.
FirstOrdered(rows, later, n) ==
    /\ rows \in Seq(later) /\ Len(rows) <= n
    /\ \A i, j \in DOMAIN rows : i < j => rows[i] < rows[j]
    /\ \A r \in later \ Range(rows) : Len(rows) = n /\ \A q \in Range(rows) : q < r

LEMMA FirstOrderedExists ==
    ASSUME NEW later, later \subseteq Nat, NEW n \in Nat
    PROVE  \E rows : FirstOrdered(rows, later, n)
<1> DEFINE S == {m \in Nat : \E rows : FirstOrdered(rows, later, m)}
<1>1. 0 \in S
    <2>1. FirstOrdered(<<>>, later, 0)
        BY DEF FirstOrdered, Range
    <2> QED
        BY <2>1
<1>2. ASSUME NEW m \in 0..n, m \in S /\ m < n PROVE m + 1 \in S
    <2>1. PICK rows : FirstOrdered(rows, later, m)
        BY <1>2
    <2>2. m \in Nat /\ m + 1 \in Nat
        OBVIOUS
    <2> DEFINE more == later \ Range(rows)
    <2>3. CASE more = {}
        <3>1. FirstOrdered(rows, later, m + 1)
            BY <2>1, <2>2, <2>3 DEF FirstOrdered
        <3> QED
            BY <2>2, <3>1
    <2>4. CASE more # {}
        <3>1. more \subseteq Nat
            OBVIOUS
        <3>2. PICK e \in more : \A r \in more : e <= r
            <4> HIDE DEF more
            <4> QED
                BY <2>4, <3>1, LeastOf
        <3> DEFINE next == Append(rows, e)
        <3>3. /\ rows \in Seq(later) /\ Len(rows) = m /\ DOMAIN rows = 1..m
              /\ e \in later /\ e \in Nat
            BY <2>1, <3>1 DEF FirstOrdered
        <3>4. /\ next \in Seq(later) /\ Len(next) = m + 1 /\ DOMAIN next = 1..(m + 1)
              /\ next[m + 1] = e /\ \A i \in 1..m : next[i] = rows[i]
            BY <3>3
        <3>5. DOMAIN next = DOMAIN rows \cup {m + 1}
            BY <2>2, <3>3, <3>4
        <3> HIDE DEF next
        <3>6. Range(next) = Range(rows) \cup {e}
            BY <3>3, <3>4, <3>5 DEF Range
        <3>7. \A q \in Range(rows) : q < e /\ q \in Nat
            <4>1. Range(rows) \subseteq later
                BY <3>3 DEF Range
            <4>2. e \in later \ Range(rows)
                OBVIOUS
            <4> QED
                BY <2>1, <4>1, <4>2 DEF FirstOrdered
        <3>8. ASSUME NEW i \in DOMAIN next, NEW j \in DOMAIN next, i < j PROVE next[i] < next[j]
            <4>1. i \in DOMAIN rows /\ next[i] = rows[i]
                BY <2>2, <3>3, <3>4, <3>8
            <4>2. CASE j = m + 1
                BY <3>4, <3>7, <4>1, <4>2 DEF Range
            <4>3. CASE j \in DOMAIN rows
                BY <2>1, <3>3, <3>4, <3>8, <4>1, <4>3 DEF FirstOrdered
            <4> QED
                BY <3>5, <4>2, <4>3
        <3>9. ASSUME NEW r \in later \ Range(next) PROVE \A q \in Range(next) : q < r
            <4>1. r \in more /\ r # e /\ r \in Nat
                BY <3>6, <3>9
            <4>2. e < r
                BY <3>2, <3>3, <4>1
            <4> QED
                BY <3>3, <3>6, <3>7, <4>1, <4>2
        <3>10. FirstOrdered(next, later, m + 1)
            BY <2>2, <3>4, <3>8, <3>9 DEF FirstOrdered
        <3> QED
            BY <2>2, <3>10
    <2> QED
        BY <2>3, <2>4
<1>3. 0..n \subseteq S
    <2> HIDE DEF S
    <2> QED
        BY <1>1, <1>2, Counting
<1> QED
    BY <1>3

LEMMA KeysetPageFacts ==
    ASSUME NEW t \in Tables, source[t] \in Seq(Rows), last \in Nat
    PROVE  /\ KeysetPage(t) \in Seq(Rows)
           /\ FirstOrdered(KeysetPage(t), {r \in Range(source[t]) : r > last}, Batch)
<1> DEFINE later == {r \in Range(source[t]) : r > last}
           IsPage(rows) == /\ \A i, j \in DOMAIN rows : i < j => rows[i] < rows[j]
                           /\ \A r \in later \ Range(rows) : Len(rows) = Batch /\ \A q \in Range(rows) : q < r
           p == CHOOSE rows \in BoundedSeq(later, Batch) : IsPage(rows)
<1>1. later \subseteq Rows /\ later \subseteq Nat /\ Batch \in Nat
    <2>1. \A i \in DOMAIN source[t] : source[t][i] \in Rows
        OBVIOUS
    <2>2. later \subseteq Rows
        BY <2>1 DEF Range
    <2> QED
        BY <2>2, Bounds
<1>2. KeysetPage(t) = p
    BY DEF KeysetPage
<1> HIDE DEF later
<1>3. PICK rows : FirstOrdered(rows, later, Batch)
    BY <1>1, FirstOrderedExists
<1>4. rows \in BoundedSeq(later, Batch)
    <2>1. rows \in [1..Len(rows) -> later] /\ Len(rows) \in 0..Batch
        BY <1>1, <1>3 DEF FirstOrdered
    <2> QED
        BY <2>1 DEF BoundedSeq, SeqOf
<1>5. IsPage(rows)
    BY <1>3 DEF FirstOrdered
<1>6. p \in BoundedSeq(later, Batch) /\ IsPage(p)
    <2> HIDE DEF IsPage
    <2> QED
        BY <1>4, <1>5
<1> HIDE DEF p
<1>7. PICK m \in 0..Batch : p \in [1..m -> later]
    BY <1>6 DEF BoundedSeq, SeqOf
<1>8. p \in Seq(later) /\ Len(p) <= Batch
    BY <1>1, <1>7
<1>9. FirstOrdered(p, later, Batch)
    BY <1>6, <1>8 DEF FirstOrdered
<1> QED
    BY <1>1, <1>2, <1>8, <1>9 DEF later

LEMMA OffsetPageFacts ==
    ASSUME NEW t \in Tables, source[t] \in Seq(Rows), offset \in Nat
    PROVE  /\ OffsetPage(t) \in Seq(Rows) /\ Len(OffsetPage(t)) <= Batch
           /\ \A i \in DOMAIN OffsetPage(t) :
                offset + i \in DOMAIN source[t] /\ OffsetPage(t)[i] = source[t][offset + i]
           /\ offset <= Len(source[t]) /\ Len(OffsetPage(t)) < Batch =>
                offset + Len(OffsetPage(t)) = Len(source[t])
<1> DEFINE s == source[t]
           rest == SubSeq(s, offset + 1, Len(s))
           p == FirstOf(Batch, rest)
<1>1. s \in Seq(Rows) /\ Len(s) \in Nat /\ Batch \in Nat /\ offset \in Nat /\ DOMAIN s = 1..Len(s)
    BY Bounds
<1>2. OffsetPage(t) = p
    BY DEF OffsetPage
<1> HIDE DEF s
<1>3. /\ rest \in Seq(Rows)
      /\ Len(rest) = IF offset <= Len(s) THEN Len(s) - offset ELSE 0
      /\ \A i \in 1..Len(rest) : rest[i] = s[offset + i]
    BY <1>1
<1> HIDE DEF rest
<1>4. Len(rest) \in Nat
    BY <1>3
<1> DEFINE m == IF Batch < Len(rest) THEN Batch ELSE Len(rest)
<1>5. m \in 0..Len(rest) /\ m <= Batch /\ (m < Batch => m = Len(rest))
    <2>1. CASE Batch < Len(rest)
        BY <1>1, <1>4, <2>1
    <2>2. CASE ~(Batch < Len(rest))
        BY <1>1, <1>4, <2>2
    <2> QED
        BY <2>1, <2>2
<1>6. p = SubSeq(rest, 1, m)
    BY DEF FirstOf
<1> HIDE DEF m, p
<1>7. p \in Seq(Rows) /\ Len(p) = m /\ DOMAIN p = 1..m /\ \A i \in 1..m : p[i] = rest[i]
    BY <1>3, <1>4, <1>5, <1>6
<1>8. ASSUME NEW i \in 1..m PROVE i \in 1..Len(rest) /\ offset + i \in 1..Len(s)
    <2>1. m \in Nat /\ i \in Nat /\ 1 <= i /\ i <= m /\ m <= Len(rest)
        BY <1>4, <1>5
    <2>2. offset <= Len(s) /\ Len(rest) = Len(s) - offset
        BY <1>3, <2>1
    <2> QED
        BY <1>1, <1>4, <2>1, <2>2
<1>9. \A i \in DOMAIN p : offset + i \in DOMAIN s /\ p[i] = s[offset + i]
    BY <1>1, <1>3, <1>7, <1>8
<1>10. offset <= Len(s) /\ Len(p) < Batch => offset + Len(p) = Len(s)
    BY <1>1, <1>3, <1>5, <1>7
<1>11. Len(p) <= Batch
    BY <1>5, <1>7
<1> QED
    BY <1>2, <1>7, <1>9, <1>10, <1>11 DEF s

-----------------------------------------------------------------------------
(* Facts the steps share                                                   *)

LEMMA JobFacts ==
    ASSUME NEW j \in Jobs
    PROVE  /\ j.selected \in Seq(Tables) /\ IsInjective(j.selected)
           /\ j.fks \subseteq Tables \X Tables
           /\ j.conflict \in {"skip", "upsert", "truncate"}
           /\ \A f \in j.fks : Range(SourceRows[f[1]]) \subseteq Range(SourceRows[f[2]])
BY DataMigrationAssumption DEF JobOK

LEMMA SourceFacts ==
    /\ SourceRows \in [Tables -> Seq(Rows)]
    /\ \A t \in Tables : IsInjective(SourceRows[t])
    /\ \A t \in Tables : HadRows(t) \in SUBSET Rows
BY DataMigrationAssumption DEF HadRows

LEMMA OrderFacts ==
    ASSUME Typed, Queued, order # <<>>
    PROVE  IsInjective(order) /\ ParentsFirstIn(order, job.selected, job.fks)
BY JobFacts, TopoOrderSound DEF Typed, Queued

\* The table being copied has its place in the order and is not queued.
LEMMA CurrentFacts ==
    ASSUME Typed, Queued, Busy
    PROVE  /\ cur \in Tables /\ cur \notin Range(queue)
           /\ Taken \in 1..Len(order) /\ order[Taken] = cur /\ order # <<>> /\ IsInjective(order)
<1>1. /\ order \in Seq(Tables) /\ queue \in Seq(Tables)
      /\ Len(order) \in Nat /\ Len(queue) \in Nat /\ Len(queue) <= Len(order)
    BY DEF Typed, Queued
<1>2. cur \in Tables /\ Taken > 0 /\ cur = order[Taken]
    BY DEF Typed, Queued
<1>3. Taken \in 1..Len(order) /\ DOMAIN order = 1..Len(order) /\ DOMAIN queue = 1..Len(queue)
    BY <1>1, <1>2 DEF Taken
<1>4. order # <<>>
    BY <1>1, <1>3
<1>5. IsInjective(order)
    BY <1>4, OrderFacts
<1>6. ASSUME NEW i \in 1..Len(queue) PROVE queue[i] # cur
    <2>1. queue[i] = order[Taken + i]
        BY DEF Queued
    <2>2. Taken + i \in 1..Len(order) /\ Taken + i # Taken
        <3>1. i \in Nat /\ 1 <= i /\ i <= Len(queue) /\ Taken \in Nat
            BY <1>1, <1>3
        <3>2. Taken + Len(queue) = Len(order)
            BY <1>1 DEF Taken
        <3> QED
            BY <1>1, <3>1, <3>2
    <2> QED
        BY <1>2, <1>3, <1>5, <2>1, <2>2 DEF IsInjective
<1> QED
    BY <1>2, <1>3, <1>4, <1>5, <1>6 DEF Range

\* A step that leaves a table alone, and does not send it back to wait.
SameTable(t) ==
    /\ old'[t] = old[t] /\ copies'[t] = copies[t] /\ report'[t] = report[t] /\ stable'[t] = stable[t]
    /\ (t \in touched') <=> (t \in touched)
    /\ (t \in refused') <=> (t \in refused)
    /\ Waiting(t)' => Waiting(t)

LEMMA Undisturbed ==
    ASSUME NEW t \in Tables, Settled(t), SameTable(t), job' = job, writes' = 0 => writes = 0
    PROVE  Settled(t)'
<1>2. Waiting(t)' => AsBefore(t)'
    BY DEF Settled, SameTable, AsBefore, HadRows, Zero
<1>3. report'[t].status = "done" /\ writes' = 0 => stable'[t] = Range(SourceRows[t])
    BY DEF Settled, SameTable
<1>4. Exact(t)'
    BY DEF Settled, SameTable, Exact, Followed, Keyset, Complete, OnTarget
<1>5. Atomic(t)'
    BY DEF Settled, SameTable, Atomic, OneTransaction, Started, HadRows, Followed, Keyset, Complete, OnTarget
<1>6. AddsUp(t)'
    BY DEF Settled, SameTable, AddsUp
<1> QED
    BY <1>2, <1>3, <1>4, <1>5, <1>6 DEF Settled

\* No new insert is refused, and what a table was reported as stays.
LEMMA InsertsStayValid ==
    ASSUME OrderKeepsInsertsValid, job' = job, refused' \subseteq refused, refused \subseteq Tables,
           writes \in Nat, writes' \in Nat, writes > 0 => writes' > 0, job \in Jobs,
           \A t \in Tables : report[t].status = "error" => report'[t].status = "error"
    PROVE  OrderKeepsInsertsValid'
<1> SUFFICES ASSUME NEW t \in refused'
             PROVE  \/ writes' > 0
                    \/ Stuck(t, job.selected, job.fks)
                    \/ \E f \in TargetFks :
                          f[1] = t /\ (f[2] \notin Range(job.selected) \/ report'[f[2]].status = "error")
    BY DEF OrderKeepsInsertsValid, TargetFks
<1>1. \A f \in TargetFks : f[2] \in Tables
    BY JobFacts DEF TargetFks
<1> QED
    BY <1>1 DEF OrderKeepsInsertsValid

\* What a table is reported as leaves the queue as it was.
LEMMA ReportedQueued ==
    ASSUME Typed, Queued, Busy, UNCHANGED <<job, order, queue>>, pc' = "table",
           report'[cur].status # "none", \A t \in Tables \ {cur} : report'[t] = report[t]
    PROVE  Queued'
<1>1. /\ cur \in Tables /\ Taken \in 1..Len(order) /\ order[Taken] = cur
      /\ order \in Seq(Tables)
    BY CurrentFacts DEF Typed
<1>2. Taken' = Taken
    BY DEF Taken
<1>3. ASSUME NEW i \in 1..Taken PROVE report'[order[i]].status # "none"
    <2>1. order[i] \in Tables
        BY <1>1
    <2> QED
        BY <1>1, <2>1 DEF Queued
<1> QED
    BY <1>2, <1>3 DEF Queued, Busy

\* Steps that only move the run on: what a table is reported as, its rows and
\* its history stay.
LEMMA OthersSettled ==
    ASSUME Typed, Queued, Busy, \A t \in Tables : Settled(t), UNCHANGED <<job, queue, cur, writes>>,
           pc' \in {"table", "read", "write", "count"}, \A t \in Tables \ {cur} :
                /\ old'[t] = old[t] /\ copies'[t] = copies[t]
                /\ report'[t] = report[t] /\ stable'[t] = stable[t]
                /\ (t \in touched') <=> (t \in touched)
                /\ (t \in refused') <=> (t \in refused)
    PROVE  /\ \A t \in Tables \ {cur} : Settled(t)'
           /\ ~Waiting(cur)'
<1>1. cur \in Tables /\ cur \notin Range(queue) /\ pc \notin {"gate", "open"}
    BY CurrentFacts DEF Busy
<1>2. \A t \in Tables : Waiting(t)' <=> t \in Range(queue)
    BY DEF Waiting
<1>3. ASSUME NEW t \in Tables \ {cur} PROVE Settled(t)'
    <2>1. Waiting(t)' => Waiting(t)
        BY <1>2 DEF Waiting
    <2>2. SameTable(t)
        BY <2>1 DEF SameTable
    <2> QED
        BY <2>2, Undisturbed
<1>4. ~Waiting(cur)'
    BY <1>1 DEF Waiting
<1> QED
    BY <1>3, <1>4

-----------------------------------------------------------------------------
(* The first state, and the steps that copy nothing                        *)

LEMMA InitCopy == Init => CopyInv
<1> SUFFICES ASSUME Init PROVE CopyInv
    OBVIOUS
<1>1. job \in Jobs /\ pc = "gate" /\ order = <<>> /\ queue = <<>> /\ page = <<>> /\ writes = 0
    BY DEF Init
<1>2. Typed
    <2>1. source \in [Tables -> Seq(Rows)] /\ \A t \in Tables : IsInjective(source[t])
        BY SourceFacts DEF Init
    <2>2. \A t \in Tables : old[t] = HadRows(t) /\ copies[t] = Zero /\ report[t] = NotYet /\ stable[t] = {}
        BY DEF Init, HadRows, Zero
    <2>3. old \in [Tables -> SUBSET Rows] /\ copies \in [Tables -> [Rows -> Nat]]
        BY SourceFacts, <2>2 DEF Init, Zero
    <2>4. DOMAIN report = Tables /\ \A t \in Tables : report[t].status \in {"none", "done", "error"}
        BY <2>2 DEF Init, NotYet
    <2>5. stable \in [Tables -> SUBSET Rows] /\ touched = {} /\ refused = {}
        BY DEF Init
    <2>6. order \in Seq(Tables) /\ queue \in Seq(Tables) /\ page \in Seq(Rows) /\ Len(page) <= Batch
        BY <1>1, Bounds
    <2>7. last = 0 /\ offset = 0 /\ copied = 0
        BY DEF Init
    <2> QED
        BY <1>1, <2>1, <2>3, <2>4, <2>5, <2>6, <2>7 DEF Typed, Busy, PcValues
<1>3. Queued
    BY <1>1 DEF Queued, Taken, Busy
<1>4. ASSUME NEW t \in Tables PROVE Settled(t)
    <2>1. /\ old[t] = HadRows(t) /\ copies[t] = Zero /\ report[t].status = "none" /\ touched = {} /\ refused = {}
        BY DEF Init, HadRows, Zero, NotYet
    <2>2. \A r \in Rows : copies[t][r] <= 1
        BY <2>1 DEF Zero
    <2> QED
        BY <2>1, <2>2 DEF Settled, AsBefore, Exact, Atomic, AddsUp
<1>5. Saved /\ Unwritten /\ ~Moving /\ pc # "write"
    BY <1>1 DEF Init, Saved, Unwritten, Moving
<1>6. OrderKeepsInsertsValid
    BY DEF Init, OrderKeepsInsertsValid
<1> QED
    BY <1>2, <1>3, <1>4, <1>5, <1>6 DEF CopyInv

\* Only the program counter moves, to where nothing is copied.
Marches ==
    /\ pc' \in {"open", "done", "error"} /\ pc \in {"gate", "open", "table"}
    /\ pc' = "open" => pc = "gate"
    /\ UNCHANGED <<job, blocked, source, writes, target, before, order, queue, cur, paging,
                   report, stable, touched, refused>>

LEMMA MarchKeeps ==
    ASSUME CopyInv, Marches
    PROVE  CopyInv'
<1> USE DEF CopyInv
<1>1. /\ UNCHANGED <<job, source, writes, old, copies, before, order, queue, cur, last, offset, page, copied,
                     report, stable, touched, refused>>
      /\ pc' \in {"open", "done", "error"} /\ pc \in {"gate", "open", "table"}
      /\ pc' = "open" => pc = "gate"
    BY DEF Marches, target, paging
<1>2. Typed'
    BY <1>1 DEF Typed, Busy, PcValues
<1>3. Queued'
    BY <1>1 DEF Queued, Taken, Busy
<1>4. ASSUME NEW t \in Tables PROVE Settled(t)'
    <2>1. Waiting(t)' => Waiting(t)
        BY <1>1 DEF Waiting
    <2> QED
        BY <1>1, <2>1, Undisturbed DEF SameTable
<1>5. Saved' /\ Unwritten' /\ ~Moving' /\ pc' # "write"
    BY <1>1 DEF Saved, Unwritten, Moving
<1>6. OrderKeepsInsertsValid'
    BY <1>1, InsertsStayValid DEF Typed
<1> QED
    BY <1>2, <1>3, <1>4, <1>5, <1>6

LEMMA StutterKeeps ==
    ASSUME CopyInv, UNCHANGED vars
    PROVE  CopyInv'
<1> USE DEF CopyInv
<1>1. UNCHANGED <<job, source, writes, old, copies, before, pc, order, queue, cur, last, offset, page, copied,
                  report, stable, touched, refused>>
    BY DEF vars, target, paging
<1>2. Typed'
    BY <1>1 DEF Typed, Busy
<1>3. Queued'
    BY <1>1 DEF Queued, Taken, Busy
<1>4. ASSUME NEW t \in Tables PROVE Settled(t)'
    <2>1. Waiting(t)' => Waiting(t)
        BY <1>1 DEF Waiting
    <2> QED
        BY <1>1, <2>1, Undisturbed DEF SameTable
<1>5. Saved' /\ Unwritten'
    BY <1>1 DEF Saved, Unwritten, HadRows, Zero
<1>6. Moving' => CopyingTable(cur)'
    BY <1>1 DEF Moving, CopyingTable, Reached, Followed, Keyset, Passed, Upto, FirstRows, Copied, OnTarget
<1>7. pc' = "write" => PageFits(cur)'
    <2>1. Passed(cur)' = Passed(cur) /\ PassedNext(cur)' = PassedNext(cur)
        BY <1>1 DEF Keyset, Passed, PassedNext, Upto, FirstRows
    <2>2. Keyset(cur)' <=> Keyset(cur)
        BY <1>1 DEF Keyset
    <2> QED
        BY <1>1, <2>1, <2>2 DEF PageFits, Followed
<1>8. OrderKeepsInsertsValid'
    BY <1>1, InsertsStayValid DEF Typed
<1> QED
    BY <1>2, <1>3, <1>4, <1>5, <1>6, <1>7, <1>8

LEMMA StartKeeps ==
    ASSUME CopyInv, Start
    PROVE  CopyInv'
<1> USE DEF CopyInv
<1>1. /\ UNCHANGED <<job, source, writes, old, copies, before, cur, last, offset, page, copied,
                     report, stable, touched, refused>>
      /\ pc = "open" /\ pc' = "table" /\ queue' = order' /\ order' = TopoOrder(job.selected, job.fks)
    BY DEF Start, target, paging
<1>2. order' \in Seq(Tables)
    BY <1>1, JobFacts, TopoOrderSound DEF Typed
<1>3. Typed'
    BY <1>1, <1>2 DEF Typed, Busy, PcValues
<1>4. Queued'
    <2>1. Taken' = 0 /\ Len(order') \in Nat
        BY <1>1, <1>2 DEF Taken
    <2>2. \A i \in 1..Len(queue') : queue'[i] = order'[Taken' + i]
        BY <1>1, <2>1
    <2> QED
        BY <1>1, <2>1, <2>2 DEF Queued, Busy
<1>5. ASSUME NEW t \in Tables PROVE Settled(t)'
    BY <1>1, Undisturbed DEF SameTable, Waiting
<1>6. Saved' /\ Unwritten' /\ ~Moving' /\ pc' # "write"
    BY <1>1 DEF Saved, Unwritten, Moving
<1>7. OrderKeepsInsertsValid'
    BY <1>1, InsertsStayValid DEF Typed
<1> QED
    BY <1>3, <1>4, <1>5, <1>6, <1>7

\* What is taken from the queue is the next table of the order.
LEMMA TakenFromQueue ==
    ASSUME Typed, Queued, queue # <<>>
    PROVE  /\ Head(queue) \in Tables /\ Tail(queue) \in Seq(Tables)
           /\ Len(Tail(queue)) = Len(queue) - 1 /\ Len(queue) \in Nat /\ Len(queue) # 0
           /\ Taken \in Nat /\ Taken + 1 \in 1..Len(order) /\ order[Taken + 1] = Head(queue)
           /\ \A i \in 1..Len(Tail(queue)) : Tail(queue)[i] = order[Taken + 1 + i]
           /\ Head(queue) \in Range(queue) /\ Head(queue) \notin Range(Tail(queue))
           /\ Range(Tail(queue)) \subseteq Range(queue)
           /\ order # <<>> /\ IsInjective(order)
<1>1. /\ order \in Seq(Tables) /\ queue \in Seq(Tables)
      /\ Len(order) \in Nat /\ Len(queue) \in Nat /\ Len(queue) <= Len(order) /\ Len(queue) # 0
    BY DEF Typed, Queued
<1>2. Taken + Len(queue) = Len(order) /\ Taken \in Nat
    BY <1>1 DEF Taken
<1>3. Taken + 1 \in 1..Len(order)
    BY <1>1, <1>2
<1>4. /\ Head(queue) = queue[1] /\ Head(queue) \in Tables /\ Tail(queue) \in Seq(Tables)
      /\ Len(Tail(queue)) = Len(queue) - 1
    BY <1>1
<1>5. ASSUME NEW i \in 1..Len(Tail(queue))
      PROVE  i + 1 \in 1..Len(queue) /\ Tail(queue)[i] = queue[i + 1]
             /\ Tail(queue)[i] = order[Taken + 1 + i] /\ Taken + 1 + i \in 1..Len(order)
    <2>1. i \in Nat /\ 1 <= i /\ i + 1 <= Len(queue) /\ Tail(queue)[i] = queue[i + 1]
        BY <1>1, <1>4
    <2>2. i + 1 \in 1..Len(queue) /\ Taken + (i + 1) = Taken + 1 + i
        BY <1>1, <1>2, <2>1
    <2>3. queue[i + 1] = order[Taken + (i + 1)]
        BY <2>2 DEF Queued
    <2>4. Taken + 1 + i \in 1..Len(order)
        BY <1>1, <1>2, <2>1
    <2> QED
        BY <2>1, <2>2, <2>3, <2>4
<1>6. order[Taken + 1] = Head(queue)
    BY <1>1, <1>4 DEF Queued
<1>7. order # <<>> /\ IsInjective(order)
    BY <1>1, <1>3, OrderFacts
<1>8. DOMAIN queue = 1..Len(queue) /\ DOMAIN Tail(queue) = 1..Len(Tail(queue)) /\ DOMAIN order = 1..Len(order)
    BY <1>1, <1>4
<1>9. Head(queue) \in Range(queue) /\ Range(Tail(queue)) \subseteq Range(queue)
    BY <1>1, <1>4, <1>5, <1>8 DEF Range
<1>10. ASSUME NEW i \in 1..Len(Tail(queue)) PROVE Tail(queue)[i] # Head(queue)
    <2>1. Taken + 1 + i # Taken + 1 /\ Taken + 1 + i \in DOMAIN order /\ Taken + 1 \in DOMAIN order
        BY <1>2, <1>3, <1>4, <1>5, <1>8
    <2> QED
        BY <1>5, <1>6, <1>7, <2>1 DEF IsInjective
<1>11. Head(queue) \notin Range(Tail(queue))
    BY <1>8, <1>10 DEF Range
<1> QED
    BY <1>1, <1>2, <1>3, <1>4, <1>5, <1>6, <1>7, <1>9, <1>11

LEMMA NextTableKeeps ==
    ASSUME CopyInv, NextTable
    PROVE  CopyInv'
<1> USE DEF CopyInv
<1>1. /\ UNCHANGED <<job, source, writes, old, copies, before, order, last, offset, page, copied,
                     report, stable, touched, refused>>
      /\ pc = "table" /\ pc' = "truncate" /\ queue # <<>> /\ cur' = Head(queue) /\ queue' = Tail(queue)
    BY DEF NextTable, paging
<1>2. Typed'
    BY <1>1, TakenFromQueue DEF Typed, Busy, PcValues
<1>3. Taken' = Taken + 1 /\ Taken \in Nat /\ Taken + 1 \in 1..Len(order)
    <2>1. Len(order) \in Nat /\ Len(queue) \in Nat /\ Len(queue') = Len(queue) - 1
        BY <1>1, TakenFromQueue DEF Typed
    <2> QED
        BY <1>1, <2>1, TakenFromQueue DEF Taken
<1>4. Queued'
    <2>1. \A i \in 1..Len(queue') : queue'[i] = order'[Taken' + i]
        BY <1>1, <1>3, TakenFromQueue
    <2>2. Len(queue') <= Len(order') /\ order' # <<>> /\ order' = TopoOrder(job'.selected, job'.fks)
        BY <1>1, TakenFromQueue DEF Queued, Typed
    <2>3. Taken' > 0 /\ cur' = order'[Taken']
        BY <1>1, <1>3, TakenFromQueue
    <2>4. ASSUME NEW i \in 1..Taken', report'[order'[i]].status = "none" PROVE i = Taken'
        <3>1. i \in 1..Taken \/ i = Taken'
            BY <1>3
        <3> QED
            BY <1>1, <2>4, <3>1 DEF Queued, Busy
    <2> QED
        BY <1>1, <2>1, <2>2, <2>3, <2>4 DEF Queued, Busy
<1>5. ASSUME NEW t \in Tables PROVE Settled(t)'
    <2>1. Waiting(t)' => Waiting(t)
        BY <1>1, TakenFromQueue DEF Waiting
    <2> QED
        BY <1>1, <2>1, Undisturbed DEF SameTable
<1>6. Saved' /\ Unwritten' /\ ~Moving' /\ pc' # "write"
    BY <1>1 DEF Saved, Unwritten, Moving
<1>7. OrderKeepsInsertsValid'
    BY <1>1, InsertsStayValid DEF Typed
<1> QED
    BY <1>2, <1>4, <1>5, <1>6, <1>7

-----------------------------------------------------------------------------
(* A table fails                                                           *)

\* A table that fails before anything of it is copied.
LEMMA FailedAtOnce ==
    ASSUME NEW t \in Tables, AsBefore(t), job' = job, old'[t] = old[t], copies'[t] = copies[t],
           report'[t].status = "error", ~Waiting(t)'
    PROVE  Settled(t)'
<1>1. \A r \in Rows : copies'[t][r] = 0
    BY DEF AsBefore, Zero
<1>2. Exact(t)' /\ AddsUp(t)'
    BY <1>1 DEF Exact, AddsUp
<1>3. ~Started(t)' /\ old'[t] = HadRows(t)'
    BY <1>1 DEF Started, AsBefore, HadRows
<1>4. Atomic(t)'
    BY <1>3 DEF Atomic
<1> QED
    BY <1>2, <1>4 DEF Settled

LEMMA CreateFailsKeeps ==
    ASSUME CopyInv, CreateFails
    PROVE  CopyInv'
<1> USE DEF CopyInv
<1> DEFINE h == Head(queue)
<1>1. /\ UNCHANGED <<job, source, writes, old, copies, before, pc, order, last, offset, page, copied,
                     stable, touched, refused>>
      /\ pc = "table" /\ queue # <<>> /\ cur' = h /\ queue' = Tail(queue)
      /\ report' = [report EXCEPT ![h] = [NotYet EXCEPT !.status = "error"]]
    BY DEF CreateFails, target, paging
<1>2. h \in Tables /\ h \in Range(queue) /\ h \notin Range(Tail(queue))
    BY <1>1, TakenFromQueue
<1>3. /\ DOMAIN report' = Tables /\ report'[h].status = "error"
      /\ \A t \in Tables \ {h} : report'[t] = report[t]
    BY <1>1, <1>2 DEF Typed, NotYet
<1>4. Typed'
    <2>1. \A t \in Tables : report'[t].status \in {"none", "done", "error"}
        BY <1>3 DEF Typed
    <2> QED
        BY <1>1, <1>3, <2>1, TakenFromQueue DEF Typed, Busy
<1>5. Taken' = Taken + 1 /\ Taken \in Nat /\ Taken + 1 \in 1..Len(order)
    <2>1. Len(order) \in Nat /\ Len(queue) \in Nat /\ Len(queue') = Len(queue) - 1
        BY <1>1, TakenFromQueue DEF Typed
    <2> QED
        BY <1>1, <2>1, TakenFromQueue DEF Taken
<1>6. Queued'
    <2>1. \A i \in 1..Len(queue') : queue'[i] = order'[Taken' + i]
        BY <1>1, <1>5, TakenFromQueue
    <2>2. Len(queue') <= Len(order') /\ order' # <<>> /\ order' = TopoOrder(job'.selected, job'.fks)
        BY <1>1, TakenFromQueue DEF Queued, Typed
    <2>3. ASSUME NEW i \in 1..Taken' PROVE report'[order'[i]].status # "none"
        <3>1. i \in 1..Taken \/ i = Taken + 1
            BY <1>5
        <3>2. CASE i \in 1..Taken
            <4>1. i \in 1..Len(order)
                BY <1>5, <3>2, TakenFromQueue DEF Typed
            <4>2. order[i] \in Tables
                BY <4>1 DEF Typed
            <4>3. report[order[i]].status # "none"
                BY <1>1, <3>2 DEF Queued, Busy
            <4> QED
                BY <1>1, <1>3, <4>2, <4>3
        <3>3. order[Taken + 1] = h
            BY <1>1, TakenFromQueue
        <3> QED
            BY <1>1, <1>3, <3>1, <3>2, <3>3
    <2> QED
        BY <1>1, <2>1, <2>2, <2>3 DEF Queued, Busy
<1>7. ASSUME NEW t \in Tables PROVE Settled(t)'
    <2>1. CASE t = h
        <3>1. AsBefore(t) /\ ~Waiting(t)'
            BY <1>1, <1>2, <2>1 DEF Settled, Waiting
        <3> QED
            BY <1>1, <1>3, <2>1, <3>1, FailedAtOnce
    <2>2. CASE t # h
        <3>1. Waiting(t)' => Waiting(t)
            BY <1>1, TakenFromQueue DEF Waiting
        <3> QED
            BY <1>1, <1>3, <2>2, <3>1, Undisturbed DEF SameTable
    <2> QED
        BY <2>1, <2>2
<1>8. Saved' /\ Unwritten' /\ ~Moving' /\ pc' # "write"
    BY <1>1 DEF Saved, Unwritten, Moving
<1>9. OrderKeepsInsertsValid'
    <2>1. \A t \in Tables : report[t].status = "error" => report'[t].status = "error"
        BY <1>3
    <2> QED
        BY <1>1, <2>1, InsertsStayValid DEF Typed
<1> QED
    BY <1>4, <1>6, <1>7, <1>8, <1>9

\* The table taken is reported, as done or as failed; the next one follows.
\* Its rows are all that may change.
LEMMA ReportedKeeps ==
    ASSUME CopyInv, Busy, pc' = "table",
           UNCHANGED <<job, source, writes, order, queue, cur, last, offset, page, copied, stable, touched>>,
           old' \in [Tables -> SUBSET Rows], copies' \in [Tables -> [Rows -> Nat]],
           \A t \in Tables \ {cur} : old'[t] = old[t] /\ copies'[t] = copies[t] /\ report'[t] = report[t],
           DOMAIN report' = Tables, report'[cur].status \in {"done", "error"},
           refused' \subseteq refused \cup {cur}, refused \subseteq refused',
           \A t \in Tables : t = cur => Settled(t)', OrderKeepsInsertsValid'
    PROVE  CopyInv'
<1> USE DEF CopyInv
<1>1. cur \in Tables
    BY DEF Typed
<1>2. Typed'
    <2>1. \A t \in Tables : report'[t].status \in {"none", "done", "error"}
        BY DEF Typed
    <2>2. refused' \subseteq Tables
        BY <1>1 DEF Typed
    <2> QED
        BY <2>1, <2>2 DEF Typed, Busy, PcValues
<1>3. Queued'
    BY ReportedQueued
<1>4. \A t \in Tables \ {cur} : Settled(t)'
    <2>1. \A t \in Tables \ {cur} : (t \in refused') <=> (t \in refused)
        OBVIOUS
    <2> QED
        BY <2>1, OthersSettled
<1>5. \A t \in Tables : Settled(t)'
    BY <1>4
<1>6. Saved' /\ Unwritten' /\ ~Moving' /\ pc' # "write"
    BY DEF Saved, Unwritten, Moving
<1> QED
    BY <1>2, <1>3, <1>5, <1>6

\* A failure that refuses no insert.
LEMMA FailFacts ==
    ASSUME Typed, Queued, Busy, Fail
    PROVE  /\ DOMAIN report' = Tables /\ report'[cur].status = "error" /\ pc' = "table"
           /\ \A t \in Tables \ {cur} : report'[t] = report[t]
           /\ \A t \in Tables : report[t].status = "error" => report'[t].status = "error"
<1>1. cur \in Tables
    BY DEF Typed
<1>2. DOMAIN report' = Tables /\ report'[cur].status = "error" /\ pc' = "table"
      /\ \A t \in Tables \ {cur} : report'[t] = report[t]
    BY <1>1 DEF Fail, Typed, NotYet
<1> QED
    BY <1>2

LEMMA EmptyTableFailsKeeps ==
    ASSUME CopyInv, EmptyTableFails
    PROVE  CopyInv'
<1> USE DEF CopyInv
<1>1. /\ UNCHANGED <<job, source, writes, old, copies, order, queue, cur, last, offset, page, copied,
                     stable, touched, refused>>
      /\ pc = "truncate" /\ Fail
    BY DEF EmptyTableFails, target, paging
<1>2. Busy
    BY <1>1 DEF Busy
<1>3. cur \in Tables /\ cur \notin Range(queue)
    BY <1>2, CurrentFacts
<1>4. ASSUME NEW t \in Tables, t = cur PROVE Settled(t)'
    <2>1. AsBefore(t) /\ ~Waiting(t)'
        BY <1>1, <1>2, <1>3, <1>4, FailFacts DEF Settled, Waiting
    <2> QED
        BY <1>1, <1>2, <1>4, <2>1, FailedAtOnce, FailFacts
<1>5. OrderKeepsInsertsValid'
    BY <1>1, <1>2, InsertsStayValid, FailFacts DEF Typed
<1>6. old' \in [Tables -> SUBSET Rows] /\ copies' \in [Tables -> [Rows -> Nat]]
    BY <1>1 DEF Typed
<1> QED
    BY <1>1, <1>2, <1>4, <1>5, <1>6, FailFacts, ReportedKeeps

LEMMA CountFailsKeeps ==
    ASSUME CopyInv, CountFails
    PROVE  CopyInv'
<1> USE DEF CopyInv
<1>1. /\ UNCHANGED <<job, source, writes, old, copies, order, queue, cur, last, offset, page, copied,
                     stable, touched, refused>>
      /\ pc = "count" /\ Fail
    BY DEF CountFails, target, paging
<1>2. Busy /\ Moving
    BY <1>1 DEF Busy, Moving
<1>3. cur \in Tables /\ cur \notin Range(queue)
    BY <1>2, CurrentFacts
<1>4. ASSUME NEW t \in Tables, t = cur PROVE Settled(t)'
    <2>1. ~Waiting(t)' /\ report'[t].status = "error"
        BY <1>1, <1>2, <1>3, <1>4, FailFacts DEF Waiting
    <2>2. Followed(t) => Complete(t)
        BY <1>1, <1>2, <1>4 DEF CopyingTable, Reached, Complete
    <2>3. Complete(t)' <=> Complete(t)
        BY <1>1 DEF Complete, OnTarget
    <2>4. Exact(t)'
        BY <1>1, <2>1 DEF Settled, Exact, Followed, Keyset
    <2>5. Atomic(t)' /\ AddsUp(t)'
        BY <1>1, <2>1, <2>2, <2>3 DEF Atomic, AddsUp, Followed, Keyset
    <2> QED
        BY <1>1, <2>1, <2>4, <2>5 DEF Settled
<1>5. OrderKeepsInsertsValid'
    BY <1>1, <1>2, InsertsStayValid, FailFacts DEF Typed
<1>6. old' \in [Tables -> SUBSET Rows] /\ copies' \in [Tables -> [Rows -> Nat]]
    BY <1>1 DEF Typed
<1> QED
    BY <1>1, <1>2, <1>4, <1>5, <1>6, FailFacts, ReportedKeeps

\* Where foreign keys stay enforced, the parents of a table are in the order
\* before it: those that were copied have every row of the source.
LEMMA RefusedForAReason ==
    ASSUME CopyInv, pc = "write", ParentMissing(cur, NewOnes(cur, Range(page))), writes = 0,
           ~Stuck(cur, job.selected, job.fks)
    PROVE  \E f \in TargetFks :
              f[1] = cur /\ (f[2] \notin Range(job.selected) \/ report[f[2]].status = "error")
<1> USE DEF CopyInv
<1>1. Busy /\ Moving
    BY DEF Busy, Moving
<1>2. /\ cur \in Tables /\ Taken \in 1..Len(order) /\ order[Taken] = cur /\ order # <<>>
      /\ IsInjective(order) /\ ParentsFirstIn(order, job.selected, job.fks)
    BY <1>1, CurrentFacts, OrderFacts
<1>3. PICK f \in TargetFks : f[1] = cur /\ \E r \in NewOnes(cur, Range(page)) : ~OnTarget(f[2], r)
    BY DEF ParentMissing
<1>4. PICK r \in Range(page) : ~OnTarget(f[2], r)
    BY <1>3 DEF NewOnes
<1> DEFINE p == f[2]
<1>5. f \in job.fks /\ p \in Tables /\ f = <<cur, p>> /\ p # cur
    <2>1. f \in job.fks /\ f[1] # f[2] /\ job.fks \subseteq Tables \X Tables
        BY JobFacts DEF TargetFks, Typed
    <2> QED
        BY <1>3, <2>1
<1> SUFFICES ASSUME p \in Range(job.selected) PROVE report[p].status = "error"
    BY <1>3
<1>6. source = SourceRows /\ touched = {}
    BY DEF Unwritten
<1>7. r \in Range(SourceRows[p])
    <2>1. r \in Range(source[cur])
        BY <1>2, <1>4, <1>6 DEF PageFits, Followed
    <2>2. Range(SourceRows[cur]) \subseteq Range(SourceRows[p])
        BY <1>3, <1>5, JobFacts DEF Typed
    <2> QED
        BY <1>6, <2>1, <2>2
<1>8. order \in Seq(Tables) /\ DOMAIN order = 1..Len(order) /\ Len(order) \in Nat
    BY DEF Typed
<1>9. Position(cur, order) = Taken
    BY <1>2, <1>8 DEF Position, IsInjective
<1>10. PICK i \in 1..Len(order) : order[i] = p /\ Position(p, order) = i
    <2>1. p \in Range(order)
        BY <1>2 DEF ParentsFirstIn
    <2>2. PICK i \in DOMAIN order : order[i] = p
        BY <2>1 DEF Range
    <2>3. Position(p, order) = i
        BY <1>2, <2>2 DEF Position, IsInjective
    <2> QED
        BY <1>8, <2>2, <2>3
<1>11. Position(p, order) < Position(cur, order)
    <2>1. cur \in Range(job.selected)
        BY <1>2, <1>8 DEF ParentsFirstIn, Range
    <2>2. p \in Deps(cur, job.selected, job.fks)
        BY <1>5 DEF Deps
    <2> QED
        BY <1>2, <2>1, <2>2 DEF ParentsFirstIn
<1>12. i \in 1..Taken /\ i # Taken
    BY <1>2, <1>8, <1>9, <1>10, <1>11
<1>13. report[p].status # "none"
    BY <1>10, <1>12 DEF Queued
<1>14. report[p].status # "done"
    <2> SUFFICES ASSUME report[p].status = "done" PROVE FALSE
        OBVIOUS
    <2>1. Settled(p)
        BY <1>5
    <2>2. Followed(p) /\ Complete(p) /\ stable[p] = Range(SourceRows[p])
        BY <1>6, <2>1 DEF Settled, Exact, Followed
    <2> QED
        BY <1>4, <1>7, <2>2 DEF Complete
<1> QED
    BY <1>5, <1>13, <1>14 DEF Typed

LEMMA CopyFailsKeepsInv ==
    ASSUME CopyInv, CopyFails
    PROVE  CopyInv'
<1> USE DEF CopyInv
<1>1. /\ UNCHANGED <<job, source, writes, order, queue, cur, last, offset, page, copied, stable, touched>>
      /\ pc \in {"read", "write"} /\ Fail
      /\ ~OneTransaction => UNCHANGED <<old, copies>>
      /\ OneTransaction => /\ old' = [old EXCEPT ![cur] = before.old]
                           /\ copies' = [copies EXCEPT ![cur] = before.copies]
    BY DEF CopyFails, paging
<1>2. refused' = IF pc = "write" /\ cur \in present /\ ParentMissing(cur, NewOnes(cur, Range(page)))
                 THEN refused \cup {cur} ELSE refused
    BY DEF CopyFails
<1>3. Busy /\ Moving
    BY <1>1 DEF Busy, Moving
<1>4. cur \in Tables /\ cur \notin Range(queue)
    BY <1>3, CurrentFacts
<1>5. /\ before.copies = Zero /\ before.old \subseteq Rows
      /\ job.conflict # "truncate" => before.old = HadRows(cur)
    BY <1>1 DEF Saved
<1>6. /\ OneTransaction => old'[cur] = before.old /\ copies'[cur] = before.copies
      /\ ~OneTransaction => old'[cur] = old[cur] /\ copies'[cur] = copies[cur]
      /\ \A t \in Tables \ {cur} : old'[t] = old[t] /\ copies'[t] = copies[t]
    <2>1. CASE OneTransaction
        BY <1>1, <1>4, <2>1 DEF Typed
    <2>2. CASE ~OneTransaction
        BY <1>1, <2>2
    <2> QED
        BY <2>1, <2>2
<1>7. old' \in [Tables -> SUBSET Rows] /\ copies' \in [Tables -> [Rows -> Nat]]
    <2>1. Zero \in [Rows -> Nat]
        BY DEF Zero
    <2>2. CASE OneTransaction
        BY <1>1, <1>4, <1>5, <2>1, <2>2 DEF Typed
    <2>3. CASE ~OneTransaction
        BY <1>1, <2>3 DEF Typed
    <2> QED
        BY <2>2, <2>3
<1>8. ASSUME NEW t \in Tables, t = cur PROVE Settled(t)'
    <2>1. ~Waiting(t)' /\ report'[t].status = "error"
        BY <1>1, <1>3, <1>4, <1>8, FailFacts DEF Waiting
    <2>2. OneTransaction' <=> OneTransaction
        BY <1>1 DEF OneTransaction
    <2>3. OneTransaction => copies'[t] = Zero
        BY <1>5, <1>6, <1>8
    <2>4. Exact(t)'
        <3>1. Followed(t)' => \A r \in Rows : copies'[t][r] <= 1
            BY <1>1, <1>6, <1>8, <2>3 DEF Settled, Exact, Followed, Keyset, Zero
        <3> QED
            BY <2>1, <3>1 DEF Exact
    <2>5. Atomic(t)'
        <3>1. OneTransaction => ~Started(t)' /\ (job'.conflict # "truncate" => old'[t] = HadRows(t)')
            BY <1>1, <1>5, <1>6, <1>8, <2>3 DEF Started, Zero, HadRows
        <3> QED
            BY <2>2, <3>1 DEF Atomic
    <2> QED
        BY <2>1, <2>4, <2>5 DEF Settled, AddsUp
<1>9. OrderKeepsInsertsValid'
    <2>1. CASE refused' = refused
        BY <1>1, <1>3, <2>1, InsertsStayValid, FailFacts DEF Typed
    <2>2. CASE refused' # refused
        <3>1. pc = "write" /\ ParentMissing(cur, NewOnes(cur, Range(page))) /\ refused' = refused \cup {cur}
            BY <1>2, <2>2
        <3> SUFFICES ASSUME NEW t \in refused', ~(writes' > 0), ~Stuck(t, job.selected, job.fks)
                     PROVE  \E f \in TargetFks :
                                f[1] = t /\ (f[2] \notin Range(job.selected) \/ report'[f[2]].status = "error")
            BY <1>1 DEF OrderKeepsInsertsValid, TargetFks
        <3>2. writes = 0
            BY <1>1 DEF Typed
        <3>3. \E f \in TargetFks :
                  f[1] = t /\ (f[2] \notin Range(job.selected) \/ report[f[2]].status = "error")
            BY <3>1, <3>2, RefusedForAReason DEF OrderKeepsInsertsValid
        <3>4. \A f \in TargetFks : f[2] \in Tables
            BY JobFacts DEF TargetFks, Typed
        <3>5. \A q \in Tables : report[q].status = "error" => report'[q].status = "error"
            BY <1>1, <1>3, FailFacts
        <3> QED
            BY <3>3, <3>4, <3>5
    <2> QED
        BY <2>1, <2>2
<1> QED
    BY <1>1, <1>2, <1>3, <1>6, <1>7, <1>8, <1>9, FailFacts, ReportedKeeps

-----------------------------------------------------------------------------
(* A table is done                                                         *)

\* A row that is there once counts once.
LEMMA CountOfCopies ==
    ASSUME NEW t \in Tables, copies[t] \in [Rows -> Nat], \A r \in Rows : copies[t][r] <= 1, old[t] = {}
    PROVE  TargetCount(t) = Cardinality(Copied(t))
<1> DEFINE C == Copied(t)
           U == UNION {{r} \X (1..copies[t][r]) : r \in Rows}
           once == [r \in C |-> <<r, 1>>]
<1>1. C \subseteq Rows /\ IsFiniteSet(C)
    BY Bounds, FS_Subset DEF Copied
<1>2. ASSUME NEW r \in Rows PROVE 1..copies[t][r] = IF r \in C THEN {1} ELSE {}
    <2>1. copies[t][r] \in Nat /\ copies[t][r] <= 1
        OBVIOUS
    <2>2. CASE copies[t][r] = 0
        BY <2>2 DEF Copied
    <2>3. CASE copies[t][r] = 1
        BY <2>3 DEF Copied
    <2> QED
        BY <2>1, <2>2, <2>3
<1>3. U = {<<r, 1>> : r \in C}
    BY <1>1, <1>2
<1> HIDE DEF C, U
<1>4. once \in Bijection(C, U)
    BY <1>3 DEF Bijection, Injection, Surjection, IsInjective
<1> HIDE DEF once
<1>5. Cardinality(U) = Cardinality(C)
    <2>1. ExistsBijection(C, U)
        BY <1>4 DEF ExistsBijection
    <2> QED
        BY <1>1, <2>1, FS_Bijection
<1>6. Cardinality(old[t]) = 0 /\ Cardinality(C) \in Nat
    BY <1>1, FS_EmptySet, FS_CardinalityType
<1> QED
    BY <1>5, <1>6 DEF TargetCount, U, C

LEMMA CountRowsKeeps ==
    ASSUME CopyInv, CountRows
    PROVE  CopyInv'
<1> USE DEF CopyInv
<1>1. /\ UNCHANGED <<job, source, writes, old, copies, order, queue, cur, last, offset, page, copied,
                     stable, touched, refused>>
      /\ pc = "count" /\ pc' = "table"
      /\ report' = [report EXCEPT ![cur] =
                       [status |-> "done", copied |-> copied,
                        sourceRows |-> Len(source[cur]), targetRows |-> TargetCount(cur)]]
    BY DEF CountRows, target, paging
<1>2. Busy /\ Moving
    BY <1>1 DEF Busy, Moving
<1>3. cur \in Tables /\ cur \notin Range(queue)
    BY <1>2, CurrentFacts
<1>4. /\ DOMAIN report' = Tables /\ \A t \in Tables \ {cur} : report'[t] = report[t]
      /\ report'[cur] = [status |-> "done", copied |-> copied,
                         sourceRows |-> Len(source[cur]), targetRows |-> TargetCount(cur)]
    BY <1>1, <1>3 DEF Typed
<1>5. ASSUME NEW t \in Tables, t = cur PROVE Settled(t)'
    <2>1. ~Waiting(t)' /\ report'[t].status = "done"
        BY <1>1, <1>3, <1>4, <1>5 DEF Waiting
    <2>2. CopyingTable(t)
        BY <1>2, <1>5
    <2>3. Followed(t) => Complete(t)
        BY <1>1, <2>2 DEF CopyingTable, Reached, Complete
    <2>4. Complete(t)' <=> Complete(t)
        BY <1>1 DEF Complete, OnTarget
    <2>5. Exact(t)'
        BY <1>1, <2>3, <2>4 DEF Settled, Exact, Followed, Keyset
    <2>6. writes' = 0 => stable'[t] = Range(SourceRows[t])
        BY <1>1, <2>2 DEF CopyingTable, Unwritten
    <2>7. AddsUp(t)'
        <3> SUFFICES ASSUME job.conflict = "truncate", t \notin touched
                     PROVE  copied = Len(source[t]) /\ copied = TargetCount(t)
            BY <1>1, <1>4, <1>5 DEF AddsUp
        <3>1. /\ old[t] = {} /\ copied = Cardinality(Copied(t)) /\ stable[t] = Range(source[t])
              /\ Copied(t) \subseteq Range(source[t]) /\ Complete(t)
            BY <2>2, <2>3 DEF CopyingTable, Reached, Followed
        <3>2. Range(source[t]) \subseteq Copied(t)
            <4>1. Range(source[t]) \subseteq Rows
                BY <3>1 DEF Typed
            <4> QED
                BY <3>1, <4>1 DEF Complete, OnTarget, Copied
        <3>3. Cardinality(Range(source[t])) = Len(source[t])
            BY AsLong DEF Typed
        <3>4. TargetCount(t) = Cardinality(Copied(t))
            BY <3>1, CountOfCopies DEF Settled, Exact, Followed, Typed
        <3>5. Copied(t) = Range(source[t])
            BY <3>1, <3>2
        <3> QED
            BY <3>1, <3>3, <3>4, <3>5
    <2> QED
        BY <2>1, <2>5, <2>6, <2>7 DEF Settled, Atomic
<1>6. OrderKeepsInsertsValid'
    <2>1. \A t \in Tables : report[t].status = "error" => report'[t].status = "error"
        BY <1>2, <1>4 DEF CopyingTable
    <2> QED
        BY <1>1, <2>1, InsertsStayValid DEF Typed
<1>7. old' \in [Tables -> SUBSET Rows] /\ copies' \in [Tables -> [Rows -> Nat]]
    BY <1>1 DEF Typed
<1> QED
    BY <1>1, <1>2, <1>4, <1>5, <1>6, <1>7, ReportedKeeps

-----------------------------------------------------------------------------
(* The copy begins                                                         *)

\* A step of the copy of one table, which may change its rows.
LEMMA CopyStepKeeps ==
    ASSUME CopyInv, Busy, Typed', pc' \in {"read", "write", "count"},
           UNCHANGED <<job, source, writes, order, queue, cur, report, touched, refused>>,
           \A t \in Tables \ {cur} : old'[t] = old[t] /\ copies'[t] = copies[t] /\ stable'[t] = stable[t],
           report[cur].status = "none",
           Followed(cur) => \A r \in Rows : copies'[cur][r] <= 1,
           Saved', CopyingTable(cur)', pc' = "write" => PageFits(cur)'
    PROVE  CopyInv'
<1> USE DEF CopyInv
<1>1. cur \in Tables /\ cur \notin Range(queue)
    BY CurrentFacts
<1>2. Queued'
    BY DEF Queued, Taken, Busy
<1>3. \A t \in Tables \ {cur} : Settled(t)'
    BY OthersSettled
<1>4. ASSUME NEW t \in Tables, t = cur PROVE Settled(t)'
    <2>1. ~Waiting(t)' /\ report'[t].status = "none"
        BY <1>1, <1>4 DEF Waiting
    <2>2. Exact(t)'
        BY <1>4, <2>1 DEF Exact, Followed, Keyset
    <2> QED
        BY <2>1, <2>2 DEF Settled, Atomic, AddsUp
<1>5. \A t \in Tables : Settled(t)'
    BY <1>3, <1>4
<1>6. OrderKeepsInsertsValid'
    BY InsertsStayValid DEF Typed
<1>7. Unwritten'
    BY DEF Unwritten
<1> QED
    BY <1>2, <1>5, <1>6, <1>7

LEMMA EmptyTableKeeps ==
    ASSUME CopyInv, EmptyTable
    PROVE  CopyInv'
<1> USE DEF CopyInv
<1>1. /\ UNCHANGED <<job, source, writes, order, queue, cur, report, touched, refused>>
      /\ pc = "truncate" /\ pc' = "read" /\ last' = 0 /\ offset' = 0 /\ page' = <<>> /\ copied' = 0
      /\ stable' = [stable EXCEPT ![cur] = Range(source[cur])]
      /\ before' = [old |-> old'[cur], copies |-> copies'[cur]]
      /\ \/ job.conflict # "truncate" /\ UNCHANGED <<old, copies>>
         \/ /\ job.conflict = "truncate"
            /\ old' = [old EXCEPT ![cur] = {}]
            /\ copies' = [copies EXCEPT ![cur] = Zero]
    BY DEF EmptyTable, BeginCopy, Zero
<1>2. Busy
    BY <1>1 DEF Busy
<1>3. cur \in Tables /\ cur \notin Range(queue)
    BY <1>2, CurrentFacts
<1>4. AsBefore(cur)
    BY <1>1, <1>3 DEF Settled, Waiting
<1>5. Zero \in [Rows -> Nat] /\ HadRows(cur) \subseteq Rows
    BY <1>3, SourceFacts DEF Zero
<1>6. /\ copies'[cur] = Zero /\ old'[cur] \subseteq Rows
      /\ job.conflict = "truncate" => old'[cur] = {}
      /\ job.conflict # "truncate" => old'[cur] = HadRows(cur)
      /\ \A t \in Tables \ {cur} : old'[t] = old[t] /\ copies'[t] = copies[t] /\ stable'[t] = stable[t]
      /\ stable'[cur] = Range(source[cur])
    BY <1>1, <1>3, <1>4, <1>5 DEF AsBefore, Typed
<1>7. Range(source[cur]) \subseteq Rows
    <2>1. source[cur] \in Seq(Rows)
        BY <1>3 DEF Typed
    <2> QED
        BY <2>1 DEF Range
<1>8. Typed'
    <2>1. old' \in [Tables -> SUBSET Rows]
        BY <1>1, <1>3 DEF Typed
    <2>2. copies' \in [Tables -> [Rows -> Nat]]
        BY <1>1, <1>3, <1>5 DEF Typed
    <2>3. stable' \in [Tables -> SUBSET Rows]
        BY <1>1, <1>3, <1>7 DEF Typed
    <2>4. page' \in Seq(Rows) /\ Len(page') <= Batch
        BY <1>1, Bounds
    <2> QED
        BY <1>1, <1>2, <2>1, <2>2, <2>3, <2>4 DEF Typed, Busy, PcValues
<1>9. Saved'
    BY <1>1, <1>5, <1>6 DEF Saved, HadRows, Zero
<1>10. Copied(cur)' = {} /\ Passed(cur)' = {}
    <2>1. Copied(cur)' = {}
        BY <1>1, <1>6 DEF Copied, Zero
    <2>2. Upto(0) = {}
        <3>1. \A r \in Rows : r \in Nat /\ r # 0
            BY Bounds
        <3>2. \A r \in Rows : ~(r <= 0)
            BY <3>1
        <3> QED
            BY <3>2 DEF Upto
    <2>3. FirstRows(cur, 0)' = {}
        BY <1>1 DEF FirstRows
    <2>4. Passed(cur)' = IF Keyset(cur) THEN Upto(0) ELSE FirstRows(cur, 0)'
        BY <1>1 DEF Passed, Keyset, FirstRows, Upto
    <2> QED
        BY <2>1, <2>2, <2>3, <2>4
<1>11. CopyingTable(cur)'
    <2>1. Len(source[cur]) \in Nat
        BY <1>3 DEF Typed
    <2>2. Reached(cur)'
        BY <1>1, <1>10, <2>1 DEF Reached
    <2>3. Cardinality({}) = 0
        BY FS_EmptySet
    <2> QED
        BY <1>1, <1>4, <1>6, <1>10, <2>2, <2>3 DEF CopyingTable, AsBefore
<1>12. Followed(cur) => \A r \in Rows : copies'[cur][r] <= 1
    BY <1>6 DEF Zero
<1> QED
    BY <1>1, <1>2, <1>4, <1>6, <1>8, <1>9, <1>11, <1>12, CopyStepKeeps DEF AsBefore

-----------------------------------------------------------------------------
(* A page is read                                                          *)

\* With a key the page holds the next rows of the table.
LEMMA KeysetFits ==
    ASSUME CopyInv, pc = "read", ReadPage, Keyset(cur)
    PROVE  /\ page' \in Seq(Rows) /\ Len(page') <= Batch
           /\ page' = <<>> => stable[cur] \subseteq Passed(cur)
           /\ page' # <<>> => PageFits(cur)'
<1> USE DEF CopyInv
<1>1. /\ UNCHANGED <<job, source, cur, last, offset, stable, touched>>
      /\ page' = KeysetPage(cur)
    BY DEF ReadPage
<1>2. Busy /\ Moving
    BY DEF Busy, Moving
<1>3. cur \in Tables /\ source[cur] \in Seq(Rows) /\ last \in Nat
    BY <1>2 DEF Typed
<1> DEFINE later == {r \in Range(source[cur]) : r > last}
           p == page'
<1>4. p \in Seq(Rows) /\ FirstOrdered(p, later, Batch)
    BY <1>1, <1>3, KeysetPageFacts
<1>5. Rows \subseteq Nat /\ Batch \in Nat /\ Batch # 0 /\ Range(source[cur]) \subseteq Rows /\ later \subseteq Rows
    <2>1. Range(source[cur]) \subseteq Rows
        BY <1>3 DEF Range
    <2> QED
        BY <2>1, Bounds
<1>6. stable[cur] \subseteq Range(source[cur])
    BY <1>2 DEF CopyingTable
<1>7. ASSUME NEW r \in stable[cur] PROVE r \in Upto(last) \/ r \in later
    <2>1. r \in Range(source[cur]) /\ r \in Rows /\ r \in Nat
        BY <1>5, <1>6
    <2>2. r <= last \/ r > last
        BY <1>3, <2>1
    <2> QED
        BY <2>1, <2>2 DEF Upto
<1> DEFINE n == Len(p)
<1>8. /\ n \in Nat /\ n <= Batch /\ DOMAIN p = 1..n /\ Range(p) \subseteq later
      /\ \A i, j \in 1..n : i < j => p[i] < p[j]
      /\ \A r \in later \ Range(p) : n = Batch /\ \A q \in Range(p) : q < r
    BY <1>4 DEF FirstOrdered, Range
<1>9. \A r \in later : r \in Nat /\ r > last /\ r \in Rows
    BY <1>5
<1> HIDE DEF later, p
<1>10. CASE p = <<>>
    <2>1. n = 0 /\ Range(p) = {}
        BY <1>10 DEF Range
    <2>2. later = {}
        BY <1>5, <1>8, <2>1
    <2>3. stable[cur] \subseteq Passed(cur)
        BY <1>7, <2>2 DEF Passed
    <2> QED
        BY <1>4, <1>8, <1>10, <2>3 DEF p
<1>11. CASE p # <<>>
    <2> HIDE DEF n
    <2>1. n \in 1..n /\ n # 0 /\ n \in Nat
        BY <1>4, <1>8, <1>11 DEF n
    <2> DEFINE e == p[n]
    <2>2. e \in Range(p) /\ e \in later /\ e \in Nat /\ e > last
        BY <1>8, <1>9, <2>1 DEF Range
    <2>3. \A q \in Range(p) : q <= e
        <3>1. ASSUME NEW i \in 1..n PROVE p[i] <= e
            <4>1. i = n \/ i < n
                BY <2>1
            <4>2. p[i] \in Nat
                BY <1>8, <1>9 DEF Range
            <4>3. i < n => p[i] < p[n]
                BY <1>8, <2>1
            <4> QED
                BY <2>2, <4>1, <4>2, <4>3
        <3> QED
            BY <1>8, <3>1 DEF Range
    <2>4. IsInjective(p)
        <3>1. ASSUME NEW i \in 1..n, NEW j \in 1..n, i < j PROVE p[i] # p[j]
            <4>1. p[i] < p[j] /\ p[i] \in Nat /\ p[j] \in Nat
                BY <1>8, <1>9, <3>1 DEF Range
            <4> QED
                BY <4>1
        <3> QED
            BY <1>8, <3>1 DEF IsInjective
    <2> HIDE DEF e
    <2>5. Range(p) \cap Upto(last) = {}
        BY <1>3, <1>8, <1>9 DEF Upto
    <2>6. Range(p) \subseteq Upto(e) /\ Upto(last) \subseteq Upto(e)
        <3>1. Range(p) \subseteq Upto(e)
            BY <1>8, <1>9, <2>3 DEF Upto
        <3>2. ASSUME NEW r \in Rows, r <= last PROVE r <= e
            <4>1. r \in Nat
                BY <1>5
            <4> QED
                BY <1>3, <2>2, <3>2, <4>1
        <3> QED
            BY <3>1, <3>2 DEF Upto
    <2>7. ASSUME NEW r \in stable[cur] \cap Upto(e) PROVE r \in Upto(last) \/ r \in Range(p)
        <3> SUFFICES ASSUME r \in later, r \notin Range(p) PROVE FALSE
            BY <1>7
        <3>1. e < r /\ r <= e /\ r \in Nat
            BY <1>8, <1>9, <2>2 DEF Upto
        <3> QED
            BY <2>2, <3>1
    <2>8. n < Batch => stable[cur] \subseteq Upto(e)
        <3>1. n < Batch => n # Batch
            BY <1>5, <2>1
        <3>2. n < Batch => later \subseteq Range(p)
            BY <1>8, <3>1
        <3> QED
            BY <1>7, <2>6, <3>2
    <2>9. Range(p) \subseteq Range(source[cur])
        BY <1>8 DEF later
    <2>10. Passed(cur)' = Upto(last) /\ PassedNext(cur)' = Upto(e)
        BY <1>1 DEF Passed, PassedNext, Keyset, Upto, e, p, n
    <2>11. PageFits(cur)'
        BY <1>1, <1>11, <2>4, <2>5, <2>6, <2>7, <2>8, <2>9, <2>10 DEF PageFits, Keyset, p, n
    <2> QED
        BY <1>4, <1>8, <1>11, <2>11 DEF p, n
<1> QED
    BY <1>10, <1>11

\* Without one it holds the rows at the next offsets, if the table stood still.
LEMMA OffsetFits ==
    ASSUME CopyInv, pc = "read", ReadPage, ~Keyset(cur)
    PROVE  /\ page' \in Seq(Rows) /\ Len(page') <= Batch
           /\ page' = <<>> /\ Followed(cur) => stable[cur] \subseteq Passed(cur)
           /\ page' # <<>> => PageFits(cur)'
<1> USE DEF CopyInv
<1>1. /\ UNCHANGED <<job, source, cur, last, offset, stable, touched>>
      /\ page' = OffsetPage(cur)
    BY DEF ReadPage
<1>2. Busy /\ Moving
    BY DEF Busy, Moving
<1> DEFINE s == source[cur]
           p == page'
           n == Len(p)
<1>3. /\ cur \in Tables /\ s \in Seq(Rows) /\ offset \in Nat /\ IsInjective(s)
      /\ Len(s) \in Nat /\ DOMAIN s = 1..Len(s)
    BY <1>2 DEF Typed
<1>4. /\ p \in Seq(Rows) /\ n <= Batch /\ n \in Nat /\ DOMAIN p = 1..n
      /\ \A i \in 1..n : offset + i \in 1..Len(s) /\ p[i] = s[offset + i]
      /\ offset <= Len(s) /\ n < Batch => offset + n = Len(s)
    BY <1>1, <1>3, OffsetPageFacts
<1>5. Followed(cur) => stable[cur] \subseteq Range(s) /\ offset <= Len(s)
    BY <1>2 DEF CopyingTable, Reached
<1>6. Batch \in Nat /\ Batch # 0
    BY Bounds
<1> DEFINE Upon(k) == FirstRows(cur, k)
<1>7. Upon(Len(s)) = Range(s)
    BY <1>3 DEF FirstRows, Range
<1>8. CASE p = <<>>
    <2>1. n = 0
        BY <1>8
    <2>2. Followed(cur) => offset = Len(s)
        BY <1>3, <1>4, <1>5, <1>6, <2>1
    <2>3. Followed(cur) => stable[cur] \subseteq Passed(cur)
        BY <1>5, <1>7, <2>2 DEF Passed
    <2> QED
        BY <1>4, <1>8, <2>3
<1>9. CASE p # <<>>
    <2>1. n # 0 /\ n \in 1..n
        BY <1>4, <1>9
    <2>2. offset + n \in 1..Len(s)
        BY <1>4, <2>1
    <2>3. IsInjective(p)
        <3>1. ASSUME NEW i \in 1..n, NEW j \in 1..n, p[i] = p[j] PROVE i = j
            <4>1. offset + i = offset + j
                BY <1>3, <1>4, <3>1 DEF IsInjective
            <4> QED
                BY <1>3, <1>4, <4>1
        <3> QED
            BY <1>4, <3>1 DEF IsInjective
    <2>4. Range(p) \cap Upon(offset) = {}
        <3>1. ASSUME NEW i \in 1..n, NEW j \in 1..offset PROVE p[i] # s[j]
            <4>1. j \in 1..Len(s) /\ offset + i \in 1..Len(s) /\ offset + i # j
                BY <1>3, <1>4, <2>2
            <4> QED
                BY <1>3, <1>4, <4>1 DEF IsInjective
        <3> QED
            BY <1>4, <3>1 DEF FirstRows, Range
    <2>5. Range(p) \subseteq Upon(offset + n) /\ Upon(offset) \subseteq Upon(offset + n)
        <3>1. \A i \in 1..n : offset + i \in 1..(offset + n)
            BY <1>3, <1>4
        <3>2. \A i \in 1..offset : i \in 1..(offset + n)
            BY <1>3, <1>4
        <3> QED
            BY <1>4, <3>1, <3>2 DEF FirstRows, Range
    <2>6. ASSUME NEW r \in Upon(offset + n) PROVE r \in Upon(offset) \/ r \in Range(p)
        <3>1. PICK i \in 1..(offset + n) : r = s[i]
            BY DEF FirstRows
        <3>2. CASE i <= offset
            <4>1. i \in 1..offset
                BY <1>3, <3>2
            <4> QED
                BY <3>1, <4>1 DEF FirstRows
        <3>3. CASE ~(i <= offset)
            <4>1. i - offset \in 1..n /\ offset + (i - offset) = i
                BY <1>3, <1>4, <3>3
            <4>2. r = p[i - offset]
                BY <1>4, <3>1, <4>1
            <4> QED
                BY <1>4, <4>1, <4>2 DEF Range
        <3> QED
            BY <3>2, <3>3
    <2>7. Followed(cur) /\ n < Batch => stable[cur] \subseteq Upon(offset + n)
        BY <1>4, <1>5, <1>7
    <2>8. Range(p) \subseteq Range(s)
        BY <1>3, <1>4 DEF Range
    <2>9. Passed(cur)' = Upon(offset) /\ PassedNext(cur)' = Upon(offset + n)
        BY <1>1 DEF Passed, PassedNext, Keyset, FirstRows
    <2>10. Followed(cur)' <=> Followed(cur)
        BY <1>1 DEF Followed, Keyset
    <2>11. offset + n <= Len(s)
        BY <1>3, <2>2
    <2> HIDE DEF p, Upon
    <2>12. PageFits(cur)'
        BY <1>1, <1>9, <2>3, <2>4, <2>5, <2>6, <2>7, <2>8, <2>9, <2>10, <2>11 DEF PageFits, p
    <2> QED
        BY <1>4, <1>9, <2>12 DEF p
<1> QED
    BY <1>8, <1>9

LEMMA ReadPageKeeps ==
    ASSUME CopyInv, ReadPage
    PROVE  CopyInv'
<1> USE DEF CopyInv
<1>1. /\ UNCHANGED <<job, source, writes, old, copies, before, order, queue, cur, last, offset, copied,
                     report, stable, touched, refused>>
      /\ pc = "read" /\ pc' = IF page' = <<>> THEN "count" ELSE "write"
    BY DEF ReadPage, target
<1>2. Busy /\ Moving
    BY <1>1 DEF Busy, Moving
<1>3. /\ page' \in Seq(Rows) /\ Len(page') <= Batch
      /\ page' = <<>> /\ Followed(cur) => stable[cur] \subseteq Passed(cur)
      /\ page' # <<>> => PageFits(cur)'
    BY <1>1, KeysetFits, OffsetFits
<1>4. Typed'
    BY <1>1, <1>2, <1>3 DEF Typed, Busy, PcValues
<1>5. Saved'
    BY <1>1 DEF Saved, HadRows, Zero
<1>6. CopyingTable(cur)'
    <2>1. CopyingTable(cur)
        BY <1>2
    <2>2. Passed(cur)' = Passed(cur) /\ Copied(cur)' = Copied(cur)
        BY <1>1 DEF Passed, Keyset, FirstRows, Upto, Copied
    <2>3. (Followed(cur)' <=> Followed(cur)) /\ (Keyset(cur)' <=> Keyset(cur))
        BY <1>1 DEF Followed, Keyset
    <2>4. \A r \in Rows : OnTarget(cur, r)' <=> OnTarget(cur, r)
        BY <1>1 DEF OnTarget
    <2>5. stable[cur] \subseteq Rows
        BY <1>2 DEF Typed
    <2>6. Reached(cur)'
        BY <1>1, <1>3, <2>1, <2>2, <2>3, <2>4, <2>5 DEF CopyingTable, Reached
    <2> QED
        BY <1>1, <2>1, <2>2, <2>6 DEF CopyingTable
<1>7. Followed(cur) => \A r \in Rows : copies'[cur][r] <= 1
    BY <1>1, <1>2 DEF Settled, Exact, Typed
<1> QED
    BY <1>1, <1>2, <1>3, <1>4, <1>5, <1>6, <1>7, CopyStepKeeps DEF CopyingTable

-----------------------------------------------------------------------------
(* A page is written                                                       *)

\* What a batch does to the rows of a table.
LEMMA BatchFacts ==
    ASSUME job \in Jobs, NEW t \in Tables, copies[t] \in [Rows -> Nat], NEW rs, NEW r \in Rows
    PROVE  /\ CopiesAfter(t, rs, r) \in Nat
           /\ r \notin rs => CopiesAfter(t, rs, r) = copies[t][r]
           /\ r \in rs /\ copies[t][r] = 0 => CopiesAfter(t, rs, r) <= 1
           /\ r \in rs => r \in OldAfter(t, rs) \/ CopiesAfter(t, rs, r) > 0
           /\ r \in rs /\ job.conflict = "truncate" => CopiesAfter(t, rs, r) = copies[t][r] + 1
           /\ r \notin rs /\ r \in old[t] => r \in OldAfter(t, rs)
<1>1. job.conflict \in {"skip", "upsert", "truncate"} /\ copies[t][r] \in Nat
    BY JobFacts
<1>2. CASE r \notin rs
    BY <1>1, <1>2 DEF CopiesAfter, OldAfter
<1>3. CASE r \in rs /\ Plain(t)
    BY <1>1, <1>3 DEF CopiesAfter
<1>4. CASE r \in rs /\ ~Plain(t) /\ job.conflict = "upsert"
    BY <1>4 DEF CopiesAfter
<1>5. CASE r \in rs /\ ~Plain(t) /\ job.conflict = "skip"
    <2>1. CopiesAfter(t, rs, r) = IF OnTarget(t, r) THEN copies[t][r] ELSE 1
        BY <1>5 DEF CopiesAfter
    <2>2. OldAfter(t, rs) = old[t]
        BY <1>5 DEF OldAfter
    <2> QED
        BY <1>1, <1>5, <2>1, <2>2 DEF OnTarget
<1>6. ~Plain(t) => job.conflict # "truncate"
    BY DEF Plain
<1> QED
    BY <1>1, <1>2, <1>3, <1>4, <1>5, <1>6

LEMMA WritePageKeeps ==
    ASSUME CopyInv, WritePage
    PROVE  CopyInv'
<1> USE DEF CopyInv
<1> DEFINE rs == Range(page)
           m == Len(page)
<1>1. /\ UNCHANGED <<job, source, writes, before, order, queue, cur, page, report, stable, touched, refused>>
      /\ pc = "write" /\ copied' = copied + m /\ last' = page[m] /\ offset' = offset + m
      /\ pc' = IF m < Batch THEN "count" ELSE "read"
      /\ copies' = [copies EXCEPT ![cur] = [r \in Rows |-> CopiesAfter(cur, rs, r)]]
      /\ old' = [old EXCEPT ![cur] = OldAfter(cur, rs)]
    BY DEF WritePage, AfterPage
<1>2. Busy /\ Moving
    BY <1>1 DEF Busy, Moving
<1>3. /\ cur \in Tables /\ copies[cur] \in [Rows -> Nat] /\ old[cur] \subseteq Rows
      /\ page \in Seq(Rows) /\ m \in Nat /\ job \in Jobs /\ Rows \subseteq Nat
    BY <1>2, Bounds DEF Typed
<1>4. CopyingTable(cur) /\ PageFits(cur)
    BY <1>1, <1>2
<1>5. m \in 1..m /\ rs \subseteq Rows /\ page[m] \in Rows /\ page[m] \in Nat
    <2>1. m # 0
        BY <1>3, <1>4 DEF PageFits
    <2>2. m \in 1..m /\ DOMAIN page = 1..m
        BY <1>3, <2>1
    <2>3. page[m] \in Rows
        BY <1>3, <2>2
    <2>4. rs \subseteq Rows
        BY <1>3 DEF Range
    <2> QED
        BY <1>3, <2>2, <2>3, <2>4
<1> HIDE DEF rs
<1>6. /\ \A r \in Rows : copies'[cur][r] = CopiesAfter(cur, rs, r)
      /\ old'[cur] = OldAfter(cur, rs)
      /\ \A t \in Tables \ {cur} : old'[t] = old[t] /\ copies'[t] = copies[t] /\ stable'[t] = stable[t]
    BY <1>1, <1>3 DEF Typed
<1>7. ASSUME NEW r \in Rows
      PROVE  /\ copies'[cur][r] \in Nat
             /\ r \notin rs => copies'[cur][r] = copies[cur][r]
             /\ r \in rs /\ copies[cur][r] = 0 => copies'[cur][r] <= 1
             /\ r \in rs => OnTarget(cur, r)'
             /\ r \in rs /\ job.conflict = "truncate" => copies'[cur][r] = copies[cur][r] + 1
             /\ r \notin rs /\ OnTarget(cur, r) => OnTarget(cur, r)'
    <2>1. OnTarget(cur, r)' <=> r \in old'[cur] \/ copies'[cur][r] > 0
        BY <1>1 DEF OnTarget
    <2>2. copies'[cur][r] = CopiesAfter(cur, rs, r)
        BY <1>6
    <2> QED
        BY <1>3, <1>6, <2>1, <2>2, BatchFacts DEF OnTarget
<1>8. Typed'
    <2>1. [r \in Rows |-> CopiesAfter(cur, rs, r)] \in [Rows -> Nat]
        BY <1>6, <1>7
    <2>2. OldAfter(cur, rs) \subseteq Rows
        BY <1>3 DEF OldAfter
    <2>3. copies' \in [Tables -> [Rows -> Nat]]
        BY <1>1, <1>3, <2>1 DEF Typed
    <2>4. old' \in [Tables -> SUBSET Rows]
        BY <1>1, <1>3, <2>2 DEF Typed
    <2>5. copied' \in Nat /\ last' \in Nat /\ offset' \in Nat
        BY <1>1, <1>3, <1>5 DEF Typed
    <2>6. pc' \in {"read", "count"}
        BY <1>1
    <2> QED
        BY <1>1, <1>2, <2>3, <2>4, <2>5, <2>6 DEF Typed, Busy, PcValues
<1>9. Saved'
    BY <1>1 DEF Saved, HadRows, Zero
<1>10. /\ Passed(cur)' = PassedNext(cur)
       /\ Followed(cur)' <=> Followed(cur)
       /\ Keyset(cur)' <=> Keyset(cur)
    BY <1>1 DEF Passed, PassedNext, Keyset, Followed, FirstRows, Upto
<1>11. Followed(cur) => rs \cap Copied(cur) = {}
    BY <1>4 DEF CopyingTable, Reached, PageFits, rs
<1>12. ASSUME Followed(cur), NEW r \in Rows PROVE copies'[cur][r] <= 1
    <2>1. copies[cur][r] <= 1
        BY <1>3, <1>12 DEF Settled, Exact
    <2>2. r \in rs => copies[cur][r] = 0
        BY <1>3, <1>11, <1>12 DEF Copied
    <2> QED
        BY <1>7, <2>1, <2>2
<1>13. Copied(cur)' = {r \in Rows : copies'[cur][r] > 0}
    BY <1>1 DEF Copied
<1>14. Copied(cur)' \subseteq Copied(cur) \cup rs
    BY <1>7, <1>13 DEF Copied
<1>15. Reached(cur)'
    <2> SUFFICES ASSUME Followed(cur) PROVE Reached(cur)'
        BY <1>10 DEF Reached
    <2>1. Copied(cur)' \subseteq Passed(cur)'
        BY <1>4, <1>10, <1>14 DEF CopyingTable, Reached, PageFits, rs
    <2>2. ASSUME NEW r \in stable[cur] \cap PassedNext(cur) PROVE OnTarget(cur, r)'
        <3>1. r \in Rows
            BY <1>3 DEF Typed
        <3>2. CASE r \in rs
            BY <1>7, <3>1, <3>2
        <3>3. CASE r \notin rs
            <4>1. r \in Passed(cur)
                BY <1>4, <3>3 DEF PageFits, rs
            <4>2. OnTarget(cur, r)
                BY <1>4, <4>1 DEF CopyingTable, Reached
            <4> QED
                BY <1>7, <3>1, <3>3, <4>2
        <3> QED
            BY <3>2, <3>3
    <2>3. pc' = "count" => stable[cur] \subseteq PassedNext(cur)
        BY <1>1, <1>4 DEF PageFits
    <2>4. ~Keyset(cur) => offset' <= Len(source[cur])
        BY <1>1, <1>4 DEF PageFits
    <2>5. cur \notin touched => Copied(cur)' \subseteq Range(source[cur])
        BY <1>4, <1>14 DEF CopyingTable, Reached, PageFits, rs
    <2> QED
        BY <1>1, <1>10, <2>1, <2>2, <2>3, <2>4, <2>5 DEF Reached
<1>16. ASSUME job.conflict = "truncate"
       PROVE  old'[cur] = {} /\ (cur \notin touched => copied' = Cardinality(Copied(cur)'))
    <2>1. old'[cur] = {}
        BY <1>4, <1>6, <1>16 DEF CopyingTable, OldAfter
    <2>2. ASSUME cur \notin touched PROVE copied' = Cardinality(Copied(cur)')
        <3>1. Copied(cur)' = Copied(cur) \cup rs
            <4>1. ASSUME NEW r \in Rows PROVE r \in Copied(cur)' <=> r \in Copied(cur) \/ r \in rs
                BY <1>3, <1>7, <1>13, <1>16 DEF Copied
            <4> QED
                BY <1>5, <1>13, <4>1 DEF Copied
        <3>2. Copied(cur) \cap rs = {}
            BY <1>11, <2>2 DEF Followed
        <3>3. IsFiniteSet(rs) /\ Cardinality(rs) = m
            BY <1>3, <1>4, AsLong DEF PageFits, rs
        <3>4. IsFiniteSet(Copied(cur))
            BY Bounds, FS_Subset DEF Copied
        <3>5. Cardinality(Copied(cur) \cup rs) = Cardinality(Copied(cur)) + Cardinality(rs)
            <4>1. Cardinality(Copied(cur) \cap rs) = 0
                BY <3>2, FS_EmptySet
            <4>2. Cardinality(Copied(cur)) \in Nat /\ Cardinality(rs) \in Nat
                BY <3>3, <3>4, FS_CardinalityType
            <4>3. Cardinality(Copied(cur) \cup rs)
                      = Cardinality(Copied(cur)) + Cardinality(rs) - Cardinality(Copied(cur) \cap rs)
                BY <3>3, <3>4, FS_Union
            <4> QED
                BY <4>1, <4>2, <4>3
        <3>6. copied = Cardinality(Copied(cur))
            BY <1>4, <1>16, <2>2 DEF CopyingTable
        <3> QED
            BY <1>1, <3>1, <3>3, <3>5, <3>6
    <2> QED
        BY <2>1, <2>2
<1>17. CopyingTable(cur)'
    BY <1>1, <1>4, <1>15, <1>16 DEF CopyingTable
<1>18. pc' # "write" /\ pc' \in {"read", "count"}
    BY <1>1
<1> QED
    BY <1>1, <1>2, <1>4, <1>6, <1>8, <1>9, <1>12, <1>17, <1>18, CopyStepKeeps DEF CopyingTable

-----------------------------------------------------------------------------
(* The source changes                                                      *)

\* A part of a sequence without repetitions has none.
LEMMA PartOf ==
    ASSUME NEW U, NEW s \in Seq(U), IsInjective(s),
           NEW i \in 1..(Len(s) + 1), NEW j \in 0..Len(s), i <= j + 1
    PROVE  /\ SubSeq(s, i, j) \in Seq(U) /\ IsInjective(SubSeq(s, i, j))
           /\ \A r \in Range(SubSeq(s, i, j)) : \E k \in i..j : k \in DOMAIN s /\ s[k] = r
<1> DEFINE p == SubSeq(s, i, j)
<1>1. Len(s) \in Nat /\ DOMAIN s = 1..Len(s) /\ i \in Nat /\ 1 <= i /\ j \in Nat /\ j <= Len(s)
    OBVIOUS
<1>2. p \in Seq(U) /\ Len(p) = j + 1 - i /\ \A k \in 1..Len(p) : p[k] = s[i + k - 1]
    BY <1>1
<1> HIDE DEF p
<1>3. Len(p) \in Nat /\ DOMAIN p = 1..Len(p)
    BY <1>2
<1>4. ASSUME NEW k \in 1..Len(p) PROVE i + k - 1 \in i..j /\ i + k - 1 \in DOMAIN s
    <2>1. k \in Nat /\ 1 <= k /\ k <= j + 1 - i
        BY <1>2, <1>3
    <2> QED
        BY <1>1, <2>1
<1>5. ASSUME NEW k \in 1..Len(p), NEW l \in 1..Len(p), p[k] = p[l] PROVE k = l
    <2>1. i + k - 1 = i + l - 1
        BY <1>2, <1>4, <1>5 DEF IsInjective
    <2> QED
        BY <1>1, <1>3, <2>1
<1>6. IsInjective(p)
    BY <1>3, <1>5 DEF IsInjective
<1>7. \A r \in Range(p) : \E k \in i..j : k \in DOMAIN s /\ s[k] = r
    BY <1>2, <1>3, <1>4 DEF Range
<1> QED
    BY <1>2, <1>6, <1>7 DEF p

\* Two parts that do not overlap have nothing in common.
LEMMA Apart ==
    ASSUME NEW U, NEW s \in Seq(U), IsInjective(s),
           NEW i \in 1..(Len(s) + 1), NEW k \in {i, i + 1}, k <= Len(s) + 1
    PROVE  /\ SubSeq(s, 1, i - 1) \in Seq(U) /\ IsInjective(SubSeq(s, 1, i - 1))
           /\ SubSeq(s, k, Len(s)) \in Seq(U) /\ IsInjective(SubSeq(s, k, Len(s)))
           /\ Range(SubSeq(s, 1, i - 1)) \cup Range(SubSeq(s, k, Len(s))) \subseteq Range(s)
           /\ Range(SubSeq(s, 1, i - 1)) \cap Range(SubSeq(s, k, Len(s))) = {}
<1> DEFINE p == SubSeq(s, 1, i - 1)
           q == SubSeq(s, k, Len(s))
<1>1. /\ Len(s) \in Nat /\ 1 \in 1..(Len(s) + 1) /\ i - 1 \in 0..Len(s) /\ 1 <= (i - 1) + 1
      /\ k \in 1..(Len(s) + 1) /\ Len(s) \in 0..Len(s) /\ k <= Len(s) + 1 /\ i \in Nat /\ k \in Nat
    OBVIOUS
<1>2. /\ p \in Seq(U) /\ IsInjective(p)
      /\ \A r \in Range(p) : \E l \in 1..(i - 1) : l \in DOMAIN s /\ s[l] = r
    BY <1>1, PartOf
<1>3. /\ q \in Seq(U) /\ IsInjective(q)
      /\ \A r \in Range(q) : \E l \in k..Len(s) : l \in DOMAIN s /\ s[l] = r
    BY <1>1, PartOf
<1> HIDE DEF p, q
<1>4. Range(p) \cup Range(q) \subseteq Range(s)
    BY <1>2, <1>3 DEF Range
<1>5. ASSUME NEW r \in Range(p), r \in Range(q) PROVE FALSE
    <2>1. PICK l \in 1..(i - 1) : l \in DOMAIN s /\ s[l] = r
        BY <1>2
    <2>2. PICK n \in k..Len(s) : n \in DOMAIN s /\ s[n] = r
        BY <1>3, <1>5
    <2>3. l # n
        BY <1>1
    <2> QED
        BY <2>1, <2>2, <2>3 DEF IsInjective
<1> QED
    BY <1>2, <1>3, <1>4, <1>5 DEF p, q

LEMMA Removed ==
    ASSUME NEW U, NEW s \in Seq(U), IsInjective(s), NEW i \in DOMAIN s
    PROVE  RemoveAt(s, i) \in Seq(U) /\ IsInjective(RemoveAt(s, i))
<1>1. i \in 1..(Len(s) + 1) /\ i + 1 <= Len(s) + 1 /\ i + 1 \in {i, i + 1}
    OBVIOUS
<1> QED
    BY <1>1, Apart, Concatenated DEF RemoveAt

LEMMA Inserted ==
    ASSUME NEW U, NEW s \in Seq(U), IsInjective(s), NEW i \in 1..(Len(s) + 1),
           NEW r \in U, r \notin Range(s)
    PROVE  InsertAt(s, i, r) \in Seq(U) /\ IsInjective(InsertAt(s, i, r))
<1> DEFINE p == SubSeq(s, 1, i - 1)
           q == SubSeq(s, i, Len(s))
           one == <<r>>
<1>1. i <= Len(s) + 1 /\ i \in {i, i + 1}
    OBVIOUS
<1>2. /\ p \in Seq(U) /\ IsInjective(p) /\ q \in Seq(U) /\ IsInjective(q)
      /\ Range(p) \cup Range(q) \subseteq Range(s) /\ Range(p) \cap Range(q) = {}
    BY <1>1, Apart
<1>3. one \in Seq(U) /\ IsInjective(one) /\ Range(one) = {r}
    BY DEF IsInjective, Range
<1> HIDE DEF p, q, one
<1>4. Range(p) \cap Range(one) = {}
    BY <1>2, <1>3
<1>5. p \o one \in Seq(U) /\ IsInjective(p \o one) /\ Range(p \o one) = Range(p) \cup {r}
    BY <1>2, <1>3, <1>4, Concatenated
<1>6. Range(p \o one) \cap Range(q) = {}
    BY <1>2, <1>5
<1>7. (p \o one) \o q \in Seq(U) /\ IsInjective((p \o one) \o q)
    BY <1>2, <1>5, <1>6, Concatenated
<1>8. InsertAt(s, i, r) = (p \o one) \o q
    BY DEF InsertAt, p, q, one
<1> QED
    BY <1>7, <1>8

LEMMA SourceWriteKeeps ==
    ASSUME CopyInv, NEW s \in Tables, NEW rows \in Seq(Rows), IsInjective(rows), SourceWrite(s, rows)
    PROVE  CopyInv'
<1> USE DEF CopyInv
<1>1. /\ UNCHANGED <<job, old, copies, before, pc, order, queue, cur, last, offset, page, copied,
                     report, refused>>
      /\ writes' = writes + 1
      /\ source' = [source EXCEPT ![s] = rows]
      /\ stable' = [stable EXCEPT ![s] = IF Copying(s) THEN stable[s] \cap Range(rows) ELSE stable[s]]
      /\ touched' = IF Copying(s) THEN touched \cup {s} ELSE touched
    BY DEF SourceWrite, target, paging
<1>2. writes \in Nat /\ writes' \in Nat /\ writes' # 0 /\ writes' > 0
    BY <1>1 DEF Typed
<1>3. /\ source'[s] = rows /\ \A t \in Tables \ {s} : source'[t] = source[t]
      /\ stable'[s] = IF Copying(s) THEN stable[s] \cap Range(rows) ELSE stable[s]
      /\ \A t \in Tables \ {s} : stable'[t] = stable[t]
    BY <1>1 DEF Typed
<1>4. Typed'
    <2>1. source' \in [Tables -> Seq(Rows)]
        BY <1>1 DEF Typed
    <2>2. stable' \in [Tables -> SUBSET Rows]
        BY <1>1 DEF Typed
    <2>3. touched' \subseteq Tables
        BY <1>1 DEF Typed
    <2> QED
        BY <1>1, <1>2, <1>3, <2>1, <2>2, <2>3 DEF Typed, Busy
<1>5. Queued'
    BY <1>1 DEF Queued, Taken, Busy
<1>6. Saved' /\ Unwritten'
    BY <1>1, <1>2 DEF Saved, Unwritten, HadRows, Zero
<1>7. OrderKeepsInsertsValid'
    BY <1>1, <1>2, InsertsStayValid DEF Typed
<1>8. Copying(s) => Moving /\ s = cur /\ Busy
    BY DEF Copying, Moving, Busy
<1>9. ASSUME NEW t \in Tables PROVE Settled(t)'
    <2>1. Waiting(t)' => Waiting(t)
        BY <1>1 DEF Waiting
    <2>2. CASE ~(t = s /\ Copying(s))
        <3>1. stable'[t] = stable[t] /\ ((t \in touched') <=> (t \in touched))
            BY <1>1, <1>3, <2>2
        <3> QED
            BY <1>1, <1>2, <2>1, <3>1, Undisturbed DEF SameTable
    <2>3. CASE t = s /\ Copying(s)
        <3>1. report'[t].status = "none" /\ touched \subseteq touched'
            BY <1>1, <1>8, <2>3 DEF CopyingTable
        <3>2. ~Waiting(t)'
            BY <1>1, <1>8, <2>3, CurrentFacts DEF Waiting, Copying
        <3>3. Exact(t)'
            BY <1>1, <3>1 DEF Settled, Exact, Followed, Keyset
        <3> QED
            BY <3>1, <3>2, <3>3 DEF Settled, Atomic, AddsUp
    <2> QED
        BY <2>2, <2>3
<1>10. ASSUME Moving PROVE CopyingTable(cur)' /\ (pc = "write" => PageFits(cur)')
    <2>1. CopyingTable(cur) /\ (pc = "write" => PageFits(cur)) /\ cur \in Tables
        BY <1>10 DEF Typed, Busy, Moving
    <2>2. CASE cur # s
        <3>1. /\ source'[cur] = source[cur] /\ stable'[cur] = stable[cur]
              /\ (cur \in touched') <=> (cur \in touched)
            BY <1>1, <1>3, <1>8, <2>1, <2>2
        <3>2. /\ Passed(cur)' = Passed(cur) /\ PassedNext(cur)' = PassedNext(cur)
              /\ Copied(cur)' = Copied(cur)
            <4>1. /\ FirstRows(cur, offset)' = FirstRows(cur, offset)
                  /\ FirstRows(cur, offset + Len(page))' = FirstRows(cur, offset + Len(page))
                BY <1>1, <3>1 DEF FirstRows
            <4>2. Copied(cur)' = Copied(cur)
                BY <1>1 DEF Copied
            <4> QED
                BY <1>1, <4>1, <4>2 DEF Passed, PassedNext, Keyset, Upto
        <3>3. (Keyset(cur)' <=> Keyset(cur)) /\ (Followed(cur)' <=> Followed(cur))
            BY <1>1, <3>1 DEF Keyset, Followed
        <3>4. \A r : OnTarget(cur, r)' <=> OnTarget(cur, r)
            BY <1>1 DEF OnTarget
        <3>5. Reached(cur)'
            BY <1>1, <2>1, <3>1, <3>2, <3>3, <3>4 DEF CopyingTable, Reached
        <3>6. CopyingTable(cur)'
            BY <1>1, <2>1, <3>1, <3>2, <3>5 DEF CopyingTable
        <3>7. pc = "write" => PageFits(cur)'
            BY <1>1, <2>1, <3>1, <3>2, <3>3 DEF PageFits
        <3> QED
            BY <3>6, <3>7
    <2>3. CASE cur = s
        <3>1. Copying(s) /\ cur \in touched'
            BY <1>1, <1>10, <2>3 DEF Copying, Moving
        <3>2. /\ stable'[cur] \subseteq stable[cur] /\ stable'[cur] \subseteq Range(source'[cur])
            BY <1>3, <2>3, <3>1
        <3>3. Followed(cur)' => Keyset(cur) /\ Followed(cur)
            BY <1>1, <3>1 DEF Followed, Keyset
        <3>4. Keyset(cur) => Passed(cur)' = Passed(cur) /\ PassedNext(cur)' = PassedNext(cur)
            BY <1>1 DEF Passed, PassedNext, Keyset, Upto
        <3>5. Copied(cur)' = Copied(cur) /\ (Keyset(cur)' <=> Keyset(cur))
            BY <1>1 DEF Copied, Keyset
        <3>6. \A r : OnTarget(cur, r)' <=> OnTarget(cur, r)
            BY <1>1 DEF OnTarget
        <3>7. Reached(cur)'
            BY <1>1, <2>1, <3>1, <3>2, <3>3, <3>4, <3>5, <3>6 DEF CopyingTable, Reached
        <3>8. CopyingTable(cur)'
            BY <1>1, <2>1, <3>1, <3>2, <3>7 DEF CopyingTable
        <3>9. pc = "write" => PageFits(cur)'
            BY <1>1, <2>1, <3>1, <3>2, <3>3, <3>4, <3>5 DEF PageFits
        <3> QED
            BY <3>8, <3>9
    <2> QED
        BY <2>2, <2>3
<1> QED
    BY <1>1, <1>4, <1>5, <1>6, <1>7, <1>9, <1>10 DEF Moving

LEMMA SourceStepKeeps ==
    ASSUME CopyInv, SourceStep
    PROVE  CopyInv'
<1>1. PICK s \in Tables :
          \/ \E i \in DOMAIN source[s] : SourceDelete(s, i)
          \/ \E i \in 1..(Len(source[s]) + 1), r \in Rows : SourceInsert(s, i, r)
    BY DEF SourceStep
<1>2. source[s] \in Seq(Rows) /\ IsInjective(source[s])
    BY DEF CopyInv, Typed
<1>3. CASE \E i \in DOMAIN source[s] : SourceDelete(s, i)
    <2>1. PICK i \in DOMAIN source[s] : SourceWrite(s, RemoveAt(source[s], i))
        BY <1>3 DEF SourceDelete
    <2>2. RemoveAt(source[s], i) \in Seq(Rows) /\ IsInjective(RemoveAt(source[s], i))
        BY <1>2, Removed
    <2> QED
        BY <2>1, <2>2, SourceWriteKeeps
<1>4. CASE \E i \in 1..(Len(source[s]) + 1), r \in Rows : SourceInsert(s, i, r)
    <2>1. PICK i \in 1..(Len(source[s]) + 1), r \in Rows :
              r \notin Range(source[s]) /\ SourceWrite(s, InsertAt(source[s], i, r))
        BY <1>4 DEF SourceInsert
    <2>2. InsertAt(source[s], i, r) \in Seq(Rows) /\ IsInjective(InsertAt(source[s], i, r))
        BY <1>2, <2>1, Inserted
    <2> QED
        BY <2>1, <2>2, SourceWriteKeeps
<1> QED
    BY <1>1, <1>3, <1>4

-----------------------------------------------------------------------------
(* The theorems                                                            *)

LEMMA CopyInductive == Spec => []CopyInv
<1>1. ASSUME CopyInv, [Next]_vars PROVE CopyInv'
    <2>1. CASE GatePasses \/ GateBlocks \/ StartFails \/ InvalidName \/ Finish
        <3>1. Marches
            BY <2>1 DEF Marches, GatePasses, GateBlocks, StartFails, InvalidName, Finish
        <3> QED
            BY <1>1, <3>1, MarchKeeps
    <2>2. CASE Start
        BY <1>1, <2>2, StartKeeps
    <2>3. CASE NextTable
        BY <1>1, <2>3, NextTableKeeps
    <2>4. CASE CreateFails
        BY <1>1, <2>4, CreateFailsKeeps
    <2>5. CASE EmptyTable
        BY <1>1, <2>5, EmptyTableKeeps
    <2>6. CASE EmptyTableFails
        BY <1>1, <2>6, EmptyTableFailsKeeps
    <2>7. CASE ReadPage
        BY <1>1, <2>7, ReadPageKeeps
    <2>8. CASE WritePage
        BY <1>1, <2>8, WritePageKeeps
    <2>9. CASE CopyFails
        BY <1>1, <2>9, CopyFailsKeepsInv
    <2>10. CASE CountRows
        BY <1>1, <2>10, CountRowsKeeps
    <2>11. CASE CountFails
        BY <1>1, <2>11, CountFailsKeeps
    <2>12. CASE SourceStep
        BY <1>1, <2>12, SourceStepKeeps
    <2>13. CASE UNCHANGED vars
        BY <1>1, <2>13, StutterKeeps
    <2> QED
        BY <1>1, <2>1, <2>2, <2>3, <2>4, <2>5, <2>6, <2>7, <2>8, <2>9, <2>10, <2>11, <2>12, <2>13
        DEF Next, RunStep, Ended
<1> QED
    BY <1>1, InitCopy, PTL DEF Spec

\* A table reported as done that only the run wrote to, or that was paged by its
\* key, has every row the source had throughout, each once; and in truncate mode
\* the counts reported of a table nobody changed are those of the source and of
\* the target (copyTable, copyViaKeyset, copyViaOffset and the counts of runJob).
THEOREM CopiesHold == Spec => []ReportHolds
<1>1. CopyInv => ReportHolds
    BY DEF CopyInv, Settled, Exact, AddsUp, ReportHolds, CopyExact, ReportAddsUp
<1> QED
    BY <1>1, CopyInductive, PTL

\* Where a table is copied in one transaction, one that failed has none of the
\* copy, and outside truncate mode what it had before; or every row was copied
\* before the count that failed, if it was paged by its key or nobody changed it
\* meanwhile (the drivers of SQL Server and Oracle).
THEOREM FailuresAtomic == Spec => []FailedCopyAtomic
<1>1. CopyInv => FailedCopyAtomic
    BY DEF CopyInv, Settled, Atomic, FailedCopyAtomic
<1> QED
    BY <1>1, CopyInductive, PTL

\* The tables are copied in an order that has a table after the parents it
\* references, unless it is in or behind a cycle of foreign keys; so, while the
\* source is only read, no insert is refused for a parent that is still to come
\* (topoOrder and runJob).
THEOREM OrderHolds == Spec => []TablesInOrder
<1>1. ASSUME CopyInv PROVE TablesInOrder
    <2>1. ParentsFirst
        BY <1>1, OrderFacts DEF CopyInv, ParentsFirst
    <2> QED
        BY <1>1, <2>1 DEF CopyInv, TablesInOrder
<1> QED
    BY <1>1, CopyInductive, PTL

\* A row the target had is still there, or there again, after a step.
LEMMA KeptByStep ==
    ASSUME CopyInv, ExistingRowsKept, [Next]_vars
    PROVE  ExistingRowsKept'
<1> USE DEF CopyInv
<1>1. job' = job
    BY DEF Next, vars, RunStep, Ended, GatePasses, GateBlocks, Start, StartFails, NextTable, CreateFails,
           InvalidName, Finish, EmptyTable, EmptyTableFails, ReadPage, WritePage, CopyFails, CountRows,
           CountFails, SourceStep, SourceDelete, SourceInsert, SourceWrite
<1> SUFFICES ASSUME job.conflict # "truncate", NEW t \in Tables, NEW r \in HadRows(t)
             PROVE  r \in old'[t] \/ copies'[t][r] > 0
    BY <1>1 DEF ExistingRowsKept, HadRows, OnTarget
<1>2. r \in Rows /\ OnTarget(t, r)
    BY SourceFacts DEF ExistingRowsKept
<1>3. CASE UNCHANGED <<old, copies>>
    BY <1>2, <1>3 DEF OnTarget
<1>4. CASE WritePage
    <2>1. cur \in Tables
        BY <1>4 DEF WritePage, Typed, Busy
    <2>2. /\ t # cur => old'[t] = old[t] /\ copies'[t] = copies[t]
          /\ t = cur => /\ old'[t] = OldAfter(t, Range(page))
                        /\ copies'[t][r] = CopiesAfter(t, Range(page), r)
        BY <1>2, <1>4, <2>1 DEF WritePage, Typed
    <2>3. CASE t = cur
        <3>1. r \in OldAfter(t, Range(page)) \/ CopiesAfter(t, Range(page), r) > 0
            BY <1>2, BatchFacts DEF OnTarget, Typed
        <3> QED
            BY <2>2, <2>3, <3>1
    <2>4. CASE t # cur
        BY <1>2, <2>2, <2>4 DEF OnTarget
    <2> QED
        BY <2>3, <2>4
<1>5. CASE CopyFails /\ OneTransaction
    <2>1. cur \in Tables /\ before.old = HadRows(cur)
        BY <1>5 DEF CopyFails, Typed, Busy, Saved
    <2>2. t = cur => old'[t] = before.old
        BY <1>5, <2>1 DEF CopyFails, Typed
    <2>3. t # cur => old'[t] = old[t] /\ copies'[t] = copies[t]
        BY <1>5, <2>1 DEF CopyFails, Typed
    <2> QED
        BY <1>2, <2>1, <2>2, <2>3 DEF OnTarget
<1>6. EmptyTable => UNCHANGED <<old, copies>>
    BY DEF EmptyTable
<1>7. WritePage \/ (CopyFails /\ OneTransaction) \/ UNCHANGED <<old, copies>>
    BY <1>6 DEF Next, vars, target, RunStep, Ended, GatePasses, GateBlocks, Start, StartFails, NextTable,
                CreateFails, InvalidName, Finish, EmptyTableFails, ReadPage, CopyFails, CountRows,
                CountFails, SourceStep, SourceDelete, SourceInsert, SourceWrite
<1> QED
    BY <1>3, <1>4, <1>5, <1>7

\* In skip and upsert mode a row the target had is there at every moment of the
\* run, replaced or not, whatever statement fails and whatever is rolled back
\* (copyTable of the four drivers).
THEOREM RowsKept == Spec => []ExistingRowsKept
<1>1. ASSUME Init PROVE ExistingRowsKept
    BY <1>1 DEF Init, ExistingRowsKept, HadRows, OnTarget
<1>2. CopyInv /\ ExistingRowsKept /\ [Next]_vars => ExistingRowsKept'
    BY KeptByStep
<1> QED
    BY <1>1, <1>2, CopyInductive, PTL DEF Spec

-----------------------------------------------------------------------------
(* The outcome                                                             *)

\* Unless an answer led away from a run, only the last run's events are read,
\* and that while the wizard shows the run.
OutcomeInv ==
    /\ runs \in Nat
    /\ ~moved => /\ streams \subseteq {runs}
                 /\ step # "run" => streams = {}
                 /\ dialog # NONE => step # "run"
                 /\ OutcomeOfLastRun

LEMMA OutcomeInit == WizardInit => OutcomeInv
BY DEF WizardInit, OutcomeInv, OutcomeOfLastRun

LEMMA OutcomeStep == OutcomeInv /\ [WizardNext]_wizardVars => OutcomeInv'
<1> SUFFICES ASSUME OutcomeInv, [WizardNext]_wizardVars PROVE OutcomeInv'
    OBVIOUS
<1> USE DEF OutcomeInv, OutcomeOfLastRun
<1>1. CASE SelectSource \/ SelectTarget
    BY <1>1 DEF SelectSource, SelectTarget, AtSelect, Edit, run
<1>2. CASE Preview \/ Validate \/ GenerateScript
    <2>1. ASSUME NEW k, NEW payload, Send(k, payload) PROVE OutcomeInv'
        BY <2>1 DEF Send, run, history
    <2> QED BY <1>2, <2>1 DEF Preview, Validate, GenerateScript
<1>3. CASE Configure
    BY <1>3 DEF Configure, AtConfigure, Edit, run
<1>4. CASE Back
    BY <1>4 DEF Back, run, history
<1>5. CASE AskRun
    BY <1>5 DEF AskRun, CanRun, AtValidate, run, history
<1>6. CASE Refuse
    BY <1>6 DEF Refuse, run, history
<1>7. CASE StartRun
    BY <1>7 DEF StartRun, history
<1>8. CASE Cancel
    BY <1>8 DEF Cancel, Quiet, history
<1>9. CASE Close
    BY <1>9 DEF Close
<1>10. CASE PlanArrives \/ ScriptArrives \/ ReportArrives
    BY <1>10 DEF PlanArrives, ScriptArrives, ReportArrives, Settle, run
<1>11. CASE \E k \in Kinds : CallFails(k)
    BY <1>11 DEF CallFails, run, history
<1>12. CASE \E n \in 1..MaxRuns : RunEnds(n)
    BY <1>12 DEF RunEnds, Quiet, history
<1>13. CASE \E n \in 1..MaxRuns : EndLost(n)
    BY <1>13 DEF EndLost, Quiet, history
<1>14. CASE UNCHANGED wizardVars
    BY <1>14 DEF wizardVars, run, history
<1> QED
    BY <1>1, <1>2, <1>3, <1>4, <1>5, <1>6, <1>7, <1>8, <1>9, <1>10, <1>11, <1>12, <1>13, <1>14
    DEF WizardNext, Press, Answer

\* setReport, setRunning: the outcome shown is that of the run started last, in
\* a wizard that no late answer has led away from a run that was going on.
THEOREM OutcomeShown == WizardSpec => []OutcomeOfLastRun
<1>1. OutcomeInv => OutcomeOfLastRun
    BY DEF OutcomeInv, OutcomeOfLastRun
<1> QED
    BY OutcomeInit, OutcomeStep, <1>1, PTL DEF WizardSpec

-----------------------------------------------------------------------------
(* What runs                                                               *)

Pair == [source |-> sourceId, target |-> targetId]

\* A dialog asks about what the report shown with it was made for.
DialogHolds ==
    dialog # NONE /\ ~dialog.late =>
        /\ dialog.report.proceed
        /\ Checked(dialog.report.of) = Checked(dialog.payload)
        /\ dialog.names = dialog.payload.target

\* Unless something was changed while a call was pending: calls and report are
\* about what is chosen now.  While the connections are being chosen, and
\* nothing asked about the last pair is pending, the plan may be older.
ChosenInv ==
    ~late => /\ Pending("plan") => call["plan"] = Pair
             /\ step # "select" \/ Pending("script") \/ Pending("validate") => plan = Pair
             /\ Pending("validate") => call["validate"] = Payload
             /\ step = "validate" => validationReport.of = Payload

ValidatedInv ==
    /\ runs \in Nat
    /\ DOMAIN call = Kinds
    /\ dialog # NONE => step # "select"
    /\ DialogHolds
    /\ ChosenInv

LEMMA ValidatedInit == WizardInit => ValidatedInv
BY DEF WizardInit, ValidatedInv, DialogHolds, ChosenInv, Pending, Kinds

\* A choice of connections: whoever waits for an answer is late.
LEMMA ValidatedSelect ==
    ASSUME ValidatedInv, SelectSource \/ SelectTarget
    PROVE  ValidatedInv'
BY DEF SelectSource, SelectTarget, AtSelect, Edit, AnyPending, Pending, Kinds, run, options, answers,
       ValidatedInv, DialogHolds, ChosenInv, Checked

\* Tables and options are chosen before the report is asked for.
LEMMA ValidatedConfigure ==
    ASSUME ValidatedInv, Configure
    PROVE  ValidatedInv'
BY DEF Configure, AtConfigure, Edit, AnyPending, Pending, Kinds, run, pair, answers, Pair,
       ValidatedInv, DialogHolds, ChosenInv, Checked

LEMMA ValidatedSend ==
    ASSUME ValidatedInv, Preview \/ Validate \/ GenerateScript
    PROVE  ValidatedInv'
<1> USE DEF Send, Pending, Kinds, run, pair, options, answers, history, Pair, Payload,
            ValidatedInv, DialogHolds, ChosenInv, Checked
<1>1. CASE Preview
    BY <1>1 DEF Preview, CanPreview, AtSelect
<1>2. CASE Validate
    BY <1>2 DEF Validate, CanSubmit, AtConfigure
<1>3. CASE GenerateScript
    BY <1>3 DEF GenerateScript, CanSubmit, AtConfigure, AtValidate
<1> QED
    BY <1>1, <1>2, <1>3

LEMMA ValidatedAnswer ==
    ASSUME ValidatedInv, Answer
    PROVE  ValidatedInv'
<1> USE DEF Settle, Pending, Kinds, run, pair, options, history, Pair, Payload,
            ValidatedInv, DialogHolds, ChosenInv, Checked
<1>1. CASE PlanArrives
    BY <1>1 DEF PlanArrives
<1>2. CASE ScriptArrives
    BY <1>2 DEF ScriptArrives
<1>3. CASE ReportArrives
    BY <1>3 DEF ReportArrives
<1>4. CASE \E k \in Kinds : CallFails(k)
    BY <1>4 DEF CallFails, answers
<1> QED
    BY <1>1, <1>2, <1>3, <1>4 DEF Answer

\* The dialog is opened over the report, for what is chosen now.
LEMMA ValidatedAsk ==
    ASSUME ValidatedInv, AskRun
    PROVE  ValidatedInv'
BY DEF AskRun, CanRun, AtValidate, Pending, run, pair, options, answers, history, Pair, Payload,
       ValidatedInv, DialogHolds, ChosenInv, Checked

LEMMA ValidatedStep == ValidatedInv /\ [WizardNext]_wizardVars => ValidatedInv'
<1> SUFFICES ASSUME ValidatedInv, [WizardNext]_wizardVars PROVE ValidatedInv'
    OBVIOUS
<1> USE DEF ValidatedInv, DialogHolds, ChosenInv, Checked, Pending, Pair, Payload
<1>1. CASE Back
    BY <1>1 DEF Back, run, pair, options, answers, history
<1>2. CASE Refuse
    BY <1>2 DEF Refuse, run, pair, options, answers, history
<1>3. CASE StartRun
    BY <1>3 DEF StartRun, pair, options, answers, history
<1>4. CASE Cancel
    BY <1>4 DEF Cancel, Quiet, pair, options, answers, history
<1>5. CASE Close
    BY <1>5 DEF Close, Kinds
<1>6. CASE \E n \in 1..MaxRuns : RunEnds(n) \/ EndLost(n)
    BY <1>6 DEF RunEnds, EndLost, Quiet, pair, options, answers, history
<1>7. CASE UNCHANGED wizardVars
    BY <1>7 DEF wizardVars, run, pair, options, answers, history
<1> QED
    BY <1>1, <1>2, <1>3, <1>4, <1>5, <1>6, <1>7, ValidatedSelect, ValidatedConfigure,
       ValidatedSend, ValidatedAnswer, ValidatedAsk
    DEF WizardNext, Press

\* handleRun(true): the server is told not to validate because a report says
\* proceed, made for exactly the tables, connections and mode that run,
\* provided neither the preview nor the validation was answered after the pair
\* had been changed.
THEOREM WhatRunsWasValidated == WizardSpec => RunWasValidated
<1>1. ValidatedInv /\ [WizardNext]_wizardVars => [runs' > runs /\ ~dialog.late =>
                                        /\ dialog.report.proceed
                                        /\ Checked(dialog.report.of) = Checked(dialog.payload)
                                        /\ dialog.names = dialog.payload.target]_wizardVars
    <2> SUFFICES ASSUME ValidatedInv, [WizardNext]_wizardVars, runs' > runs, ~dialog.late
                 PROVE  /\ dialog.report.proceed
                        /\ Checked(dialog.report.of) = Checked(dialog.payload)
                        /\ dialog.names = dialog.payload.target
        OBVIOUS
    <2>1. runs' # runs
        BY DEF ValidatedInv
    <2>2. StartRun
        <3>1. ASSUME NEW k, NEW payload, Send(k, payload) PROVE UNCHANGED runs
            BY <3>1 DEF Send, run
        <3> QED
            BY <2>1, <3>1 DEF WizardNext, Press, Answer, SelectSource, SelectTarget, Preview, Configure, Validate,
               GenerateScript, Back, AskRun, Refuse, Cancel, Close, PlanArrives, ScriptArrives, ReportArrives,
               CallFails, RunEnds, EndLost, Quiet, run, wizardVars
    <2> QED
        BY <2>2 DEF StartRun, ValidatedInv, DialogHolds
<1> QED
    BY ValidatedInit, ValidatedStep, <1>1, PTL DEF WizardSpec, RunWasValidated

-----------------------------------------------------------------------------
(* The validation: the plan                                                *)

\* A step of a upto, left out when it has no tables.
Step(action, tables) == IF tables = <<>> THEN <<>> ELSE <<[action |-> action, tables |-> tables]>>

OtherThanMigrate(action) == action # "migrate"

PlanOf(first, missing, second, lacking, parents, children) ==
    Step(first, missing) \o Step(second, lacking)
    \o <<[action |-> "migrate", tables |-> parents]>> \o Step("migrate", children)

LEMMA PlanMoves ==
    ASSUME NEW first, NEW second, OtherThanMigrate(first), OtherThanMigrate(second), NEW missing, NEW lacking,
           NEW parents, NEW children, IsList(parents), IsList(children)
    PROVE  Moves(PlanOf(first, missing, second, lacking, parents, children)) = parents \o children
<1> DEFINE U == Range(parents) \cup Range(children)
<1>0. parents \in Seq(U) /\ children \in Seq(U)
    BY DEF IsList
<1> HIDE DEF U
<1> DEFINE a == [action |-> first, tables |-> missing]
           b == [action |-> second, tables |-> lacking]
           m == [action |-> "migrate", tables |-> parents]
           c == [action |-> "migrate", tables |-> children]
           T == {a, b, m, c}
           p1 == Step(first, missing)
           p2 == p1 \o Step(second, lacking)
           p3 == p2 \o <<m>>
           p4 == p3 \o Step("migrate", children)
<1>1. Moved(a) = <<>> /\ Moved(b) = <<>> /\ Moved(m) = parents /\ Moved(c) = children
    BY DEF Moved, OtherThanMigrate
<1>2. Step(first, missing) \in {<<>>, <<a>>} /\ Step(second, lacking) \in {<<>>, <<b>>}
      /\ Step("migrate", children) = IF children = <<>> THEN <<>> ELSE <<c>>
    BY DEF Step
<1> HIDE DEF a, b, m, c, p1, p2, p3, p4
<1>3. \A x \in T : Moved(x) \in Seq(U)
    <2>1. Moved(a) \in Seq(U) /\ Moved(b) \in Seq(U) /\ Moved(m) \in Seq(U) /\ Moved(c) \in Seq(U)
        BY <1>0, <1>1
    <2> QED
        BY <2>1
<1>4. a \in T /\ b \in T /\ m \in T /\ c \in T
    OBVIOUS
<1> HIDE DEF T
<1>5. ASSUME NEW upto, NEW x \in T, upto \in Seq(T)
      PROVE  /\ upto \o <<x>> \in Seq(T) /\ upto \o <<>> = upto
             /\ Moves(upto \o <<x>>) = Moves(upto) \o Moved(x) /\ Moves(upto) \in Seq(U)
    <2>1. Moves(upto) \in Seq(U) /\ Moves(Append(upto, x)) = Moves(upto) \o Moved(x)
        BY <1>3, <1>5, MovesOne
    <2>2. Append(upto, x) = upto \o <<x>> /\ Append(upto, x) \in Seq(T) /\ upto \o <<>> = upto
        BY <1>5
    <2> QED
        BY <2>1, <2>2
<1>6. \A s \in Seq(U) : s \o <<>> = s /\ <<>> \o s = s
    OBVIOUS
<1> DEFINE p0 == <<>>
<1>7. p0 \in Seq(T) /\ Moves(p0) = <<>> /\ <<a>> = p0 \o <<a>> /\ <<>> \o <<>> = <<>>
    BY MovesNone
<1> HIDE DEF p0
<1>8. p1 \in Seq(T) /\ Moves(p1) = <<>>
    <2>1. CASE p1 = p0
        BY <1>7, <2>1
    <2>2. CASE p1 = p0 \o <<a>>
        <3>1. p0 \o <<a>> \in Seq(T) /\ Moves(p0 \o <<a>>) = Moves(p0) \o Moved(a)
            BY <1>4, <1>5, <1>7
        <3> QED
            BY <1>1, <1>7, <2>2, <3>1
    <2>3. p1 = <<>> \/ p1 = <<a>>
        BY <1>2 DEF p1
    <2> QED
        BY <1>7, <2>1, <2>2, <2>3 DEF p0
<1>9. p2 \in Seq(T) /\ Moves(p2) = <<>>
    <2>1. CASE p2 = p1 \o <<>>
        BY <1>4, <1>5, <1>8, <2>1
    <2>2. CASE p2 = p1 \o <<b>>
        <3>1. p1 \o <<b>> \in Seq(T) /\ Moves(p1 \o <<b>>) = Moves(p1) \o Moved(b)
            BY <1>4, <1>5, <1>8
        <3> QED
            BY <1>1, <1>7, <1>8, <2>2, <3>1
    <2>3. p2 = p1 \o <<>> \/ p2 = p1 \o <<b>>
        BY <1>2 DEF p2
    <2> QED
        BY <2>1, <2>2, <2>3
<1>10. p3 \in Seq(T) /\ Moves(p3) = parents
    <2>1. p3 = p2 \o <<m>>
        BY DEF p3
    <2>2. p2 \o <<m>> \in Seq(T) /\ Moves(p2 \o <<m>>) = Moves(p2) \o Moved(m)
        BY <1>4, <1>5, <1>9
    <2>3. <<>> \o parents = parents
        BY <1>0, <1>6
    <2> QED
        BY <1>1, <1>9, <2>1, <2>2, <2>3
<1>11. Moves(p4) = parents \o children
    <2>1. CASE children = <<>>
        <3>1. p4 = p3 \o <<>>
            BY <1>2, <2>1 DEF p4
        <3>2. p3 \o <<>> = p3
            BY <1>4, <1>5, <1>10
        <3>3. parents \o <<>> = parents
            BY <1>0, <1>6
        <3> QED
            BY <1>10, <2>1, <3>1, <3>2, <3>3
    <2>2. CASE children # <<>>
        <3>1. p4 = p3 \o <<c>>
            BY <1>2, <2>2 DEF p4
        <3>2. Moves(p3 \o <<c>>) = Moves(p3) \o Moved(c)
            BY <1>4, <1>5, <1>10
        <3> QED
            BY <1>1, <1>10, <3>1, <3>2
    <2> QED
        BY <2>1, <2>2
<1> QED
    <2>1. p4 = PlanOf(first, missing, second, lacking, parents, children)
        BY DEF p1, p2, p3, p4, m, PlanOf
    <2> QED
        BY <1>11, <2>1

-----------------------------------------------------------------------------
(* The orders of a report                                                  *)

OrdersOk(f, r) ==
    /\ ParentsFirstIn(r.order, f.tables, f.fks)
    /\ ParentsFirstIn(Moves(r.plan), f.tables, f.fks)
    /\ r.circular = Components(Range(f.tables), Refs(f.tables, f.fks), Range(f.tables))
OrdersInv == facts \in Scenarios /\ (phase = "reported" => OrdersOk(facts, validation))

\* Being behind another table, over any number of references, is reaching it.
LEMMA BehindReach ==
    ASSUME NEW t \in Range(facts.tables), NEW u \in Range(facts.tables), t # u, facts.tables \in Seq(Range(facts.tables))
    PROVE  Behind(t, u) <=> Reach(Range(facts.tables), Refs(facts.tables, facts.fks), t, u)
<1> DEFINE W == Range(facts.tables)
           D == Refs(facts.tables, facts.fks)
           refs(s) == Deps(s, facts.tables, facts.fks)
<1>1. \A w \in W : Range(D[w]) = refs(w) /\ refs(w) \subseteq W
    BY RefsFacts DEF Deps
<1>2. Behind(t, u) <=> \A S \in SUBSET W : (\A s \in S \cup {t} : refs(s) \subseteq S) => u \in S
    BY DEF Behind
<1> HIDE DEF W, D, refs
<1>3. ASSUME Behind(t, u), NEW S \in SUBSET W, t \in S, \A s \in S : Range(D[s]) \subseteq S PROVE u \in S
    <2>1. \A s \in S \cup {t} : refs(s) \subseteq S
        BY <1>1, <1>3
    <2> QED
        BY <1>2, <1>3, <2>1
<1>4. ASSUME Reach(W, D, t, u), NEW S \in SUBSET W, \A s \in S \cup {t} : refs(s) \subseteq S PROVE u \in S
    <2> DEFINE T == S \cup {t}
    <2>1. T \in SUBSET W /\ t \in T /\ \A s \in T : Range(D[s]) \subseteq T
        BY <1>1, <1>4 DEF W
    <2> HIDE DEF T
    <2>2. u \in T
        BY <1>4, <2>1 DEF Reach
    <2> QED
        BY <2>2 DEF T
<1>5. Behind(t, u) => Reach(W, D, t, u)
    BY <1>3 DEF Reach
<1>6. Reach(W, D, t, u) => Behind(t, u)
    BY <1>2, <1>4
<1> QED
    BY <1>5, <1>6 DEF W, D

LEMMA TablesKnown ==
    ASSUME facts \in Scenarios
    PROVE  facts.tables \in Seq(Range(facts.tables)) /\ IsInjective(facts.tables)
BY MigrationValidationAssumption DEF IsList

\* A report that is made has sound orders.
LEMMA ReportOrders ==
    ASSUME facts \in Scenarios, MakeReport
    PROVE  OrdersOk(facts, validation')
<1> DEFINE tables == facts.tables
           fks == facts.fks
           U == Range(tables)
           dep == AnalyzeDependencies(tables, fks)
           r == validation'
<1>1. tables \in Seq(U) /\ IsInjective(tables)
    BY TablesKnown
<1>2. r.order = dep.order /\ r.circular = dep.circular /\ r.plan = Plan
    BY Zenon DEF MakeReport, Dependencies
<1> HIDE DEF r
<1>3. /\ dep.order \in Seq(U) /\ IsInjective(dep.order) /\ ParentsFirstIn(dep.order, tables, fks)
      /\ dep.circular = Components(Range(tables), Refs(tables, fks), Range(tables))
      /\ dep.parents = [t \in Range(tables) |-> Deps(t, tables, fks)]
    BY <1>1, AnalysisSound
<1> DEFINE parents == Filter(dep.order, {t \in Range(dep.order) : dep.parents[t] = {}})
           children == Filter(dep.order, {t \in Range(dep.order) : dep.parents[t] # {}})
           missing == Filter(facts.tables, {t \in Range(facts.tables) : facts.tgt.up /\ ~InTarget(t)})
           lacking == Filter(facts.tables,
                          {issues[i].table : i \in {j \in DOMAIN issues : issues[j].code = "TARGET_COLUMN_MISSING"}})
<1>4. Plan = PlanOf("create", missing, "create columns", lacking, parents, children)
    BY Zenon DEF Plan, PlanOf, Step, Dependencies
<1> HIDE DEF dep, missing, lacking
<1>5. Range(dep.order) = Range(tables)
    BY <1>3 DEF ParentsFirstIn
<1>6. /\ parents = Filter(dep.order, {t \in Range(dep.order) : Deps(t, tables, fks) = {}})
      /\ children = Filter(dep.order, {t \in Range(dep.order) : Deps(t, tables, fks) # {}})
    <2>1. {t \in Range(dep.order) : dep.parents[t] = {}} = {t \in Range(dep.order) : Deps(t, tables, fks) = {}}
        BY <1>3, <1>5
    <2>2. {t \in Range(dep.order) : dep.parents[t] # {}} = {t \in Range(dep.order) : Deps(t, tables, fks) # {}}
        BY <1>3, <1>5
    <2> QED
        BY <2>1, <2>2
<1> HIDE DEF parents, children
<1>7. parents \in Seq(U) /\ children \in Seq(U) /\ ParentsFirstIn(parents \o children, tables, fks)
    BY <1>1, <1>3, <1>6, PartsSound
<1>8. Moves(Plan) = parents \o children
    <2>1. IsList(parents) /\ IsList(children)
        BY <1>7 DEF IsList, Range
    <2>2. OtherThanMigrate("create") /\ OtherThanMigrate("create columns")
        BY Zenon DEF OtherThanMigrate
    <2>3. ASSUME NEW a, NEW b, NEW x, NEW y, OtherThanMigrate(a), OtherThanMigrate(b)
          PROVE  Moves(PlanOf(a, x, b, y, parents, children)) = parents \o children
        BY <2>1, <2>3, PlanMoves
    <2> QED
        BY <1>4, <2>2, <2>3, Zenon
<1> QED
    BY <1>2, <1>3, <1>7, <1>8 DEF OrdersOk, r, tables, fks

\* After a phase comes another, and no report.
LEMMA NextPhase ==
    ASSUME NEW p \in Range(Phases), p # "report"
    PROVE  Phases[Position(p, Phases) + 1] \in Range(Phases) \ {"source"}
<1>1. DOMAIN Phases = 1..7 /\ Range(Phases) = {"source", "target", "schema", "data", "duplicates", "edge", "report"}
    BY DEF Phases, Range
<1>2. PICK n \in DOMAIN Phases : Phases[n] = p
    BY DEF Range
<1>3. Position(p, Phases) \in DOMAIN Phases /\ Phases[Position(p, Phases)] = p
    BY <1>2 DEF Position
<1>4. Position(p, Phases) \in 1..6
    BY <1>1, <1>3 DEF Phases
<1> QED
    BY <1>1, <1>4 DEF Phases

LEMMA OrdersStep ==
    ASSUME OrdersInv, [ValidationNext]_validationVars
    PROVE  OrdersInv'
<1> USE DEF OrdersInv
<1>1. "reported" \notin Range(Phases)
    BY DEF Phases, Range
<1>2. CASE Connect
    BY <1>2 DEF Connect
<1>3. CASE MakeReport
    <2>1. OrdersOk(facts, validation')
        BY <1>3, ReportOrders
    <2>2. facts' = facts
        BY <1>3 DEF MakeReport
    <2> QED
        BY <2>1, <2>2
<1>4. CASE Gate
    BY <1>4 DEF Gate
<1>5. ASSUME NEW p \in Range(Phases), Inspect(p) PROVE OrdersInv'
    <2>1. p # "report" /\ phase' = Phases[Position(p, Phases) + 1] /\ facts' = facts
        BY <1>5 DEF Inspect
    <2> QED
        BY <1>1, <2>1, NextPhase
<1>6. ASSUME NEW p \in Range(Phases), Throw(p) PROVE OrdersInv'
    BY <1>6 DEF Throw
<1>7. CASE UNCHANGED validationVars
    BY <1>7 DEF validationVars
<1> QED
    BY <1>2, <1>3, <1>4, <1>5, <1>6, <1>7 DEF ValidationNext

\* analyzeDependencies, phase11Plan: the order and the plan have every table
\* once, after those it refers to where that is possible, and the groups
\* reported as circular are exactly the tables that refer to each other.
THEOREM OrdersSound == ValidationSpec => []OrderSound
<1>1. ValidationInit => OrdersInv
    BY DEF ValidationInit, OrdersInv
<1>2. OrdersInv /\ [ValidationNext]_validationVars => OrdersInv'
    BY OrdersStep
<1>3. OrdersInv => OrderSound
    <2> SUFFICES ASSUME OrdersInv, phase = "reported" PROVE
            LET planned == FlattenSeq([i \in DOMAIN validation.plan |->
                               IF validation.plan[i].action = "migrate" THEN validation.plan[i].tables ELSE <<>>])
                mutual(t) == {u \in Range(facts.tables) : t = u \/ (Behind(t, u) /\ Behind(u, t))}
            IN /\ ParentsFirstIn(validation.order, facts.tables, facts.fks)
               /\ ParentsFirstIn(planned, facts.tables, facts.fks)
               /\ validation.circular = {g \in {mutual(t) : t \in Range(facts.tables)} : Cardinality(g) > 1}
        BY DEF OrderSound
    <2> DEFINE W == Range(facts.tables)
               D == Refs(facts.tables, facts.fks)
               mutual(t) == {u \in W : t = u \/ (Behind(t, u) /\ Behind(u, t))}
    <2>1. OrdersOk(facts, validation) /\ facts \in Scenarios
        BY DEF OrdersInv
    <2>2. \A t, u \in W : t # u => (Behind(t, u) <=> Reach(W, D, t, u))
        BY <2>1, TablesKnown, BehindReach
    <2> HIDE DEF W, D
    <2>3. \A t \in W : mutual(t) = Scc(W, D, t)
        BY <2>2, ReachSelf DEF Scc
    <2> HIDE DEF mutual
    <2>4. {g \in {mutual(t) : t \in W} : Cardinality(g) > 1} = Components(W, D, W)
        BY <2>3 DEF Components
    <2>5. validation.circular = {g \in {mutual(t) : t \in W} : Cardinality(g) > 1}
        BY <2>1, <2>4 DEF OrdersOk, W, D
    <2> QED
        BY <2>1, <2>5 DEF OrdersOk, Moves, Moved, mutual, W
<1> QED
    BY <1>1, <1>2, <1>3, PTL DEF ValidationSpec

-----------------------------------------------------------------------------
(* What the adapters report of a column                                    *)

\* Off MySQL no type is unsigned, and none lists its words.
Seen(engine, type) == IF engine = "mysql" THEN type ELSE [type EXCEPT !.unsigned = FALSE, !.enum = {}]

LEMMA TypeFacts ==
    ASSUME NEW engine, NEW type, IsType(engine, type)
    PROVE  type.base = Base(type.name) /\ type.len \in Nat /\ type.prec \in Nat /\ type.scale \in Nat
<1>1. type.base = [name |-> type.name, base |-> Base(type.name), len |-> type.len, prec |-> type.prec,
                   scale |-> type.scale, unsigned |-> type.unsigned, enum |-> type.enum].base
    BY Zenon DEF IsType
<1>2. type.base = Base(type.name)
    BY <1>1
<1> QED
    BY <1>2 DEF IsType

LEMMA SeenFacts ==
    ASSUME NEW engine, NEW type, IsType(engine, type)
    PROVE  /\ Seen(engine, type).name = type.name /\ Seen(engine, type).base = type.base
           /\ Seen(engine, type).len = type.len /\ Seen(engine, type).prec = type.prec
           /\ Seen(engine, type).scale = type.scale
           /\ engine = "mysql" => Seen(engine, type) = type
BY DEF IsType, Seen

LEMMA SeenUnsigned ==
    ASSUME NEW engine, NEW type, IsType(engine, type)
    PROVE  Seen(engine, type).unsigned \in {FALSE, type.unsigned}
BY DEF IsType, Seen

LEMMA ReportedFacts ==
    ASSUME NEW c, IsColumn(facts.engine, c), facts.engine \in Engines
    PROVE  LET r == Reported(c) IN
           /\ r.name = c.name /\ r.lower = c.lower /\ r.nullable = c.nullable /\ r.default = c.default /\ r.auto = c.auto
           /\ r.type = Seen(facts.engine, c.type)
<1> DEFINE r == Reported(c)
<1>1. CASE facts.engine = "mysql"
    <2>1. r = c
        BY <1>1 DEF Reported, MysqlColumn
    <2> QED
        BY <1>1, <2>1 DEF Seen
<1>2. CASE facts.engine = "postgres"
    <2>1. r = PostgresColumn(c)
        BY <1>2 DEF Reported
    <2> QED
        BY <1>2, <2>1 DEF PostgresColumn, IsColumn, IsType, Seen
<1>3. CASE facts.engine = "sqlserver"
    <2>1. r = SqlServerColumn(c)
        BY <1>3 DEF Reported
    <2> QED
        BY <1>3, <2>1 DEF SqlServerColumn, IsColumn, IsType, Seen
<1>4. CASE facts.engine = "oracle"
    <2>1. r = OracleColumn(c)
        BY <1>4 DEF Reported
    <2> QED
        BY <1>4, <2>1 DEF OracleColumn, IsColumn, IsType, Seen
<1> QED
    BY <1>1, <1>2, <1>3, <1>4 DEF Engines

-----------------------------------------------------------------------------
(* The values of a column                                                  *)

\* The values of a column of finitely many rows are finitely many.
LEMMA ValuesFinite ==
    ASSUME NEW rows, IsList(rows), NEW c
    PROVE  IsFiniteSet({r[c] : r \in Range(rows)} \ {NULL})
<1> DEFINE n == Len(rows)
           all == {r[c] : r \in Range(rows)}
           f == [i \in 1..n |-> rows[i][c]]
<1>1. n \in Nat /\ DOMAIN rows = 1..n
    BY DEF IsList
<1>2. f \in Surjection(1..n, all)
    BY <1>1 DEF Surjection, Range
<1>3. IsFiniteSet(1..n)
    BY <1>1, FS_Interval
<1> HIDE DEF f, all
<1>4. IsFiniteSet(all)
    BY <1>2, <1>3, FS_Surjection
<1>5. all \ {NULL} \in SUBSET all
    OBVIOUS
<1> QED
    BY <1>4, <1>5, FS_Subset DEF all

\* MAX of the lengths and of the numbers, as they are measured.
LEMMA MeasuredFacts ==
    ASSUME NEW db, NEW t, NEW c, IsList(db.tables[t].rows), \A r \in Range(db.tables[t].rows) : IsValue(r[c]),
           NEW row \in Range(db.tables[t].rows), row[c] # NULL
    PROVE  /\ MaxCharLength(db, t, c) # NULL /\ row[c].len <= MaxCharLength(db, t, c) /\ MaxCharLength(db, t, c) \in Int
           /\ MaxNumeric(db, t, c) # NULL /\ MaxNumeric(db, t, c) \in Int
           /\ ~row[c].neg => row[c].rank <= MaxNumeric(db, t, c)
<1> DEFINE V == Values(db, t, c)
           len == [v \in V |-> v.len]
           number == [v \in V |-> IF v.neg THEN -v.rank ELSE v.rank]
<1>1. IsFiniteSet(V)
    BY ValuesFinite DEF Values
<1>2. row[c] \in V /\ V # {}
    BY DEF Values
<1>3. \A v \in V : v.neg \in BOOLEAN /\ v.rank \in Nat /\ v.len \in Nat
    BY DEF Values, IsValue
<1>4. \A v \in V : len[v] \in Int /\ number[v] \in Int
    BY <1>3
<1>5. /\ MaxCharLength(db, t, c) = Max({len[v] : v \in V})
      /\ MaxNumeric(db, t, c) = Max({number[v] : v \in V})
    <2>1. {v.len : v \in V} = {len[v] : v \in V}
        OBVIOUS
    <2>2. {IF v.neg THEN -v.rank ELSE v.rank : v \in V} = {number[v] : v \in V}
        OBVIOUS
    <2> HIDE DEF len, number
    <2>3. MaxCharLength(db, t, c) = Max({v.len : v \in V})
        BY <1>2 DEF MaxCharLength
    <2>4. MaxNumeric(db, t, c) = Max({IF v.neg THEN -v.rank ELSE v.rank : v \in V})
        BY <1>2 DEF MaxNumeric
    <2> QED
        BY <2>1, <2>2, <2>3, <2>4
<1>6. len[row[c]] = row[c].len /\ (~row[c].neg => number[row[c]] = row[c].rank)
    BY <1>2
<1> HIDE DEF V, len, number
<1>7. Max({len[v] : v \in V}) \in Int /\ \A v \in V : len[v] <= Max({len[w] : w \in V})
    BY <1>1, <1>2, <1>4, GreatestOf
<1>8. Max({number[v] : v \in V}) \in Int /\ \A v \in V : number[v] <= Max({number[w] : w \in V})
    BY <1>1, <1>2, <1>4, GreatestOf
<1> QED
    BY <1>2, <1>5, <1>6, <1>7, <1>8, MigrationValidationAssumption

-----------------------------------------------------------------------------
(* Lists of issues                                                         *)

Grave(s) == \E i \in DOMAIN s : s[i].sev \in {"BLOCKER", "ERROR"}

LEMMA ListOf ==
    ASSUME NEW U, NEW s \in Seq(U)
    PROVE  IsList(s)
BY DEF IsList, Range

LEMMA GraveNone == IsList(<<>>) /\ ~Grave(<<>>)
BY DEF IsList, Grave

LEMMA GraveOne ==
    ASSUME NEW x
    PROVE  IsList(<<x>>) /\ (Grave(<<x>>) <=> x.sev \in {"BLOCKER", "ERROR"})
BY DEF IsList, Grave, Range

LEMMA GraveBoth ==
    ASSUME NEW a, NEW b, IsList(a), IsList(b)
    PROVE  IsList(a \o b) /\ (Grave(a \o b) <=> Grave(a) \/ Grave(b))
<1> DEFINE U == Range(a) \cup Range(b)
           whole == a \o b
<1>1. a \in Seq(U) /\ b \in Seq(U)
    BY DEF IsList
<1> HIDE DEF U
<1>2. /\ whole \in Seq(U) /\ Len(whole) = Len(a) + Len(b) /\ Len(a) \in Nat /\ Len(b) \in Nat
      /\ DOMAIN whole = 1..Len(whole) /\ DOMAIN a = 1..Len(a) /\ DOMAIN b = 1..Len(b)
      /\ \A i \in 1..Len(a) : whole[i] = a[i]
      /\ \A i \in 1..Len(b) : whole[Len(a) + i] = b[i]
      /\ \A i \in 1..Len(whole) : whole[i] = IF i <= Len(a) THEN a[i] ELSE b[i - Len(a)]
    BY <1>1
<1> HIDE DEF whole
<1>3. IsList(whole)
    BY <1>2, ListOf
<1>4. ASSUME Grave(a) PROVE Grave(whole)
    <2>1. PICK i \in DOMAIN a : a[i].sev \in {"BLOCKER", "ERROR"}
        BY <1>4 DEF Grave
    <2>2. i \in DOMAIN whole /\ whole[i] = a[i]
        BY <1>2
    <2> QED
        BY <2>1, <2>2 DEF Grave
<1>5. ASSUME Grave(b) PROVE Grave(whole)
    <2>1. PICK i \in DOMAIN b : b[i].sev \in {"BLOCKER", "ERROR"}
        BY <1>5 DEF Grave
    <2>2. Len(a) + i \in DOMAIN whole /\ whole[Len(a) + i] = b[i]
        BY <1>2
    <2> QED
        BY <2>1, <2>2 DEF Grave
<1>6. ASSUME Grave(whole) PROVE Grave(a) \/ Grave(b)
    <2>1. PICK i \in DOMAIN whole : whole[i].sev \in {"BLOCKER", "ERROR"}
        BY <1>6 DEF Grave
    <2>2. CASE i <= Len(a)
        <3>1. i \in DOMAIN a /\ whole[i] = a[i]
            BY <1>2, <2>2
        <3> QED
            BY <2>1, <3>1 DEF Grave
    <2>3. CASE ~(i <= Len(a))
        <3>1. i - Len(a) \in DOMAIN b /\ whole[i] = b[i - Len(a)]
            BY <1>2, <2>3
        <3> QED
            BY <2>1, <3>1 DEF Grave
    <2> QED
        BY <2>2, <2>3
<1> QED
    BY <1>3, <1>4, <1>5, <1>6 DEF whole

\* A list of lists, put one after the other.
LEMMA GraveAll ==
    ASSUME NEW n \in Nat, NEW parts, parts = [i \in 1..n |-> parts[i]], \A i \in 1..n : IsList(parts[i])
    PROVE  IsList(FlattenSeq(parts)) /\ \A i \in 1..n : Grave(parts[i]) => Grave(FlattenSeq(parts))
<1> DEFINE U == UNION {Range(parts[i]) : i \in 1..n}
<1>1. \A i \in 1..n : parts[i] \in Seq(U)
    <2> TAKE i \in 1..n
    <2>1. parts[i] \in Seq(Range(parts[i])) /\ Range(parts[i]) \subseteq U
        BY DEF IsList
    <2> HIDE DEF U
    <2> QED
        BY <2>1
<1> HIDE DEF U
<1>2. parts \in Seq(Seq(U)) /\ Len(parts) = n
    BY <1>1
<1>3. PICK f \in [0..n -> Seq(U)] :
        FlattenSeq(parts) = f[n] /\ f[0] = <<>> /\ \A k \in 1..n : f[k] = f[k - 1] \o parts[k]
    BY <1>2, FlattenSteps
<1> DEFINE S == {k \in Nat : IsList(f[k]) /\ \A i \in 1..k : Grave(parts[i]) => Grave(f[k])}
<1>4. 0 \in S
    BY <1>3, GraveNone
<1>5. ASSUME NEW k \in 0..n, k \in S, k < n PROVE k + 1 \in S
    <2>1. k + 1 \in 1..n /\ (k + 1) - 1 = k
        BY <1>5
    <2>2. f[k + 1] = f[k] \o parts[k + 1]
        BY <1>3, <2>1
    <2>3. IsList(f[k]) /\ IsList(parts[k + 1]) /\ \A i \in 1..k : Grave(parts[i]) => Grave(f[k])
        BY <1>5, <2>1
    <2>4. IsList(f[k + 1]) /\ (Grave(f[k + 1]) <=> Grave(f[k]) \/ Grave(parts[k + 1]))
        BY <2>2, <2>3, GraveBoth
    <2>5. \A i \in 1..(k + 1) : i \in 1..k \/ i = k + 1
        OBVIOUS
    <2>6. ASSUME NEW i \in 1..(k + 1), Grave(parts[i]) PROVE Grave(f[k + 1])
        BY <2>3, <2>4, <2>5, <2>6
    <2>7. k + 1 \in Nat
        OBVIOUS
    <2> QED
        BY <2>4, <2>6, <2>7
<1> HIDE DEF S
<1>6. 0..n \subseteq S
    BY <1>4, <1>5, Counting
<1>7. n \in S
    BY <1>6
<1> QED
    BY <1>3, <1>7 DEF S

-----------------------------------------------------------------------------
(* What the comparison of two tables has no error about                    *)

LEMMA IssueSev == \A phas, code, sev, table : Issue(phas, code, sev, table).sev = sev
BY DEF Issue

\* A column that is taken as it is.
Alike(s, c) == ClassifyTypeChange(s.type, c.type).sev # "ERROR" /\ ~(s.nullable /\ ~c.nullable)
Dispensable(c) == c.nullable \/ c.default # "" \/ c.auto

LEMMA ColumnFacts ==
    ASSUME NEW table, NEW s, NEW c
    PROVE  IsList(CompareColumn(table, s, c)) /\ (Grave(CompareColumn(table, s, c)) \/ Alike(s, c))
<1> DEFINE tc == ClassifyTypeChange(s.type, c.type)
           w1 == When(tc.sev # "INFO", Issue("schema", tc.code, tc.sev, table))
           w2 == When(s.nullable /\ ~c.nullable, Issue("schema", "NULLABILITY_MISMATCH", "ERROR", table))
           w3 == When(Differ(s.charset, c.charset), Issue("schema", "CHARSET_MISMATCH", "WARNING", table))
           w4 == When(Differ(s.collation, c.collation), Issue("schema", "COLLATION_MISMATCH", "WARNING", table))
           w5 == When(s.auto # c.auto, Issue("schema", "AUTO_INCREMENT_MISMATCH", "INFO", table))
           w6 == When(s.default # c.default, Issue("schema", "DEFAULT_MISMATCH", "INFO", table))
<1>1. CompareColumn(table, s, c) = w1 \o w2 \o w3 \o w4 \o w5 \o w6
    BY DEF CompareColumn
<1>2. IsList(w1) /\ (tc.sev = "ERROR" => Grave(w1))
    BY GraveNone, GraveOne, IssueSev DEF When
<1>3. IsList(w2) /\ (s.nullable /\ ~c.nullable => Grave(w2))
    BY GraveNone, GraveOne, IssueSev DEF When
<1>4. IsList(w3) /\ IsList(w4) /\ IsList(w5) /\ IsList(w6)
    BY GraveNone, GraveOne DEF When
<1> HIDE DEF w1, w2, w3, w4, w5, w6
<1>5. /\ IsList(w1 \o w2 \o w3 \o w4 \o w5 \o w6)
      /\ Grave(w1) \/ Grave(w2) => Grave(w1 \o w2 \o w3 \o w4 \o w5 \o w6)
    <2>1. IsList(w1 \o w2) /\ (Grave(w1) \/ Grave(w2) => Grave(w1 \o w2))
        BY <1>2, <1>3, GraveBoth
    <2>2. IsList(w1 \o w2 \o w3) /\ (Grave(w1 \o w2) => Grave(w1 \o w2 \o w3))
        BY <1>4, <2>1, GraveBoth
    <2>3. IsList(w1 \o w2 \o w3 \o w4) /\ (Grave(w1 \o w2 \o w3) => Grave(w1 \o w2 \o w3 \o w4))
        BY <1>4, <2>2, GraveBoth
    <2>4. IsList(w1 \o w2 \o w3 \o w4 \o w5)
          /\ (Grave(w1 \o w2 \o w3 \o w4) => Grave(w1 \o w2 \o w3 \o w4 \o w5))
        BY <1>4, <2>3, GraveBoth
    <2>5. IsList(w1 \o w2 \o w3 \o w4 \o w5 \o w6)
          /\ (Grave(w1 \o w2 \o w3 \o w4 \o w5) => Grave(w1 \o w2 \o w3 \o w4 \o w5 \o w6))
        BY <1>4, <2>4, GraveBoth
    <2> QED
        BY <2>1, <2>2, <2>3, <2>4, <2>5
<1> QED
    BY <1>1, <1>2, <1>3, <1>5 DEF Alike

\* Every column has its like, and the others can do without.
Matching(src, tgt) ==
    /\ \A i \in DOMAIN src : Named(tgt, src[i].lower) # {} /\ Alike(src[i], Column(tgt, src[i].lower))
    /\ \A i \in DOMAIN tgt : Named(src, tgt[i].lower) # {} \/ Dispensable(tgt[i])

LEMMA ComparedFacts ==
    ASSUME NEW table, NEW src, NEW tgt, IsList(src), IsList(tgt)
    PROVE  /\ IsList(CompareTableColumns(table, src, tgt))
           /\ Grave(CompareTableColumns(table, src, tgt)) \/ Matching(src, tgt)
<1> DEFINE here == [i \in DOMAIN src |->
                        IF Named(tgt, src[i].lower) = {} THEN <<Issue("schema", "TARGET_COLUMN_MISSING", "ERROR", table)>>
                        ELSE CompareColumn(table, src[i], Column(tgt, src[i].lower))]
           there == [i \in DOMAIN tgt |-> When(Named(src, tgt[i].lower) = {}, TargetOnly(table, tgt[i]))]
<1>1. CompareTableColumns(table, src, tgt) = FlattenSeq(here) \o FlattenSeq(there)
    BY DEF CompareTableColumns
<1>2. Len(src) \in Nat /\ Len(tgt) \in Nat /\ DOMAIN src = 1..Len(src) /\ DOMAIN tgt = 1..Len(tgt)
    BY DEF IsList
<1>3. \A i \in DOMAIN src :
        /\ IsList(here[i])
        /\ Grave(here[i]) \/ (Named(tgt, src[i].lower) # {} /\ Alike(src[i], Column(tgt, src[i].lower)))
    BY ColumnFacts, GraveOne, IssueSev
<1>4. \A i \in DOMAIN tgt :
        /\ IsList(there[i])
        /\ Grave(there[i]) \/ Named(src, tgt[i].lower) # {} \/ Dispensable(tgt[i])
    <2> TAKE i \in DOMAIN tgt
    <2>1. ~Dispensable(tgt[i]) => TargetOnly(table, tgt[i]).sev = "ERROR"
        <3> SUFFICES ASSUME ~Dispensable(tgt[i]) PROVE TargetOnly(table, tgt[i]).sev = "ERROR"
            OBVIOUS
        <3>1. ~tgt[i].nullable /\ tgt[i].default = "" /\ ~tgt[i].auto
            BY DEF Dispensable
        <3>2. TargetOnly(table, tgt[i]) = Issue("schema", "TARGET_ONLY_COLUMN", "ERROR", table)
            BY <3>1 DEF TargetOnly
        <3> QED
            BY <3>2, IssueSev
    <2> QED
        BY <2>1, GraveNone, GraveOne DEF When
<1>5. here = [i \in 1..Len(src) |-> here[i]] /\ there = [i \in 1..Len(tgt) |-> there[i]]
    BY <1>2
<1> HIDE DEF here, there
<1>6. IsList(FlattenSeq(here)) /\ \A i \in 1..Len(src) : Grave(here[i]) => Grave(FlattenSeq(here))
    BY <1>2, <1>3, <1>5, GraveAll
<1>7. IsList(FlattenSeq(there)) /\ \A i \in 1..Len(tgt) : Grave(there[i]) => Grave(FlattenSeq(there))
    BY <1>2, <1>4, <1>5, GraveAll
<1>8. /\ IsList(FlattenSeq(here) \o FlattenSeq(there))
      /\ Grave(FlattenSeq(here)) \/ Grave(FlattenSeq(there)) => Grave(FlattenSeq(here) \o FlattenSeq(there))
    BY <1>6, <1>7, GraveBoth
<1> QED
    BY <1>1, <1>2, <1>3, <1>4, <1>6, <1>7, <1>8 DEF Matching

-----------------------------------------------------------------------------
(* The schema phase                                                        *)

There(f, db, t) == t \in DOMAIN db.tables /\ (f.engine = "oracle" => ~db.tables[t].view)
InBoth(f, t) == There(f, f.src, t) /\ There(f, f.tgt, t)

\* What a column's like promises of it.
Promised(engine, s, c) ==
    /\ ~(s.nullable /\ ~c.nullable)
    /\ Allowed(Seen(engine, s.type), Seen(engine, c.type))
TableMatches(engine, src, tgt) ==
    /\ \A i \in DOMAIN src : Named(tgt, src[i].lower) # {} /\ Promised(engine, src[i], Column(tgt, src[i].lower))
    /\ \A i \in DOMAIN tgt : Named(src, tgt[i].lower) # {} \/ Dispensable(tgt[i])

SchemaOk(f) ==
    \A t \in Range(f.tables) : InBoth(f, t) => TableMatches(f.engine, f.src.tables[t].cols, f.tgt.tables[t].cols)

LEMMA ThereFacts ==
    ASSUME NEW t
    PROVE  (InSource(t) <=> There(facts, facts.src, t)) /\ (InTarget(t) <=> There(facts, facts.tgt, t))
BY DEF InSource, InTarget, Exists, OracleExists, There

LEMMA ScenarioFacts ==
    ASSUME facts \in Scenarios
    PROVE  /\ facts.engine \in Engines /\ Len(facts.tables) \in Nat /\ DOMAIN facts.tables = 1..Len(facts.tables)
           /\ \A t : InSource(t) => IsTable(facts.engine, facts.src.tables[t]) /\ HasValues(facts.engine, facts.src.tables[t])
           /\ \A t : InTarget(t) => IsTable(facts.engine, facts.tgt.tables[t])
<1>1. /\ facts.engine \in Engines /\ IsList(facts.tables)
      /\ \A t \in DOMAIN facts.src.tables :
            IsTable(facts.engine, facts.src.tables[t]) /\ HasValues(facts.engine, facts.src.tables[t])
      /\ \A t \in DOMAIN facts.tgt.tables : IsTable(facts.engine, facts.tgt.tables[t])
    BY MigrationValidationAssumption
<1>2. Len(facts.tables) \in Nat /\ DOMAIN facts.tables = 1..Len(facts.tables)
    BY <1>1 DEF IsList
<1>3. \A t : (InSource(t) => t \in DOMAIN facts.src.tables) /\ (InTarget(t) => t \in DOMAIN facts.tgt.tables)
    BY ThereFacts DEF There
<1> QED
    BY <1>1, <1>2, <1>3

\* The columns reported are those of the table, by the same names.
Shown(cols, seen) ==
    /\ IsList(seen) /\ DOMAIN seen = DOMAIN cols /\ DOMAIN cols = 1..Len(cols) /\ Len(cols) \in Nat
    /\ \A i \in DOMAIN cols : seen[i] = Reported(cols[i]) /\ IsColumn(facts.engine, cols[i]) /\ seen[i].name = cols[i].name /\ seen[i].lower = cols[i].lower
    /\ \A n : /\ Named(seen, n) = Named(cols, n)
              /\ Named(cols, n) # {} =>
                    /\ Column(seen, n) = Reported(Column(cols, n)) /\ IsColumn(facts.engine, Column(cols, n))
                    /\ Column(cols, n) \in Range(cols) /\ Column(cols, n).lower = n

LEMMA ColumnsFacts ==
    ASSUME facts.engine \in Engines, NEW db, NEW t, IsTable(facts.engine, db.tables[t])
    PROVE  Shown(db.tables[t].cols, Columns(db, t))
<1> DEFINE cols == db.tables[t].cols
           seen == Columns(db, t)
<1>1. DOMAIN cols = 1..Len(cols) /\ Len(cols) \in Nat /\ \A i \in DOMAIN cols : IsColumn(facts.engine, cols[i])
    BY DEF IsTable, IsList, Range
<1>2. DOMAIN seen = DOMAIN cols /\ \A i \in DOMAIN cols : seen[i] = Reported(cols[i])
    BY DEF Columns
<1>3. seen \in Seq({Reported(cols[i]) : i \in DOMAIN cols})
    BY <1>1 DEF Columns
<1>4. IsList(seen)
    BY <1>3, ListOf
<1> HIDE DEF cols, seen
<1>5. \A i \in DOMAIN cols : seen[i].name = cols[i].name /\ seen[i].lower = cols[i].lower
    BY <1>1, <1>2, ReportedFacts
<1>6. ASSUME NEW n
      PROVE  /\ Named(seen, n) = Named(cols, n)
             /\ Named(cols, n) # {} =>
                   /\ Column(seen, n) = Reported(Column(cols, n)) /\ IsColumn(facts.engine, Column(cols, n))
                   /\ Column(cols, n) \in Range(cols) /\ Column(cols, n).lower = n
    <2>1. Named(seen, n) = Named(cols, n)
        BY <1>2, <1>5 DEF Named
    <2>2. ASSUME Named(cols, n) # {}
          PROVE  /\ Column(seen, n) = Reported(Column(cols, n)) /\ IsColumn(facts.engine, Column(cols, n))
                 /\ Column(cols, n) \in Range(cols) /\ Column(cols, n).lower = n
        <3> DEFINE i == CHOOSE j \in Named(cols, n) : \A k \in Named(cols, n) : j <= k
        <3>1. i \in Named(cols, n)
            <4>1. Named(cols, n) \subseteq Nat
                BY <1>1 DEF Named
            <4> QED
                BY <2>2, <4>1, LeastOf
        <3>2. Column(seen, n) = seen[i] /\ Column(cols, n) = cols[i]
            BY <2>1 DEF Column
        <3> HIDE DEF i
        <3>3. i \in DOMAIN cols /\ cols[i].lower = n
            BY <3>1 DEF Named
        <3> QED
            BY <1>1, <1>2, <3>2, <3>3 DEF Range
    <2> QED
        BY <2>1, <2>2
<1> QED
    BY <1>1, <1>2, <1>4, <1>5, <1>6 DEF cols, seen, Shown

\* A column and its like, as they are reported and as they are.
LEMMA AlikePromises ==
    ASSUME facts.engine \in Engines, NEW s, NEW c, IsColumn(facts.engine, s), IsColumn(facts.engine, c),
           Alike(Reported(s), Reported(c))
    PROVE  Promised(facts.engine, s, c)
<1>1. /\ Reported(s).nullable = s.nullable /\ Reported(s).type = Seen(facts.engine, s.type)
      /\ Reported(c).nullable = c.nullable /\ Reported(c).type = Seen(facts.engine, c.type)
    BY ReportedFacts
<1>2. ClassifyTypeChange(Reported(s).type, Reported(c).type).sev # "ERROR" /\ ~(Reported(s).nullable /\ ~Reported(c).nullable)
    BY DEF Alike
<1>3. Allowed(Reported(s).type, Reported(c).type)
    BY <1>2, ChangeFacts
<1> QED
    BY <1>1, <1>2, <1>3 DEF Promised

LEMMA SchemaFacts ==
    ASSUME facts \in Scenarios
    PROVE  IsList(SchemaIssues) /\ (Grave(SchemaIssues) \/ SchemaOk(facts))
<1> DEFINE Check(t) ==
              IF ~InSource(t) THEN <<>>
              ELSE IF ~InTarget(t) THEN <<Issue("schema", "TARGET_TABLE_WILL_BE_CREATED", "INFO", t)>>
              ELSE CompareTableColumns(t, Columns(facts.src, t), Columns(facts.tgt, t))
           parts == [i \in DOMAIN facts.tables |-> Check(facts.tables[i])]
           n == Len(facts.tables)
<1>1. SchemaIssues = FlattenSeq(parts)
    BY DEF SchemaIssues, EachTable
<1>2. facts.engine \in Engines /\ n \in Nat /\ DOMAIN facts.tables = 1..n
    BY ScenarioFacts
<1>3. ASSUME NEW t
      PROVE  /\ IsList(Check(t))
             /\ Grave(Check(t)) \/ ~InBoth(facts, t) \/ TableMatches(facts.engine, facts.src.tables[t].cols, facts.tgt.tables[t].cols)
    <2>1. CASE ~InSource(t)
        BY <2>1, GraveNone, ThereFacts DEF InBoth
    <2>2. CASE InSource(t) /\ ~InTarget(t)
        BY <2>2, GraveOne, ThereFacts DEF InBoth
    <2>3. CASE InSource(t) /\ InTarget(t)
        <3> DEFINE src == facts.src.tables[t].cols
                   tgt == facts.tgt.tables[t].cols
                   a == Columns(facts.src, t)
                   b == Columns(facts.tgt, t)
        <3>1. Check(t) = CompareTableColumns(t, a, b)
            BY <2>3
        <3>2. IsTable(facts.engine, facts.src.tables[t]) /\ IsTable(facts.engine, facts.tgt.tables[t])
            BY <2>3, ScenarioFacts
        <3>3. Shown(src, a) /\ Shown(tgt, b)
            BY <1>2, <3>2, ColumnsFacts
        <3>4. IsList(a) /\ IsList(b)
            BY <3>3 DEF Shown
        <3> HIDE DEF src, tgt, a, b
        <3>5. IsList(CompareTableColumns(t, a, b)) /\ (Grave(CompareTableColumns(t, a, b)) \/ Matching(a, b))
            BY <3>4, ComparedFacts
        <3>6. ASSUME Matching(a, b) PROVE TableMatches(facts.engine, src, tgt)
            <4>1. ASSUME NEW i \in DOMAIN src
                  PROVE  Named(tgt, src[i].lower) # {} /\ Promised(facts.engine, src[i], Column(tgt, src[i].lower))
                <5>1. /\ i \in DOMAIN a /\ a[i] = Reported(src[i]) /\ IsColumn(facts.engine, src[i]) /\ a[i].name = src[i].name /\ a[i].lower = src[i].lower
                      /\ Named(b, src[i].lower) = Named(tgt, src[i].lower)
                    BY <3>3, <4>1 DEF Shown
                <5>2. Named(b, a[i].lower) # {} /\ Alike(a[i], Column(b, a[i].lower))
                    BY <3>6, <5>1 DEF Matching
                <5>3. Named(tgt, src[i].lower) # {}
                    BY <5>1, <5>2
                <5>4. Column(b, src[i].lower) = Reported(Column(tgt, src[i].lower)) /\ IsColumn(facts.engine, Column(tgt, src[i].lower))
                    BY <3>3, <5>3 DEF Shown
                <5>5. Alike(Reported(src[i]), Reported(Column(tgt, src[i].lower)))
                    BY <5>1, <5>2, <5>4
                <5> QED
                    BY <1>2, <5>1, <5>3, <5>4, <5>5, AlikePromises
            <4>2. ASSUME NEW i \in DOMAIN tgt PROVE Named(src, tgt[i].lower) # {} \/ Dispensable(tgt[i])
                <5>1. /\ i \in DOMAIN b /\ b[i] = Reported(tgt[i]) /\ IsColumn(facts.engine, tgt[i]) /\ b[i].lower = tgt[i].lower
                      /\ Named(a, tgt[i].lower) = Named(src, tgt[i].lower)
                    BY <3>3, <4>2 DEF Shown
                <5>2. Named(a, b[i].lower) # {} \/ Dispensable(b[i])
                    BY <3>6, <5>1 DEF Matching
                <5>3. b[i].nullable = tgt[i].nullable /\ b[i].default = tgt[i].default /\ b[i].auto = tgt[i].auto
                    BY <1>2, <5>1, ReportedFacts
                <5>4. Dispensable(b[i]) <=> Dispensable(tgt[i])
                    BY <5>3 DEF Dispensable
                <5> QED
                    BY <5>1, <5>2, <5>4
            <4> QED
                BY <4>1, <4>2 DEF TableMatches
        <3> QED
            BY <3>1, <3>5, <3>6 DEF src, tgt
    <2> QED
        BY <2>1, <2>2, <2>3
<1>4. \A i \in 1..n : parts[i] = Check(facts.tables[i])
    BY <1>2
<1>5. parts = [i \in 1..n |-> parts[i]]
    BY <1>2
<1> HIDE DEF parts, Check
<1>6. \A i \in 1..n : IsList(parts[i])
    BY <1>3, <1>4
<1>7. IsList(FlattenSeq(parts)) /\ \A i \in 1..n : Grave(parts[i]) => Grave(FlattenSeq(parts))
    BY <1>2, <1>5, <1>6, GraveAll
<1>8. ASSUME ~Grave(FlattenSeq(parts)) PROVE SchemaOk(facts)
    <2> SUFFICES ASSUME NEW t \in Range(facts.tables), InBoth(facts, t)
                 PROVE  TableMatches(facts.engine, facts.src.tables[t].cols, facts.tgt.tables[t].cols)
        BY DEF SchemaOk
    <2>1. PICK i \in 1..n : facts.tables[i] = t
        BY <1>2 DEF Range
    <2>2. ~Grave(Check(t))
        BY <1>4, <1>7, <1>8, <2>1
    <2> QED
        BY <1>3, <2>2
<1> QED
    BY <1>1, <1>7, <1>8

-----------------------------------------------------------------------------
(* The data phase                                                          *)

\* What the values of a column are measured for.
ValuesFit(c, rows, name) ==
    \A row \in Range(rows) : row[name] # NULL =>
        /\ c.type.name \in CharFamily /\ c.type.len # 0 => row[name].len <= c.type.len
        /\ c.type.name \in Range(IntOrder) /\ ~row[name].neg => row[name].rank <= IntMax(c.type)
RowsFit(src, tgt, rows) ==
    \A i \in DOMAIN src : Named(tgt, src[i].lower) # {} => ValuesFit(Column(tgt, src[i].lower), rows, src[i].name)

DataOk(f) ==
    \A t \in Range(f.tables) : InBoth(f, t) =>
        RowsFit(f.src.tables[t].cols, f.tgt.tables[t].cols, f.src.tables[t].rows)

\* What the base of a type says of its name.
LEMMA BaseFacts ==
    ASSUME NEW name
    PROVE  /\ name \in Range(IntOrder) => Base(name) = name
           /\ Base(name) \in Range(IntOrder) => name = Base(name)
           /\ Base(name) \in CharFamily => name \in CharFamily \/ name = "varchar2"
BY IntRanks DEF Base, CharFamily

LEMMA ColumnDataFacts ==
    ASSUME facts.engine \in Engines, NEW t, NEW s, NEW c, IsColumn(facts.engine, c), IsList(facts.src.tables[t].rows),
           \A row \in Range(facts.src.tables[t].rows) : IsValue(row[s.name])
    PROVE  /\ IsList(ColumnData(t, s, Reported(c)))
           /\ \/ Grave(ColumnData(t, s, Reported(c)))
              \/ ValuesFit(c, facts.src.tables[t].rows, s.name)
<1> DEFINE d == Reported(c)
           rows == facts.src.tables[t].rows
           longest == MaxCharLength(facts.src, t, s.name)
           largest == MaxNumeric(facts.src, t, s.name)
           long == d.type.name \in CharFamily /\ d.type.len # 0 /\ TooLong(longest, d)
           large == d.type.name \in Range(IntOrder) /\ largest # NULL /\ largest > IntMax(d.type)
           bare == s.nullable /\ ~d.nullable /\ NullCount(facts.src, t, s.name) > 0
           w1 == When(long, Issue("data", "STRING_OVERFLOW", "BLOCKER", t))
           w2 == When(large, Issue("data", "NUMERIC_OVERFLOW", "BLOCKER", t))
           w3 == When(bare, Issue("nullability", "NULL_INTO_NOT_NULL", "BLOCKER", t))
<1>1. ColumnData(t, s, d) = w1 \o w2 \o w3
    BY DEF ColumnData
<1>2. IsList(w1) /\ (long => Grave(w1))
    BY GraveNone, GraveOne, IssueSev DEF When
<1>3. IsList(w2) /\ (large => Grave(w2))
    BY GraveNone, GraveOne, IssueSev DEF When
<1>4. IsList(w3)
    BY GraveNone, GraveOne, IssueSev DEF When
<1> HIDE DEF w1, w2, w3
<1>5. IsList(w1 \o w2 \o w3) /\ (Grave(w1) \/ Grave(w2) => Grave(w1 \o w2 \o w3))
    <2>1. IsList(w1 \o w2) /\ (Grave(w1) \/ Grave(w2) => Grave(w1 \o w2))
        BY <1>2, <1>3, GraveBoth
    <2> QED
        BY <1>4, <2>1, GraveBoth
<1>6. /\ d.type.len = c.type.len /\ d.type.unsigned \in {FALSE, c.type.unsigned}
      /\ d.type.name = c.type.name /\ d.type.base = c.type.base
    <2>1. IsType(facts.engine, c.type) /\ d.type = Seen(facts.engine, c.type)
        BY ReportedFacts DEF IsColumn
    <2> HIDE DEF d
    <2>2. d.type.len = c.type.len /\ d.type.name = c.type.name /\ d.type.base = c.type.base
        BY <2>1, SeenFacts
    <2>3. d.type.unsigned \in {FALSE, c.type.unsigned}
        BY <2>1, SeenUnsigned, Zenon
    <2> QED
        BY <2>2, <2>3
<1>7. c.type.unsigned \in BOOLEAN /\ c.type.len \in Nat /\ c.type.base = Base(c.type.name)
    BY TypeFacts DEF IsColumn, IsType
<1>8. \A row \in Range(rows) : row[s.name] # NULL =>
        /\ longest # NULL /\ row[s.name].len <= longest /\ longest \in Int
        /\ largest # NULL /\ largest \in Int
        /\ ~row[s.name].neg => row[s.name].rank <= largest
        /\ row[s.name].len \in Nat /\ row[s.name].rank \in Nat
    <2> SUFFICES ASSUME NEW row \in Range(rows), row[s.name] # NULL
                 PROVE  /\ longest # NULL /\ row[s.name].len <= longest /\ longest \in Int
                        /\ largest # NULL /\ largest \in Int
                        /\ ~row[s.name].neg => row[s.name].rank <= largest
                        /\ row[s.name].len \in Nat /\ row[s.name].rank \in Nat
        OBVIOUS
    <2>1. /\ longest # NULL /\ row[s.name].len <= longest /\ longest \in Int
          /\ largest # NULL /\ largest \in Int
          /\ ~row[s.name].neg => row[s.name].rank <= largest
        BY MeasuredFacts
    <2>2. IsValue(row[s.name])
        OBVIOUS
    <2> QED
        BY <2>1, <2>2 DEF IsValue
<1> HIDE DEF d, rows, longest, largest
<1>9. ASSUME ~long, ~large, NEW row \in Range(rows), row[s.name] # NULL
      PROVE  /\ c.type.name \in CharFamily /\ c.type.len # 0 => row[s.name].len <= c.type.len
             /\ c.type.name \in Range(IntOrder) /\ ~row[s.name].neg => row[s.name].rank <= IntMax(c.type)
    <2>1. ASSUME c.type.name \in CharFamily, c.type.len # 0
          PROVE  row[s.name].len <= c.type.len
        <3>1. d.type.name \in CharFamily /\ d.type.len # 0
            BY <1>6, <2>1
        <3>2. ~TooLong(longest, d)
            BY <1>9, <3>1
        <3>3. ~(longest > c.type.len)
            BY <1>6, <1>8, <1>9, <3>2 DEF TooLong
        <3> QED
            BY <1>7, <1>8, <1>9, <3>3
    <2>2. ASSUME c.type.name \in Range(IntOrder), ~row[s.name].neg
          PROVE  row[s.name].rank <= IntMax(c.type)
        <3>1. d.type.name = c.type.name /\ d.type.base = c.type.base /\ c.type.base \in Range(IntOrder)
            BY <1>6, <1>7, <2>2, BaseFacts
        <3>2. ~(largest > IntMax(d.type))
            BY <1>8, <1>9, <2>2, <3>1
        <3>3. IntMax(d.type) \in Nat /\ IntMax(c.type) \in Nat /\ IntMax(d.type) <= IntMax(c.type)
            <4>1. d.type.unsigned \in BOOLEAN /\ Width(c.type.base) \in Nat /\ (d.type.unsigned => c.type.unsigned)
                BY <1>6, <1>7, <3>1, IntRanks DEF Width
            <4>2. IntMax(d.type) = 2 * Width(c.type.base) + (IF d.type.unsigned THEN 2 ELSE 1) /\ IntMax(d.type) \in Nat
                BY <2>2, <3>1, <4>1, IntMaxFacts
            <4>3. IntMax(c.type) = 2 * Width(c.type.base) + (IF c.type.unsigned THEN 2 ELSE 1) /\ IntMax(c.type) \in Nat
                BY <1>7, <3>1, IntMaxFacts
            <4> QED
                BY <4>1, <4>2, <4>3
        <3> QED
            BY <1>8, <1>9, <2>2, <3>2, <3>3
    <2> QED
        BY <2>1, <2>2
<1>10. ~long /\ ~large => ValuesFit(c, rows, s.name)
    BY <1>9 DEF ValuesFit
<1> QED
    BY <1>1, <1>2, <1>3, <1>5, <1>10 DEF d, rows

LEMMA DataFacts ==
    ASSUME facts \in Scenarios
    PROVE  IsList(DataIssues) /\ (Grave(DataIssues) \/ DataOk(facts))
<1> DEFINE Data(t) ==
              [i \in DOMAIN Columns(facts.src, t) |->
                  IF Named(Columns(facts.tgt, t), Columns(facts.src, t)[i].lower) = {} THEN <<>>
                  ELSE ColumnData(t, Columns(facts.src, t)[i],
                                  Column(Columns(facts.tgt, t), Columns(facts.src, t)[i].lower))]
           Check(t) == IF ~InSource(t) \/ ~InTarget(t) THEN <<>> ELSE FlattenSeq(Data(t))
           parts == [i \in DOMAIN facts.tables |-> Check(facts.tables[i])]
           n == Len(facts.tables)
           Fit(t) == RowsFit(facts.src.tables[t].cols, facts.tgt.tables[t].cols, facts.src.tables[t].rows)
<1>1. DataIssues = FlattenSeq(parts)
    BY DEF DataIssues, EachTable
<1>2. facts.engine \in Engines /\ n \in Nat /\ DOMAIN facts.tables = 1..n
    BY ScenarioFacts
<1>3. ASSUME NEW t
      PROVE  IsList(Check(t)) /\ (Grave(Check(t)) \/ ~InBoth(facts, t) \/ Fit(t))
    <2>1. CASE ~InSource(t) \/ ~InTarget(t)
        BY <2>1, GraveNone, ThereFacts DEF InBoth
    <2>2. CASE InSource(t) /\ InTarget(t)
        <3> DEFINE src == facts.src.tables[t].cols
                   tgt == facts.tgt.tables[t].cols
                   rows == facts.src.tables[t].rows
                   a == Columns(facts.src, t)
                   b == Columns(facts.tgt, t)
                   data == Data(t)
        <3>1. Check(t) = FlattenSeq(data)
            BY <2>2
        <3>2. IsTable(facts.engine, facts.src.tables[t]) /\ IsTable(facts.engine, facts.tgt.tables[t]) /\ HasValues(facts.engine, facts.src.tables[t])
            BY <2>2, ScenarioFacts
        <3>3. Shown(src, a) /\ Shown(tgt, b)
            BY <1>2, <3>2, ColumnsFacts
        <3>4. IsList(rows) /\ \A c \in Range(src), row \in Range(rows) : IsValue(row[c.name])
            BY <3>2 DEF IsTable, HasValues
        <3>5. DOMAIN a = 1..Len(src) /\ Len(src) \in Nat /\ DOMAIN src = DOMAIN a
            BY <3>3 DEF Shown
        <3>6. data = [i \in 1..Len(src) |-> data[i]]
            BY <3>5
        <3>7. \A i \in DOMAIN a : data[i] = IF Named(b, a[i].lower) = {} THEN <<>> ELSE ColumnData(t, a[i], Column(b, a[i].lower))
            OBVIOUS
        <3> HIDE DEF data, a, b, src, tgt, rows
        <3>8. ASSUME NEW i \in DOMAIN src
              PROVE  /\ IsList(data[i])
                     /\ \/ Grave(data[i])
                        \/ Named(tgt, src[i].lower) = {}
                        \/ ValuesFit(Column(tgt, src[i].lower), rows, src[i].name)
            <4>1. i \in DOMAIN a /\ a[i].name = src[i].name /\ a[i].lower = src[i].lower /\ Named(b, src[i].lower) = Named(tgt, src[i].lower)
                BY <3>3 DEF Shown
            <4>2. CASE Named(tgt, src[i].lower) = {}
                <5>1. data[i] = <<>>
                    BY <3>7, <4>1, <4>2
                <5> QED
                    BY <4>2, <5>1, GraveNone
            <4>3. CASE Named(tgt, src[i].lower) # {}
                <5>1. Column(b, src[i].lower) = Reported(Column(tgt, src[i].lower)) /\ IsColumn(facts.engine, Column(tgt, src[i].lower))
                    BY <3>3, <4>3 DEF Shown
                <5>2. data[i] = ColumnData(t, a[i], Reported(Column(tgt, src[i].lower)))
                    BY <3>7, <4>1, <4>3, <5>1
                <5>3. \A row \in Range(rows) : IsValue(row[a[i].name])
                    BY <3>4, <4>1 DEF Range
                <5>4. /\ IsList(ColumnData(t, a[i], Reported(Column(tgt, src[i].lower))))
                      /\ \/ Grave(ColumnData(t, a[i], Reported(Column(tgt, src[i].lower))))
                         \/ ValuesFit(Column(tgt, src[i].lower), rows, a[i].name)
                    BY <1>2, <3>4, <5>1, <5>3, ColumnDataFacts DEF rows
                <5> QED
                    BY <4>1, <5>2, <5>4
            <4> QED
                BY <4>2, <4>3
        <3>9. IsList(FlattenSeq(data)) /\ \A i \in 1..Len(src) : Grave(data[i]) => Grave(FlattenSeq(data))
            BY <3>5, <3>6, <3>8, GraveAll
        <3>10. Grave(FlattenSeq(data)) \/ RowsFit(src, tgt, rows)
            BY <3>5, <3>8, <3>9 DEF RowsFit
        <3> QED
            BY <3>1, <3>9, <3>10 DEF src, tgt, rows
    <2> QED
        BY <2>1, <2>2
<1>4. \A i \in 1..n : parts[i] = Check(facts.tables[i])
    BY <1>2
<1>5. parts = [i \in 1..n |-> parts[i]]
    BY <1>2
<1> HIDE DEF parts, Check, Data
<1>6. \A i \in 1..n : IsList(parts[i])
    BY <1>3, <1>4
<1>7. IsList(FlattenSeq(parts)) /\ \A i \in 1..n : Grave(parts[i]) => Grave(FlattenSeq(parts))
    BY <1>2, <1>5, <1>6, GraveAll
<1>8. ASSUME ~Grave(FlattenSeq(parts)) PROVE DataOk(facts)
    <2> SUFFICES ASSUME NEW t \in Range(facts.tables), InBoth(facts, t) PROVE Fit(t)
        BY DEF DataOk
    <2>1. PICK i \in 1..n : facts.tables[i] = t
        BY <1>2 DEF Range
    <2>2. ~Grave(Check(t))
        BY <1>4, <1>7, <1>8, <2>1
    <2> QED
        BY <1>3, <2>2
<1> QED
    BY <1>1, <1>7, <1>8

-----------------------------------------------------------------------------
(* The other phases                                                        *)

SourceOk(f) == \A t \in Range(f.tables) : There(f, f.src, t)

LEMMA WhenList ==
    ASSUME NEW c, NEW x
    PROVE  IsList(When(c, x))
BY GraveNone, GraveOne DEF When

LEMMA SourceTableList ==
    ASSUME NEW t
    PROVE  IsList(SourceTable(t))
<1> DEFINE tab == Table("src", t)
           cols == Range(Columns(facts.src, t))
           w1 == When(tab.view /\ ~facts.allowViews, Issue("source", "SOURCE_IS_VIEW", "BLOCKER", t))
           w2 == When(tab.pk = {}, Issue("source", "NO_PRIMARY_KEY", "WARNING", t))
           w3 == When(Cardinality(tab.pk) > 1, Issue("source", "COMPOSITE_PK", "INFO", t))
           w4 == When(tab.triggers, Issue("source", "TRIGGERS_PRESENT", "WARNING", t))
           w5 == When(tab.partitioned /\ facts.engine # "sqlserver", Issue("source", "PARTITIONED", "WARNING", t))
           w6 == When(\E c \in cols : c.generated, Issue("source", "GENERATED_COLUMNS", "INFO", t))
           w7 == When(\E c \in cols : c.large, Issue("source", "BLOB_TEXT_COLUMNS", "INFO", t))
           w8 == When(tab.thousands > 5000, Issue("source", "VERY_LARGE_TABLE", "WARNING", t))
<1>1. SourceTable(t) = w1 \o w2 \o w3 \o w4 \o w5 \o w6 \o w7 \o w8
    BY Zenon DEF SourceTable
<1>2. IsList(w1) /\ IsList(w2) /\ IsList(w3) /\ IsList(w4) /\ IsList(w5) /\ IsList(w6) /\ IsList(w7) /\ IsList(w8)
    BY GraveNone, GraveOne DEF When
<1> HIDE DEF w1, w2, w3, w4, w5, w6, w7, w8
<1>3. IsList(w1 \o w2 \o w3 \o w4)
    BY <1>2, GraveBoth
<1> QED
    BY <1>1, <1>2, <1>3, GraveBoth

LEMMA SourcePhase ==
    ASSUME facts \in Scenarios
    PROVE  IsList(SourceIssues) /\ (Grave(SourceIssues) \/ SourceOk(facts))
<1> DEFINE Check(t) == IF InSource(t) THEN SourceTable(t)
                       ELSE <<Issue("source", "SOURCE_TABLE_MISSING", "BLOCKER", t)>>
           parts == [i \in DOMAIN facts.tables |-> Check(facts.tables[i])]
           n == Len(facts.tables)
           w1 == When(~facts.src.exists, Issue("source", "SOURCE_DB_MISSING", "BLOCKER", NULL))
           w2 == When("select" \notin Grants(facts.src), Issue("source", "SELECT_PERMISSION_MISSING", "BLOCKER", NULL))
<1>1. SourceIssues = IF ~facts.src.up THEN <<Issue("source", "SOURCE_CONN_INACTIVE", "BLOCKER", NULL)>>
                     ELSE w1 \o w2 \o FlattenSeq(parts)
    BY DEF SourceIssues, EachTable
<1>2. n \in Nat /\ DOMAIN facts.tables = 1..n
    BY ScenarioFacts
<1>3. IsList(w1) /\ IsList(w2)
    BY WhenList
<1> HIDE DEF w1, w2
<1>4. ASSUME NEW t
      PROVE  IsList(Check(t)) /\ (Grave(Check(t)) \/ There(facts, facts.src, t))
    BY SourceTableList, GraveOne, IssueSev, ThereFacts
<1>5. \A i \in 1..n : parts[i] = Check(facts.tables[i])
    BY <1>2
<1>6. parts = [i \in 1..n |-> parts[i]]
    BY <1>2
<1> HIDE DEF parts, Check
<1>7. \A i \in 1..n : IsList(parts[i])
    BY <1>4, <1>5
<1>8. IsList(FlattenSeq(parts)) /\ \A i \in 1..n : Grave(parts[i]) => Grave(FlattenSeq(parts))
    BY <1>2, <1>6, <1>7, GraveAll
<1>9. IsList(w1 \o w2 \o FlattenSeq(parts)) /\ (Grave(FlattenSeq(parts)) => Grave(w1 \o w2 \o FlattenSeq(parts)))
    BY <1>3, <1>8, GraveBoth
<1>10. ASSUME ~Grave(FlattenSeq(parts)) PROVE SourceOk(facts)
    <2> SUFFICES ASSUME NEW t \in Range(facts.tables) PROVE There(facts, facts.src, t)
        BY DEF SourceOk
    <2>1. PICK i \in 1..n : facts.tables[i] = t
        BY <1>2 DEF Range
    <2>2. ~Grave(Check(t))
        BY <1>5, <1>8, <1>10, <2>1
    <2> QED
        BY <1>4, <2>2
<1>11. LET gone == <<Issue("source", "SOURCE_CONN_INACTIVE", "BLOCKER", NULL)>> IN IsList(gone) /\ Grave(gone)
    BY GraveOne, IssueSev
<1> QED
    BY <1>1, <1>9, <1>10, <1>11

LEMMA TargetList == IsList(TargetIssues)
<1>1. \A a, b : IsList(a) /\ IsList(b) => IsList(a \o b)
    BY GraveBoth
<1>2. IsList(<<>>) /\ \A x : IsList(<<x>>)
    BY GraveNone, GraveOne
<1> DEFINE lacks(privilege, code, sev) == When(privilege \notin Grants(facts.tgt), Issue("target", code, sev, NULL))
           w1 == When(~facts.tgt.exists, Issue("target", "TARGET_DB_MISSING", "BLOCKER", NULL))
           w2 == lacks("insert", "INSERT_PERMISSION_MISSING", "BLOCKER")
           w3 == IF \A t \in Range(facts.tables) : InTarget(t) THEN <<>>
                 ELSE lacks("create", "CREATE_PERMISSION_MISSING", "BLOCKER")
           w4 == IF facts.mode = "append" THEN lacks("update", "UPDATE_PERMISSION_MISSING", "WARNING")
                 ELSE lacks("delete", "DELETE_PERMISSION_MISSING", "BLOCKER")
<1>3. TargetIssues = IF ~facts.tgt.up THEN <<Issue("target", "TARGET_CONN_INACTIVE", "BLOCKER", NULL)>>
                     ELSE w1 \o w2 \o w3 \o w4
    BY Zenon DEF TargetIssues
<1>4. IsList(w1) /\ IsList(w2) /\ IsList(w3) /\ IsList(w4)
    BY <1>2, WhenList
<1> HIDE DEF w1, w2, w3, w4
<1> QED
    BY <1>1, <1>2, <1>3, <1>4

LEMMA DuplicateList ==
    ASSUME facts \in Scenarios
    PROVE  IsList(DuplicateIssues)
<1> DEFINE Check(t) == When(t \in Probed /\ Keys(facts.src, t) \cap Keys(facts.tgt, t) # {},
                            Issue("duplicate", "PK_CONFLICTS", "WARNING", t))
           parts == [i \in DOMAIN facts.tables |-> Check(facts.tables[i])]
           n == Len(facts.tables)
<1>1. DuplicateIssues = FlattenSeq(parts)
    BY DEF DuplicateIssues, EachTable
<1>2. n \in Nat /\ DOMAIN facts.tables = 1..n
    BY ScenarioFacts
<1>3. \A t : IsList(Check(t))
    BY WhenList
<1> HIDE DEF Check
<1>4. parts = [i \in 1..n |-> parts[i]] /\ \A i \in 1..n : IsList(parts[i])
    BY <1>2, <1>3
<1> HIDE DEF parts
<1> QED
    BY <1>1, <1>2, <1>4, GraveAll

LEMMA CircularCounted ==
    ASSUME facts \in Scenarios
    PROVE  Cardinality(Dependencies.circular) \in Nat
<1> DEFINE W == Range(facts.tables)
           D == Refs(facts.tables, facts.fks)
<1>1. facts.tables \in Seq(W) /\ IsInjective(facts.tables)
    BY TablesKnown
<1>2. Dependencies.circular = Components(W, D, W)
    BY <1>1, AnalysisSound DEF Dependencies
<1>3. IsFiniteSet(W)
    BY <1>1, AsLong
<1> HIDE DEF W, D
<1>4. IsFiniteSet(SUBSET W)
    BY <1>3, FS_SUBSET
<1>5. Components(W, D, W) \in SUBSET SUBSET W
    BY DEF Components, Scc
<1>6. IsFiniteSet(Components(W, D, W))
    BY <1>4, <1>5, FS_Subset
<1> QED
    BY <1>2, <1>6, FS_CardinalityType

LEMMA EdgeList ==
    ASSUME facts \in Scenarios
    PROVE  IsList(EdgeIssues)
<1> DEFINE refers(t, kind) == When(kind \in facts.refs[t], Issue("constraint", kind, "INFO", t))
           Check(t) == When(t \in facts.reserved, Issue("constraint", "RESERVED_TABLE_NAME", "WARNING", t))
                       \o refers(t, "ROUTINE_DEPENDENCY")
                       \o (IF facts.engine = "mysql" THEN refers(t, "EVENT_DEPENDENCY") ELSE <<>>)
                       \o refers(t, "VIEW_DEPENDENCY")
           Collision(t) == When(InSource(t) /\ SeenInTarget(t) /\ facts.mode = "append"
                                  /\ \E c \in Range(Columns(facts.src, t)) : c.auto,
                                Issue("constraint", "AUTO_INCREMENT_COLLISION_RISK", "WARNING", t))
           Self(t) == When(t \in Dependencies.selfRef, Issue("constraint", "SELF_REFERENCING_FK", "WARNING", t))
           n == Len(facts.tables)
           p1 == [i \in DOMAIN facts.tables |-> Self(facts.tables[i])]
           p2 == [i \in 1..Cardinality(Dependencies.circular) |->
                     Issue("constraint", "CIRCULAR_DEPENDENCY", "WARNING", NULL)]
           p3 == [i \in DOMAIN facts.tables |-> Check(facts.tables[i])]
           p4 == [i \in DOMAIN facts.tables |-> Collision(facts.tables[i])]
<1>1. EdgeIssues = FlattenSeq(p1) \o p2 \o FlattenSeq(p3) \o FlattenSeq(p4)
    BY Zenon DEF EdgeIssues, EachTable
<1>2. n \in Nat /\ DOMAIN facts.tables = 1..n
    BY ScenarioFacts
<1>3. \A t : IsList(Self(t)) /\ IsList(Collision(t))
    BY WhenList
<1>4. \A t : IsList(Check(t))
    <2> TAKE t
    <2> DEFINE w1 == When(t \in facts.reserved, Issue("constraint", "RESERVED_TABLE_NAME", "WARNING", t))
               w2 == refers(t, "ROUTINE_DEPENDENCY")
               w3 == IF facts.engine = "mysql" THEN refers(t, "EVENT_DEPENDENCY") ELSE <<>>
               w4 == refers(t, "VIEW_DEPENDENCY")
    <2>1. IsList(w1) /\ IsList(w2) /\ IsList(w3) /\ IsList(w4)
        BY WhenList, GraveNone
    <2>2. Check(t) = w1 \o w2 \o w3 \o w4
        BY Zenon
    <2> HIDE DEF w1, w2, w3, w4, Check
    <2> QED
        BY <2>1, <2>2, GraveBoth
<1>5. IsList(p2)
    <2>1. Cardinality(Dependencies.circular) \in Nat
        BY CircularCounted
    <2> DEFINE k == Cardinality(Dependencies.circular)
               issue == Issue("constraint", "CIRCULAR_DEPENDENCY", "WARNING", NULL)
    <2> HIDE DEF k, issue
    <2>2. [i \in 1..k |-> issue] \in Seq({issue})
        BY <2>1 DEF k
    <2> QED
        BY <2>2, ListOf DEF k, issue
<1> HIDE DEF Check, Collision, Self
<1>6. /\ p1 = [i \in 1..n |-> p1[i]] /\ p3 = [i \in 1..n |-> p3[i]] /\ p4 = [i \in 1..n |-> p4[i]]
      /\ \A i \in 1..n : IsList(p1[i]) /\ IsList(p3[i]) /\ IsList(p4[i])
    BY <1>2, <1>3, <1>4
<1> HIDE DEF p1, p2, p3, p4
<1>7. IsList(FlattenSeq(p1)) /\ IsList(FlattenSeq(p3)) /\ IsList(FlattenSeq(p4))
    BY <1>2, <1>6, GraveAll
<1> QED
    BY <1>1, <1>5, <1>7, GraveBoth

-----------------------------------------------------------------------------
(* A report without errors                                                 *)

\* What is settled once a phase is over, if there was nothing grave so far.
SettledBy(f, p) ==
    /\ p \in {"target", "schema", "data", "duplicates", "edge", "report", "reported"} => SourceOk(f)
    /\ p \in {"data", "duplicates", "edge", "report", "reported"} => SchemaOk(f)
    /\ p \in {"duplicates", "edge", "report", "reported"} => DataOk(f)
CleanInv ==
    /\ facts \in Scenarios /\ IsList(issues)
    /\ Grave(issues) \/ SettledBy(facts, phase)
    /\ phase = "reported" => validation.readiness.status = "NOT_READY" \/ ~Grave(issues)

LEMMA Successors ==
    /\ Range(Phases) = {"source", "target", "schema", "data", "duplicates", "edge", "report"}
    /\ Phases[Position("source", Phases) + 1] = "target" /\ Phases[Position("target", Phases) + 1] = "schema"
    /\ Phases[Position("schema", Phases) + 1] = "data" /\ Phases[Position("data", Phases) + 1] = "duplicates"
    /\ Phases[Position("duplicates", Phases) + 1] = "edge" /\ Phases[Position("edge", Phases) + 1] = "report"
<1>1. DOMAIN Phases = 1..7
    BY DEF Phases
<1>2. Range(Phases) = {"source", "target", "schema", "data", "duplicates", "edge", "report"}
    BY <1>1 DEF Phases, Range
<1>3. \A n \in 1..7 : Position(Phases[n], Phases) = n
    BY <1>1 DEF Phases, Position
<1> QED
    BY <1>2, <1>3 DEF Phases

\* A phase settles its part, or finds something grave.
LEMMA FoundFacts ==
    ASSUME facts \in Scenarios, NEW p \in Range(Phases), p # "report", SettledBy(facts, p)
    PROVE  IsList(Found(p)) /\ (Grave(Found(p)) \/ SettledBy(facts, Phases[Position(p, Phases) + 1]))
<1>1. CASE p = "source"
    <2>1. Found(p) = SourceIssues
        BY <1>1 DEF Found
    <2> QED
        BY <1>1, <2>1, SourcePhase, Successors DEF SettledBy
<1>2. CASE p = "target"
    <2>1. Found(p) = TargetIssues
        BY <1>2 DEF Found
    <2> QED
        BY <1>2, <2>1, TargetList, Successors DEF SettledBy
<1>3. CASE p = "schema"
    <2>1. Found(p) = SchemaIssues
        BY <1>3 DEF Found
    <2> QED
        BY <1>3, <2>1, SchemaFacts, Successors DEF SettledBy
<1>4. CASE p = "data"
    <2>1. Found(p) = DataIssues
        BY <1>4 DEF Found
    <2> QED
        BY <1>4, <2>1, DataFacts, Successors DEF SettledBy
<1>5. CASE p = "duplicates"
    <2>1. Found(p) = DuplicateIssues
        BY <1>5 DEF Found
    <2> QED
        BY <1>5, <2>1, DuplicateList, Successors DEF SettledBy
<1>6. CASE p = "edge"
    <2>1. Found(p) = EdgeIssues
        BY <1>6 DEF Found
    <2> QED
        BY <1>6, <2>1, EdgeList, Successors DEF SettledBy
<1> QED
    BY <1>1, <1>2, <1>3, <1>4, <1>5, <1>6, Successors

LEMMA ListsFound ==
    ASSUME facts \in Scenarios, NEW p \in Range(Phases), p # "report"
    PROVE  IsList(Found(p))
<1>1. CASE p = "source"
    BY <1>1, SourcePhase DEF Found
<1>2. CASE p = "target"
    BY <1>2, TargetList DEF Found
<1>3. CASE p = "schema"
    BY <1>3, SchemaFacts DEF Found
<1>4. CASE p = "data"
    BY <1>4, DataFacts DEF Found
<1>5. CASE p = "duplicates"
    BY <1>5, DuplicateList DEF Found
<1>6. CASE p = "edge"
    BY <1>6, EdgeList DEF Found
<1> QED
    BY <1>1, <1>2, <1>3, <1>4, <1>5, <1>6, Successors

LEMMA CleanStep ==
    ASSUME CleanInv, [ValidationNext]_validationVars
    PROVE  CleanInv'
<1> USE DEF CleanInv
<1>1. CASE Connect
    <2>1. phase' \in {"source", "thrown"} /\ facts' = facts /\ issues' = issues
        BY <1>1 DEF Connect
    <2> QED
        BY <2>1 DEF SettledBy
<1>2. CASE MakeReport
    <2>1. /\ phase = "report" /\ phase' = "reported" /\ facts' = facts /\ issues' = issues
          /\ validation'.readiness = ComputeReadiness(issues)
        BY <1>2 DEF MakeReport
    <2>2. SettledBy(facts, phase) => SettledBy(facts, "reported")
        BY <2>1 DEF SettledBy
    <2>3. Grave(issues) => ComputeReadiness(issues).status = "NOT_READY"
        BY DEF ComputeReadiness, Has, Grave
    <2> QED
        BY <2>1, <2>2, <2>3
<1>3. CASE Gate
    <2>1. phase' = "gated" /\ facts' = facts /\ issues' = issues
        BY <1>3 DEF Gate
    <2> QED
        BY <2>1 DEF SettledBy
<1>4. ASSUME NEW p \in Range(Phases), Inspect(p) PROVE CleanInv'
    <2>1. /\ p # "report" /\ phase = p /\ phase' = Phases[Position(p, Phases) + 1]
          /\ facts' = facts /\ issues' = issues \o Found(p)
        BY <1>4 DEF Inspect
    <2>2. phase' # "reported"
        BY <1>4, <2>1, NextPhase, Successors
    <2>3. IsList(Found(p))
        BY <1>4, <2>1, ListsFound
    <2>4. IsList(issues') /\ (Grave(issues') <=> Grave(issues) \/ Grave(Found(p)))
        BY <2>1, <2>3, GraveBoth
    <2>5. SettledBy(facts, p) => Grave(Found(p)) \/ SettledBy(facts, phase')
        BY <1>4, <2>1, FoundFacts
    <2> QED
        BY <2>1, <2>2, <2>4, <2>5
<1>5. ASSUME NEW p \in Range(Phases), Throw(p) PROVE CleanInv'
    <2>1. phase' = "thrown" /\ facts' = facts /\ issues' = issues
        BY <1>5 DEF Throw
    <2> QED
        BY <2>1 DEF SettledBy
<1>6. CASE UNCHANGED validationVars
    BY <1>6 DEF validationVars
<1> QED
    BY <1>1, <1>2, <1>3, <1>4, <1>5, <1>6 DEF ValidationNext

\* The bytes of a type are some, and no fewer after a change that is no error
\* and not into a tinytext.
LEMMA SizesGrow ==
    ASSUME NEW engine, NEW s, NEW t, Allowed(s, t), ~(s.base \in CharFamily /\ t.base = "tinytext")
    PROVE  Size(engine, s) \in 1..4 /\ Size(engine, t) \in 1..4 /\ Size(engine, s) <= Size(engine, t)
<1>1. \A u : Size(engine, u) \in 1..4
    BY IntRanks, TextRanks, BlobRanks DEF Size, Numbers, Rank, CharFamily, DecimalFamily
<1>2. CASE s.base = t.base
    BY <1>1, <1>2 DEF Size, Rank
<1>3. CASE s.base # t.base
    <2>1. s # t
        BY <1>3
    <2>2. CASE s.base \in CharFamily
        <3>1. t.base \in CharFamily \cup Range(TextOrder)
            BY <2>1, <2>2, IntRanks, TextRanks, BlobRanks DEF Allowed, Grows, DecimalGrows, In, CharFamily, DecimalFamily
        <3> QED
            BY <2>2, <3>1, IntRanks, TextRanks, BlobRanks DEF Size, Numbers, Rank, CharFamily, DecimalFamily
    <2>3. CASE s.base \in Range(TextOrder)
        <3>1. Grows(s, t, Range(TextOrder), TextOrder)
            BY <2>1, <2>3, <1>3, IntRanks, TextRanks, BlobRanks DEF Allowed, Grows, DecimalGrows, In, CharFamily, DecimalFamily
        <3> QED
            BY <3>1, IntRanks, TextRanks, BlobRanks DEF Size, Numbers, Rank, CharFamily, DecimalFamily, Grows, In
    <2>4. CASE s.base \in Range(BlobOrder)
        <3>1. Grows(s, t, Range(BlobOrder), BlobOrder)
            BY <2>1, <2>4, <1>3, IntRanks, TextRanks, BlobRanks DEF Allowed, Grows, DecimalGrows, In, CharFamily, DecimalFamily
        <3> QED
            BY <3>1, IntRanks, TextRanks, BlobRanks DEF Size, Numbers, Rank, CharFamily, DecimalFamily, Grows, In
    <2>5. CASE s.base \in Numbers
        <3>1. Size(engine, s) = 1
            BY <2>5, IntRanks, TextRanks, BlobRanks DEF Size, Numbers, CharFamily, DecimalFamily
        <3> QED
            BY <1>1, <3>1
    <2>6. CASE s.base \notin CharFamily \cup Range(TextOrder) \cup Range(BlobOrder) \cup Numbers
        <3>1. FALSE
            BY <2>1, <2>6, <1>3 DEF Allowed, Grows, DecimalGrows, In, Numbers
        <3> QED
            BY <3>1
    <2> QED
        BY <2>2, <2>3, <2>4, <2>5, <2>6
<1> QED
    BY <1>2, <1>3

\* What a column took, its like takes, if the change is allowed, the values
\* fit where they are measured, and the change is none nothing measures.
Measured(c, v) ==
    /\ c.type.name \in CharFamily /\ c.type.len # 0 => v.len <= c.type.len
    /\ c.type.name \in Range(IntOrder) /\ ~v.neg => v.rank <= IntMax(c.type)

LEMMA LikeTakes ==
    ASSUME facts.engine \in Engines, NEW s, NEW c, NEW v, IsColumn(facts.engine, s), IsColumn(facts.engine, c),
           Promised(facts.engine, s, c), ~Unmeasured(s, c), IsValue(v), v # NULL, Takes(facts.engine, s, v), Measured(c, v)
    PROVE  Takes(facts.engine, c, v)
<1> DEFINE engine == facts.engine
           S == s.type
           T == c.type
           a == Seen(engine, S)
           b == Seen(engine, T)
<1>1. IsType(engine, S) /\ IsType(engine, T)
    BY DEF IsColumn
<1>2. /\ a.base = S.base /\ a.len = S.len /\ a.prec = S.prec /\ a.scale = S.scale /\ (engine = "mysql" => a = S)
      /\ b.base = T.base /\ b.len = T.len /\ b.prec = T.prec /\ b.scale = T.scale /\ (engine = "mysql" => b = T)
    BY <1>1, SeenFacts
<1>3. Allowed(a, b)
    BY DEF Promised
<1>4. Holds(engine, S, v) /\ (v.charsets = {} \/ s.charset \in v.charsets)
    BY DEF Takes
<1>5. /\ ~S.unsigned => ~T.unsigned
      /\ ~(S.base \in CharFamily /\ T.base = "tinytext")
      /\ ~(In(S, T, DecimalFamily) /\ S.prec = 0 /\ T.prec # 0)
      /\ ~Differ(s.charset, c.charset)
      /\ engine = "postgres" => T.enum = {} \/ (S.enum # {} /\ S.enum \subseteq T.enum)
      /\ ~(S.base \in DecimalFamily /\ T.name = "varchar2")
    BY DEF Unmeasured
<1>6. v.rank \in Nat /\ v.len \in Nat /\ v.digits \in Nat /\ v.scale \in Nat /\ v.size \in 1..4
    BY DEF IsValue
<1>16. v.neg \in BOOLEAN /\ "" \notin v.charsets
    BY DEF IsValue
<1>7. /\ T.name \in CharFamily /\ T.len # 0 => v.len <= T.len
      /\ T.name \in Range(IntOrder) /\ ~v.neg => v.rank <= IntMax(T)
    BY DEF Measured
<1>8. S.base = Base(S.name) /\ T.base = Base(T.name)
    BY <1>1, TypeFacts
<1>9. /\ S.len \in Nat /\ S.prec \in Nat /\ S.scale \in Nat
      /\ T.len \in Nat /\ T.prec \in Nat /\ T.scale \in Nat
    BY <1>1, TypeFacts
<1>19. S.unsigned \in BOOLEAN /\ T.unsigned \in BOOLEAN
    BY <1>1 DEF IsType
<1>10. /\ s.charset # "" <=> engine = "mysql" /\ S.base \in CharFamily \cup Range(TextOrder) \cup {"enum", "set"}
       /\ c.charset # "" <=> engine = "mysql" /\ T.base \in CharFamily \cup Range(TextOrder) \cup {"enum", "set"}
    BY DEF IsColumn
<1>11. /\ engine = "oracle" => T.base \notin Range(IntOrder) /\ S.base \notin Range(IntOrder)
       /\ T.name = "varchar2" => engine = "oracle"
       /\ engine = "oracle" /\ S.base \in CharFamily => S.len # 0
       /\ engine = "postgres" => T.base \notin CharFamily
    BY <1>1 DEF IsType
<1>12. /\ T.enum # {} => T.base \notin Numbers \cup CharFamily \cup Range(TextOrder) \cup Range(BlobOrder)
       /\ engine \in {"sqlserver", "oracle"} => T.enum = {}
       /\ S.base = "enum" => engine = "mysql" /\ S.enum # {}
    BY <1>1 DEF IsType
<1>13. T.prec # 0 => T.base \in DecimalFamily \cup {"number"}
    BY <1>1 DEF IsType
<1> HIDE DEF engine, S, T, a, b
<1>20. T.base \in Range(IntOrder) => v.rank <= IntMax(T)
    <2> SUFFICES ASSUME T.base \in Range(IntOrder) PROVE v.rank <= IntMax(T)
        OBVIOUS
    <2>1. T.name \in Range(IntOrder)
        BY <1>8, BaseFacts
    <2>2. S.base \in Range(IntOrder) /\ ~(Rank(T, IntOrder) < Rank(S, IntOrder))
        <3>1. a = b \/ Grows(a, b, Range(IntOrder), IntOrder)
            BY <1>2, <1>3, IntRanks, TextRanks, BlobRanks DEF Allowed, Grows, DecimalGrows, In, CharFamily, DecimalFamily
        <3> QED
            BY <1>2, <3>1, IntRanks DEF Grows, In, Rank
    <2>3. CASE ~v.neg
        BY <1>7, <2>1, <2>3
    <2>4. CASE v.neg
        <3>1. ~S.unsigned /\ v.rank <= IntMax(S)
            BY <1>4, <2>2, <2>4 DEF Holds
        <3>2. Width(S.base) \in Nat /\ Width(T.base) \in Nat /\ Width(S.base) <= Width(T.base)
            BY <2>2, WidthsGrow
        <3>3. IntMax(S) = 2 * Width(S.base) + 1
            BY <1>19, <2>2, <3>1, IntMaxFacts
        <3>4. IntMax(T) = 2 * Width(T.base) + (IF T.unsigned THEN 2 ELSE 1)
            BY <1>19, IntMaxFacts
        <3>5. IntMax(T) >= 2 * Width(T.base) + 1 /\ IntMax(T) \in Nat
            BY <1>19, <3>2, <3>4
        <3> QED
            BY <1>6, <3>1, <3>2, <3>3, <3>5
    <2> QED
        BY <1>16, <2>3, <2>4
<1>21. T.unsigned => ~v.neg
    BY <1>4, <1>5 DEF Holds
<1>22. T.base \in CharFamily \cup {"character", "nvarchar", "nchar"} /\ T.len # 0 => v.len <= T.len
    <2> SUFFICES ASSUME T.base \in CharFamily \cup {"character", "nvarchar", "nchar"}, T.len # 0 PROVE v.len <= T.len
        OBVIOUS
    <2>1. CASE a = b
        <3>1. S.base = T.base /\ S.len = T.len
            BY <1>2, <2>1
        <3> QED
            BY <1>4, <3>1 DEF Holds
    <2>2. CASE a # b
        <3>1. T.base \in CharFamily
            BY <1>2, <1>3, <2>2, IntRanks, TextRanks, BlobRanks DEF Allowed, Grows, DecimalGrows, In, CharFamily, DecimalFamily
        <3>2. CASE T.name \in CharFamily
            BY <1>7, <3>2
        <3>3. CASE T.name \notin CharFamily
            <4>1. T.name = "varchar2" /\ engine = "oracle"
                BY <1>8, <1>11, <3>1, <3>3, BaseFacts
            <4>2. S.base \notin Range(IntOrder) /\ S.base \notin DecimalFamily
                BY <1>5, <1>11, <4>1
            <4>3. S.base \in CharFamily /\ ~(T.len < S.len)
                BY <1>2, <1>3, <2>2, <3>1, <4>2, IntRanks, TextRanks, BlobRanks DEF Allowed, Grows, DecimalGrows, In, CharFamily, DecimalFamily
            <4>4. v.len <= S.len
                BY <1>4, <1>11, <4>1, <4>3 DEF Holds
            <4> QED
                BY <1>6, <1>9, <4>3, <4>4
        <3> QED
            BY <3>2, <3>3
    <2> QED
        BY <2>1, <2>2
<1>23. T.prec # 0 => v.digits <= T.prec - T.scale /\ v.scale <= T.scale
    <2> SUFFICES ASSUME T.prec # 0 PROVE v.digits <= T.prec - T.scale /\ v.scale <= T.scale
        OBVIOUS
    <2>1. CASE a = b
        <3>1. S.prec = T.prec /\ S.scale = T.scale
            BY <1>2, <2>1
        <3> QED
            BY <1>4, <3>1 DEF Holds
    <2>2. CASE a # b
        <3>1. In(S, T, DecimalFamily) /\ ~(T.prec - T.scale < S.prec - S.scale) /\ ~(T.scale < S.scale)
            BY <1>2, <1>3, <1>13, <2>2, IntRanks, TextRanks, BlobRanks DEF Allowed, Grows, DecimalGrows, In, CharFamily, DecimalFamily
        <3>2. S.prec # 0
            BY <1>5, <3>1
        <3>3. v.digits <= S.prec - S.scale /\ v.scale <= S.scale
            BY <1>4, <3>2 DEF Holds
        <3> QED
            BY <1>6, <1>9, <3>1, <3>3
    <2> QED
        BY <2>1, <2>2
<1>24. v.size <= Size(engine, T)
    <2>1. v.size <= Size(engine, S)
        BY <1>4 DEF Holds
    <2>2. Size(engine, S) = Size(engine, a) /\ Size(engine, T) = Size(engine, b)
        BY <1>2 DEF Size, Rank
    <2>3. Size(engine, a) \in 1..4 /\ Size(engine, b) \in 1..4 /\ Size(engine, a) <= Size(engine, b)
        BY <1>2, <1>3, <1>5, SizesGrow
    <2> QED
        BY <1>6, <2>1, <2>2, <2>3
<1>25. T.enum # {} => v.word \in T.enum
    <2> SUFFICES ASSUME T.enum # {} PROVE v.word \in T.enum
        OBVIOUS
    <2>1. S.enum # {} /\ S.enum \subseteq T.enum
        <3>1. CASE engine = "mysql"
            <4>1. S = T \/ (S.base = "enum" /\ S.enum \subseteq T.enum)
                BY <1>2, <1>3, <1>12, <3>1 DEF Allowed, Grows, DecimalGrows, In, Numbers
            <4> QED
                BY <1>12, <4>1
        <3>2. CASE engine = "postgres"
            BY <1>5, <3>2
        <3>3. CASE engine \in {"sqlserver", "oracle"}
            BY <1>12, <3>3
        <3> QED
            BY <3>1, <3>2, <3>3 DEF Engines, engine
    <2> QED
        BY <1>4, <2>1 DEF Holds
<1>26. v.charsets = {} \/ c.charset \in v.charsets
    <2> SUFFICES ASSUME v.charsets # {} PROVE c.charset \in v.charsets
        OBVIOUS
    <2>1. s.charset \in v.charsets /\ s.charset # ""
        BY <1>4, <1>16
    <2>2. engine = "mysql" /\ S.base \in CharFamily \cup Range(TextOrder) \cup {"enum", "set"}
        BY <1>10, <2>1
    <2>3. Allowed(S, T)
        BY <1>2, <1>3, <2>2
    <2>4. T.base \in CharFamily \cup Range(TextOrder) \cup {"enum", "set"}
        BY <2>2, <2>3, IntRanks, TextRanks, BlobRanks DEF Allowed, Grows, DecimalGrows, In, CharFamily, DecimalFamily
    <2>5. c.charset # "" /\ c.charset = s.charset
        BY <1>5, <1>10, <2>1, <2>2, <2>4 DEF Differ
    <2> QED
        BY <2>1, <2>5
<1> QED
    BY <1>20, <1>21, <1>22, <1>23, <1>24, <1>25, <1>26 DEF Takes, Holds, engine, T

\* A table whose like and whose values were found good takes every row.
LEMMA SettledFits ==
    ASSUME facts \in Scenarios, SettledBy(facts, "reported"), NEW t \in Range(facts.tables), InTarget(t), ~CaseApart(t),
           NEW row \in Range(Table("src", t).rows)
    PROVE  Fits(row, t)
<1> DEFINE src == facts.src.tables[t].cols
           tgt == facts.tgt.tables[t].cols
           rows == facts.src.tables[t].rows
<1>1. Table("src", t) = facts.src.tables[t] /\ Table("tgt", t) = facts.tgt.tables[t]
    BY DEF Table
<1>2. InSource(t) /\ InBoth(facts, t)
    BY ThereFacts DEF SettledBy, SourceOk, InBoth
<1>3. /\ IsTable(facts.engine, facts.src.tables[t]) /\ IsTable(facts.engine, facts.tgt.tables[t])
      /\ HasValues(facts.engine, facts.src.tables[t])
    BY <1>2, ScenarioFacts
<1>4. TableMatches(facts.engine, src, tgt) /\ RowsFit(src, tgt, rows)
    BY <1>2 DEF SettledBy, SchemaOk, DataOk
<1>5. facts.engine \in Engines
    BY ScenarioFacts
<1>6. Shown(tgt, Columns(facts.tgt, t)) /\ Shown(src, Columns(facts.src, t))
    BY <1>3, <1>5, ColumnsFacts
<1>7. row \in Range(rows)
    BY <1>1
<1>8. \A s \in Range(src), r \in Range(rows) : IsValue(r[s.name]) /\ Takes(facts.engine, s, r[s.name])
    BY <1>3 DEF HasValues
<1>9. \A s \in Range(src), c \in Range(tgt) : s.lower = c.lower => SameColumn(s, c)
    BY <1>1 DEF CaseApart
<1> HIDE DEF src, tgt, rows
<1>10. ASSUME NEW s \in Range(src)
       PROVE  \E c \in Range(tgt) : SameColumn(s, c) /\ (Unmeasured(s, c) \/ Takes(facts.engine, c, row[s.name]))
    <2>1. PICK i \in DOMAIN src : src[i] = s
        BY <1>10 DEF Range
    <2> DEFINE c == Column(tgt, s.lower)
               v == row[s.name]
    <2>2. Named(tgt, s.lower) # {} /\ Promised(facts.engine, s, c) /\ ValuesFit(c, rows, s.name)
        BY <1>4, <2>1 DEF TableMatches, RowsFit
    <2>3. IsColumn(facts.engine, s) /\ IsColumn(facts.engine, c) /\ c \in Range(tgt) /\ c.lower = s.lower
        BY <1>6, <2>1, <2>2 DEF Shown
    <2>4. IsValue(v) /\ Takes(facts.engine, s, v)
        BY <1>7, <1>8, <1>10
    <2>5. SameColumn(s, c)
        BY <1>9, <1>10, <2>3
    <2>6. v # NULL => Measured(c, v)
        BY <1>7, <2>2 DEF ValuesFit, Measured
    <2> HIDE DEF c, v
    <2>7. Unmeasured(s, c) \/ Takes(facts.engine, c, v)
        <3>1. CASE v = NULL
            BY <2>2, <2>4, <3>1 DEF Takes, Promised
        <3>2. CASE v # NULL
            BY <1>5, <2>2, <2>3, <2>4, <2>6, <3>2, LikeTakes
        <3> QED
            BY <3>1, <3>2
    <2> QED
        BY <2>3, <2>5, <2>7 DEF v
<1>11. ASSUME NEW c \in Range(tgt)
       PROVE  (\E s \in Range(src) : SameColumn(s, c)) \/ c.nullable \/ c.default # "" \/ c.auto
    <2>1. PICK i \in DOMAIN tgt : tgt[i] = c
        BY <1>11 DEF Range
    <2>2. CASE Named(src, c.lower) # {}
        <3>1. PICK j \in DOMAIN src : src[j].lower = c.lower
            BY <2>2 DEF Named
        <3>2. src[j] \in Range(src)
            BY <3>1 DEF Range
        <3> QED
            BY <1>9, <1>11, <3>1, <3>2
    <2>3. CASE Named(src, c.lower) = {}
        BY <1>4, <2>1, <2>3 DEF TableMatches, Dispensable
    <2> QED
        BY <2>2, <2>3
<1> QED
    BY <1>1, <1>10, <1>11 DEF Fits, src, tgt

\* phase45Data, compareTableColumns: a report that does not say NOT_READY
\* means that every row of every selected table goes into its target, but for
\* the values of changes nothing measures and names told apart by their case.
THEOREM CleanReportsCopy == ValidationSpec => []CleanReportCopies
<1>1. ValidationInit => CleanInv
    BY GraveNone DEF ValidationInit, CleanInv, SettledBy
<1>2. CleanInv /\ [ValidationNext]_validationVars => CleanInv'
    BY CleanStep
<1>3. CleanInv => CleanReportCopies
    <2> SUFFICES ASSUME CleanInv, phase = "reported", validation.readiness.status # "NOT_READY",
                        NEW t \in Range(facts.tables), InTarget(t) /\ ~CaseApart(t),
                        NEW row \in Range(Table("src", t).rows)
                 PROVE  Fits(row, t)
        BY DEF CleanReportCopies
    <2>1. facts \in Scenarios /\ SettledBy(facts, "reported")
        BY DEF CleanInv
    <2> QED
        BY <2>1, SettledFits
<1> QED
    BY <1>1, <1>2, <1>3, PTL DEF ValidationSpec
=============================================================================
