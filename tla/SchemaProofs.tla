----------------------------- MODULE SchemaProofs -----------------------------
(***************************************************************************)
(* What syncs, describes and edits leave of a connection's columns, for    *)
(* any number of tables, columns and requests; and what a prompt tells of  *)
(* a schema, for any databases, any scores of words and any limits.        *)
(***************************************************************************)
EXTENDS SchemaSync, SchemaReading, FiniteSetTheorems, TLAPS

Texts == Describers \cup Editors

LEMMA Roles ==
    /\ Syncs \cap Texts = {} /\ Describers \cap Editors = {}
    /\ Null \notin Texts /\ Initial \notin Syncs
    /\ Requests = Syncs \cup Texts
BY SchemaSyncAssumption DEF Texts, Requests

-----------------------------------------------------------------------------
(* Types                                                                   *)

LEMMA TypeInit == Init => TypeOK
<1> SUFFICES ASSUME Init PROVE TypeOK
    OBVIOUS
<1> USE DEF Init
<1>1. store \subseteq Row
    OBVIOUS
<1>2. /\ pc \in [Requests -> PcValues]
      /\ cur \in [Requests -> Tables]
      /\ todo \in [Syncs -> SUBSET Tables]
      /\ found \in [Syncs -> [Tables -> SUBSET ColNames]]
    BY DEF PcValues
<1>3. /\ preserved \in [Syncs -> [ColNames -> Descriptions]]
      /\ snapshot \in [Describers \cup Editors -> SUBSET Row]
      /\ saved \in [Tables -> [ColNames -> Descriptions]]
    BY DEF Descriptions
<1> QED
    BY <1>1, <1>2, <1>3, SchemaSyncAssumption DEF TypeOK

\* What a request that ends leaves of its local variables.
LEMMA Returned ==
    ASSUME TypeOK, NEW q \in Requests, NEW label \in PcValues, Return(q, label)
    PROVE  /\ pc' \in [Requests -> PcValues]
           /\ todo' \in [Syncs -> SUBSET Tables]
           /\ found' \in [Syncs -> [Tables -> SUBSET ColNames]]
           /\ preserved' \in [Syncs -> [ColNames -> Descriptions]]
           /\ snapshot' \in [Describers \cup Editors -> SUBSET Row]
<1> USE DEF Return, Goto, TypeOK, Descriptions
<1>1. pc' \in [Requests -> PcValues] /\ todo' \in [Syncs -> SUBSET Tables]
    OBVIOUS
<1>2. found' \in [Syncs -> [Tables -> SUBSET ColNames]]
    OBVIOUS
<1>3. preserved' \in [Syncs -> [ColNames -> Descriptions]]
    OBVIOUS
<1>4. snapshot' \in [Describers \cup Editors -> SUBSET Row]
    OBVIOUS
<1> QED
    BY <1>1, <1>2, <1>3, <1>4

LEMMA Started ==
    ASSUME TypeOK, NEW q \in Requests, MayStart(q)
    PROVE  overlap' \subseteq SUBSET Requests
BY DEF MayStart, TypeOK

\* A row that gets another text is still itself.
LEMMA Relabelled ==
    ASSUME NEW r \in Row, NEW text \in Descriptions
    PROVE  LET n == [r EXCEPT !.desc = text]
           IN n \in Row /\ n.desc = text /\ n.table = r.table /\ n.by = r.by /\ n.name = r.name
BY DEF Row

\* A text is written to rows that are there.
LEMMA Described ==
    ASSUME TypeOK, NEW q \in Row, NEW text \in Descriptions, Describe(q, text)
    PROVE  store' \subseteq Row /\ saved' \in [Tables -> [ColNames -> Descriptions]]
<1>1. store' \subseteq Row
    BY Relabelled DEF Describe, TypeOK
<1>2. q.table \in Tables /\ q.name \in ColNames
    BY DEF Row
<1>3. saved' \in [Tables -> [ColNames -> Descriptions]]
    BY <1>2 DEF Describe, TypeOK
<1> QED
    BY <1>1, <1>3

LEMMA TypeStep == TypeOK /\ [Next]_vars => TypeOK'
<1> SUFFICES ASSUME TypeOK, [Next]_vars PROVE TypeOK'
    OBVIOUS
<1>r. /\ \A s \in Syncs : s \in Requests
      /\ \A d \in Describers \cup Editors : d \in Requests /\ d \in Descriptions
      /\ Null \in Descriptions
    BY DEF Requests, Descriptions
<1>1. ASSUME NEW s \in Syncs, SyncStep(s) PROVE TypeOK'
    <2>1. CASE Discover(s)
        BY <1>r, <2>1, Started DEF Discover, Goto, TypeOK, PcValues
    <2>2. CASE UpsertTable(s)
        BY <1>r, <2>2 DEF UpsertTable, Goto, TypeOK, PcValues
    <2>3. CASE ReadExisting(s)
        BY <1>r, <2>3 DEF ReadExisting, Goto, TypeOK, PcValues
    <2>4. CASE DeleteColumns(s)
        BY <1>r, <2>4 DEF DeleteColumns, Goto, TypeOK, PcValues
    <2>5. CASE CreateColumns(s)
        <3>1. NewRows(s) \subseteq Row
            BY <1>r DEF NewRows, Row, TypeOK
        <3> QED
            BY <1>r, <2>5, <3>1 DEF CreateColumns, Goto, TypeOK, PcValues
    <2>6. CASE FinishSync(s)
        BY <1>r, <2>6, Returned DEF FinishSync, TypeOK, PcValues
    <2>7. CASE CrashSync(s)
        BY <1>r, <2>7, Returned DEF CrashSync, TypeOK, PcValues
    <2> QED
        BY <1>1, <2>1, <2>2, <2>3, <2>4, <2>5, <2>6, <2>7 DEF SyncStep
<1>2. ASSUME NEW d \in Describers, DescribeStep(d) PROVE TypeOK'
    <2>1. CASE ReadTable(d)
        <3>1. \A t : RowsOf(t) \subseteq Row
            BY DEF RowsOf, TypeOK
        <3> QED
            BY <1>r, <2>1, <3>1, Started DEF ReadTable, Goto, TypeOK, PcValues
    <2>2. CASE FillColumn(d)
        <3>1. PICK q \in snapshot[d] :
                \/ Describe(q, d) /\ UNCHANGED <<pc, todo, found, preserved>>
                                  /\ snapshot' = [snapshot EXCEPT ![d] = @ \ {q}]
                \/ UNCHANGED <<store, saved, pc, todo, found, preserved>>
                                  /\ snapshot' = [snapshot EXCEPT ![d] = @ \ {q}]
                \/ UNCHANGED <<store, saved>> /\ Return(d, "failed")
            BY <2>2 DEF FillColumn
        <3>2. q \in Row /\ d \in Descriptions /\ "failed" \in PcValues
            BY <1>r DEF TypeOK, PcValues
        <3>3. UNCHANGED <<source, ddl, cur, overlap>>
            BY <2>2 DEF FillColumn
        <3> QED
            BY <1>r, <3>1, <3>2, <3>3, Described, Returned DEF TypeOK
    <2>3. CASE FinishDescribe(d)
        BY <1>r, <2>3, Returned DEF FinishDescribe, TypeOK, PcValues
    <2> QED
        BY <1>2, <2>1, <2>2, <2>3 DEF DescribeStep
<1>3. ASSUME NEW h \in Editors, EditStep(h) PROVE TypeOK'
    <2>1. CASE FindColumn(h)
        BY <1>r, <2>1, Started DEF FindColumn, Goto, TypeOK, PcValues, Row
    <2>2. CASE WriteColumn(h)
        <3>1. PICK q \in snapshot[h], text \in {h, Null} : Describe(q, text)
            BY <2>2 DEF WriteColumn
        <3>2. q \in Row /\ text \in Descriptions /\ "done" \in PcValues
            BY <1>r DEF TypeOK, PcValues
        <3> QED
            BY <1>r, <2>2, <3>1, <3>2, Described, Returned DEF WriteColumn, TypeOK
    <2>3. CASE WriteFails(h)
        BY <1>r, <2>3, Returned DEF WriteFails, TypeOK, PcValues
    <2> QED
        BY <1>3, <2>1, <2>2, <2>3 DEF EditStep
<1>4. ASSUME NEW t \in Tables, NEW c \in ColNames, AlterSource(t, c) PROVE TypeOK'
    <2>1. /\ source' \in [Tables -> SUBSET ColNames]
          /\ saved' \in [Tables -> [ColNames -> Descriptions]]
        BY <1>r, <1>4 DEF AlterSource, TypeOK
    <2>2. ddl' \in 0..MaxDdl
        BY <1>4, SchemaSyncAssumption DEF AlterSource, TypeOK
    <2> QED
        BY <1>4, <2>1, <2>2 DEF AlterSource, TypeOK
<1>5. CASE UNCHANGED vars
    BY <1>5 DEF vars, TypeOK
<1> QED
    BY <1>1, <1>2, <1>3, <1>4, <1>5 DEF Next, AllDone

\* Every reachable state of the metadata is well typed.
THEOREM MetadataTyped == Spec => []TypeOK
BY TypeInit, TypeStep, PTL DEF Spec

-----------------------------------------------------------------------------
(* Who runs, and whose rows there are                                      *)

\* Requests that run at the same time are known to overlap.
Together ==
    \A p, q \in Requests : p # q /\ Running(p) /\ Running(q) => {p, q} \in overlap

\* The tables for which a sync has not created rows yet.
Ahead(s) ==
    {t \in Tables : \/ pc[s] = "idle" \/ t \in todo[s]
                    \/ pc[s] \in {"read", "delete", "create"} /\ t = cur[s]}

\* No row, stored or read, is one that a sync has still to create.
Fresh(rows) == \A r \in rows : r.by \in Syncs => r.table \notin Ahead(r.by)
AllFresh == Fresh(store) /\ \A d \in Texts : Fresh(snapshot[d])

\* Ids are unique, also among the rows that a request has read.
OneId(rows) == \A r, q \in rows : SameId(r, q) => r = q
Ids == OneId(store) /\ \A d \in Texts : OneId(snapshot[d])

\* Only who runs holds rows.
Holding == \A d \in Texts : snapshot[d] # {} => Running(d)

\* The table a sync works on is not one it has still to come to.
Current ==
    \A s \in Syncs : pc[s] \in {"read", "delete", "create"} => cur[s] \notin todo[s]

Base == TypeOK /\ Together /\ AllFresh /\ Ids /\ Holding /\ Current

LEMMA BaseInit == Init => Base
<1> SUFFICES ASSUME Init PROVE Base
    OBVIOUS
<1>1. TypeOK
    BY TypeInit
<1>2. Together
    BY DEF Init, Together, Running
<1>3. AllFresh
    BY Roles DEF Init, AllFresh, Fresh, Texts
<1>4. Ids
    BY DEF Init, Ids, OneId, SameId, Texts
<1>5. Holding
    BY DEF Init, Holding, Texts
<1>6. Current
    BY Roles DEF Init, Current
<1> QED
    BY <1>1, <1>2, <1>3, <1>4, <1>5, <1>6 DEF Base

LEMMA TogetherStep == TypeOK /\ Together /\ [Next]_vars => Together'
<1> SUFFICES ASSUME TypeOK, Together, [Next]_vars,
                    NEW p \in Requests, NEW q \in Requests,
                    p # q, Running(p)', Running(q)'
             PROVE  {p, q} \in overlap'
    BY DEF Together
<1>o. {p, q} \in overlap \/ ~Running(p) \/ ~Running(q)
    BY DEF Together
<1>1. ASSUME NEW r \in Requests, MayStart(r), \E label : Goto(r, label)
      PROVE  {p, q} \in overlap'
    <2>1. CASE p = r
        <3>1. Running(q)
            BY <1>1, <2>1 DEF Goto, Running, TypeOK
        <3> QED
            BY <1>1, <2>1, <3>1 DEF MayStart
    <2>2. CASE q = r
        <3>1. Running(p)
            BY <1>1, <2>2 DEF Goto, Running, TypeOK
        <3> QED
            BY <1>1, <2>2, <3>1 DEF MayStart
    <2>3. CASE p # r /\ q # r
        BY <1>o, <1>1, <2>3 DEF Goto, Running, TypeOK, MayStart
    <2> QED
        BY <2>1, <2>2, <2>3
<1>2. ASSUME NEW r \in Requests, Running(r), overlap' = overlap, \E label : Goto(r, label)
      PROVE  {p, q} \in overlap'
    BY <1>o, <1>2 DEF Goto, Running, TypeOK
<1>3. CASE pc' = pc /\ overlap' = overlap
    BY <1>o, <1>3 DEF Running
<1>4. ASSUME NEW s \in Syncs, SyncStep(s) PROVE {p, q} \in overlap'
    <2>1. s \in Requests
        BY DEF Requests
    <2> QED
        BY <1>1, <1>2, <1>4, <2>1 DEF SyncStep, Discover, UpsertTable, ReadExisting, DeleteColumns,
           CreateColumns, FinishSync, CrashSync, Return, Running
<1>5. ASSUME NEW d \in Describers, DescribeStep(d) PROVE {p, q} \in overlap'
    <2>1. d \in Requests
        BY DEF Requests
    <2> QED
        BY <1>1, <1>2, <1>3, <1>5, <2>1 DEF DescribeStep, ReadTable, FillColumn, FinishDescribe, Return, Running
<1>6. ASSUME NEW h \in Editors, EditStep(h) PROVE {p, q} \in overlap'
    <2>1. h \in Requests
        BY DEF Requests
    <2> QED
        BY <1>1, <1>2, <1>6, <2>1 DEF EditStep, FindColumn, WriteColumn, WriteFails, Return, Running
<1>7. ASSUME NEW t \in Tables, NEW c \in ColNames, AlterSource(t, c) PROVE {p, q} \in overlap'
    BY <1>3, <1>7 DEF AlterSource
<1>8. CASE UNCHANGED vars
    BY <1>3, <1>8 DEF vars
<1> QED
    BY <1>4, <1>5, <1>6, <1>7, <1>8 DEF Next, AllDone

\* A step of one request leaves the local variables of the others alone.
LEMMA OthersKeep ==
    ASSUME TypeOK, NEW q \in Requests, NEW label, Return(q, label), NEW d \in Requests, d # q
    PROVE  /\ pc'[d] = pc[d]
           /\ d \in Syncs => todo'[d] = todo[d] /\ found'[d] = found[d] /\ preserved'[d] = preserved[d]
           /\ d \in Texts => snapshot'[d] = snapshot[d]
BY DEF Return, Goto, TypeOK, Texts

\* What a sync has still to create only shrinks.
LEMMA AheadShrinks ==
    ASSUME TypeOK, [Next]_vars, NEW s \in Syncs
    PROVE  Ahead(s)' \subseteq Ahead(s)
<1>s. s \in Requests /\ s \notin Texts
    BY Roles
<1>1. ASSUME NEW r \in Syncs, SyncStep(r) PROVE Ahead(s)' \subseteq Ahead(s)
    <2>r. r \in Requests
        BY Roles
    <2>1. CASE r = s
        <3>1. CASE Discover(s)
            BY <3>1, <1>s DEF Discover, Goto, Ahead, TypeOK, MayStart
        <3>2. CASE UpsertTable(s)
            BY <3>2, <1>s DEF UpsertTable, Goto, Ahead, TypeOK
        <3>3. CASE ReadExisting(s) \/ DeleteColumns(s) \/ CreateColumns(s)
            BY <3>3, <1>s DEF ReadExisting, DeleteColumns, CreateColumns, Goto, Ahead, TypeOK
        <3>4. CASE FinishSync(s) \/ CrashSync(s)
            BY <3>4, <1>s DEF FinishSync, CrashSync, Return, Goto, Ahead, TypeOK
        <3> QED
            BY <1>1, <2>1, <3>1, <3>2, <3>3, <3>4 DEF SyncStep
    <2>2. CASE r # s
        <3>1. pc'[s] = pc[s] /\ todo'[s] = todo[s] /\ cur'[s] = cur[s]
            BY <1>1, <1>s, <2>r, <2>2, OthersKeep DEF SyncStep, Discover, UpsertTable, ReadExisting,
               DeleteColumns, CreateColumns, FinishSync, CrashSync, Goto, TypeOK
        <3> QED
            BY <3>1 DEF Ahead
    <2> QED
        BY <2>1, <2>2
<1>2. ASSUME NEW d \in Texts, d # s, \/ d \in Describers /\ DescribeStep(d)
                                     \/ d \in Editors /\ EditStep(d)
      PROVE  Ahead(s)' \subseteq Ahead(s)
    <2>1. d \in Requests
        BY Roles
    <2>2. pc'[s] = pc[s] /\ todo'[s] = todo[s] /\ cur'[s] = cur[s]
        BY <1>2, <1>s, <2>1, OthersKeep DEF DescribeStep, ReadTable, FillColumn, FinishDescribe,
           EditStep, FindColumn, WriteColumn, WriteFails, Goto, TypeOK
    <2> QED
        BY <2>2 DEF Ahead
<1>3. CASE UNCHANGED <<pc, todo, cur>>
    BY <1>3 DEF Ahead
<1> QED
    BY <1>1, <1>2, <1>3, <1>s DEF Next, AllDone, AlterSource, vars, Texts

\* What happens to the stored rows: some go, a sync creates its own, or a
\* request that runs gives a text to a row it has read.
Writing(e) ==
    \E q \in snapshot[e], text \in Descriptions :
        /\ Stored(q) /\ Describe(q, text)
        /\ text = e \/ text = Null
        /\ e \in Describers => text = e /\ q.desc = Null
        /\ snapshot'[e] \subseteq snapshot[e] \ {q}
        /\ \A d \in Texts : d # e => snapshot'[d] = snapshot[d]

LEMMA DescribeWrites ==
    ASSUME TypeOK, NEW d \in Describers, DescribeStep(d)
    PROVE  UNCHANGED <<store, saved>> \/ Writing(d)
<1>1. CASE FillColumn(d)
    <2>1. PICK q \in snapshot[d] : \/ UNCHANGED <<store, saved>>
                                   \/ /\ Stored(q) /\ Describe(q, d) /\ q.desc = Null
                                      /\ snapshot' = [snapshot EXCEPT ![d] = @ \ {q}]
        BY <1>1 DEF FillColumn, Fills
    <2>2. d \in Texts /\ d \in Descriptions
        BY DEF Texts, Descriptions
    <2>3. CASE ~UNCHANGED <<store, saved>>
        <3>1. /\ snapshot'[d] = snapshot[d] \ {q}
              /\ \A e \in Texts : e # d => snapshot'[e] = snapshot[e]
            BY <2>1, <2>2, <2>3 DEF TypeOK, Texts
        <3> QED
            BY <2>1, <2>2, <2>3, <3>1 DEF Writing
    <2> QED
        BY <2>3
<1> QED
    BY <1>1 DEF DescribeStep, ReadTable, FinishDescribe

LEMMA EditWrites ==
    ASSUME TypeOK, NEW h \in Editors, EditStep(h)
    PROVE  UNCHANGED <<store, saved>> \/ Writing(h)
<1>1. CASE WriteColumn(h)
    <2>1. PICK q \in snapshot[h], text \in {h, Null} : Stored(q) /\ Describe(q, text)
        BY <1>1 DEF WriteColumn
    <2>2. h \in Texts /\ h \in Requests /\ text \in Descriptions /\ h \notin Describers
        BY Roles DEF Texts, Descriptions
    <2>3. snapshot'[h] = {} /\ \A e \in Texts : e # h => snapshot'[e] = snapshot[e]
        BY <1>1, <2>2 DEF WriteColumn, Return, TypeOK, Texts
    <2> QED
        BY <2>1, <2>2, <2>3 DEF Writing
<1> QED
    BY <1>1 DEF EditStep, FindColumn, WriteFails

LEMMA StoreChanges ==
    ASSUME TypeOK, [Next]_vars
    PROVE  \/ store' \subseteq store
           \/ \E s \in Syncs : CreateColumns(s)
           \/ \E e \in Texts : Writing(e)
<1>1. ASSUME NEW s \in Syncs, SyncStep(s)
      PROVE  store' \subseteq store \/ CreateColumns(s)
    BY <1>1 DEF SyncStep, Discover, UpsertTable, ReadExisting, DeleteColumns, FinishSync, CrashSync
<1> QED
    BY <1>1, DescribeWrites, EditWrites DEF Next, AlterSource, AllDone, vars, Texts

\* What a request has read: less and less of it, after a first read.
LEMMA SnapshotChanges ==
    ASSUME TypeOK, [Next]_vars, NEW d \in Texts
    PROVE  \/ snapshot'[d] \subseteq snapshot[d] /\ (snapshot'[d] # {} => pc'[d] = pc[d])
           \/ snapshot'[d] \subseteq store /\ store' = store /\ Running(d)'
<1>d. d \in Requests /\ d \notin Syncs
    BY Roles
<1>1. ASSUME NEW s \in Syncs, SyncStep(s)
      PROVE  snapshot'[d] = snapshot[d] /\ pc'[d] = pc[d]
    <2>1. s \in Requests /\ s # d
        BY Roles
    <2> QED
        BY <1>1, <1>d, <2>1, OthersKeep DEF SyncStep, Discover, UpsertTable, ReadExisting, DeleteColumns,
           CreateColumns, FinishSync, CrashSync, Goto, TypeOK
<1>2. ASSUME NEW e \in Texts, \/ e \in Describers /\ DescribeStep(e)
                              \/ e \in Editors /\ EditStep(e)
      PROVE  \/ snapshot'[d] \subseteq snapshot[d] /\ (snapshot'[d] # {} => pc'[d] = pc[d])
             \/ snapshot'[d] \subseteq store /\ store' = store /\ Running(d)'
    <2>e. e \in Requests
        BY Roles
    <2>1. CASE e # d
        BY <1>2, <1>d, <2>1, <2>e, OthersKeep DEF DescribeStep, ReadTable, FillColumn, FinishDescribe,
           EditStep, FindColumn, WriteColumn, WriteFails, Goto, TypeOK, Texts
    <2>2. CASE e = d /\ (ReadTable(d) \/ FindColumn(d))
        BY <2>2, <1>d DEF ReadTable, FindColumn, Goto, TypeOK, Texts, RowsOf, Running
    <2>3. CASE e = d /\ (FinishDescribe(d) \/ WriteColumn(d) \/ WriteFails(d))
        BY <2>3, <1>d DEF FinishDescribe, WriteColumn, WriteFails, Return, TypeOK, Texts
    <2>4. CASE e = d /\ FillColumn(d)
        <3>1. \/ \E q \in snapshot[d] : pc' = pc /\ snapshot' = [snapshot EXCEPT ![d] = @ \ {q}]
              \/ Return(d, "failed")
            BY <2>4 DEF FillColumn
        <3> QED
            BY <3>1, <1>d DEF Return, TypeOK, Texts
    <2> QED
        BY <1>2, <2>1, <2>2, <2>3, <2>4 DEF DescribeStep, EditStep
<1> QED
    BY <1>1, <1>2 DEF Next, AlterSource, AllDone, vars, Texts

\* The image of a stored row under the text written to the row q.
LEMMA Image ==
    ASSUME TypeOK, NEW q \in Row, NEW text \in Descriptions, Describe(q, text), NEW n \in store'
    PROVE  \E r \in store : SameId(r, n) /\ n = IF SameId(r, q) THEN [r EXCEPT !.desc = text] ELSE r
<1>1. PICK r \in store : n = IF SameId(r, q) THEN [r EXCEPT !.desc = text] ELSE r
    BY DEF Describe
<1>2. r \in Row
    BY DEF TypeOK
<1> QED
    BY <1>1, <1>2, Relabelled DEF SameId

LEMMA ReadRow ==
    ASSUME TypeOK, NEW d \in Texts, NEW q \in snapshot[d]
    PROVE  q \in Row
BY DEF TypeOK, Texts

\* A row that was not there before is a created one, or another one's image.
LEMMA Origin ==
    ASSUME TypeOK, [Next]_vars, NEW n \in store'
    PROVE  \/ \E r \in store : SameId(r, n)
           \/ \E s \in Syncs : CreateColumns(s) /\ n \in NewRows(s)
<1>1. CASE store' \subseteq store
    BY <1>1 DEF SameId
<1>2. CASE \E s \in Syncs : CreateColumns(s)
    BY <1>2 DEF CreateColumns, SameId
<1>3. CASE \E e \in Texts : Writing(e)
    BY <1>3, Image, ReadRow DEF Writing
<1> QED
    BY <1>1, <1>2, <1>3, StoreChanges

LEMMA CurrentStep == TypeOK /\ Current /\ [Next]_vars => Current'
<1> SUFFICES ASSUME TypeOK, Current, [Next]_vars, NEW s \in Syncs,
                    pc'[s] \in {"read", "delete", "create"}
             PROVE  cur'[s] \notin todo'[s]
    BY DEF Current
<1>s. s \in Requests /\ s \notin Texts
    BY Roles
<1>c. pc[s] \in {"read", "delete", "create"} => cur[s] \notin todo[s]
    BY DEF Current
<1>1. ASSUME NEW r \in Syncs, SyncStep(r) PROVE cur'[s] \notin todo'[s]
    <2>r. r \in Requests
        BY Roles
    <2>1. CASE r = s
        BY <1>1, <1>s, <1>c, <2>1 DEF SyncStep, Discover, UpsertTable, ReadExisting, DeleteColumns,
           CreateColumns, FinishSync, CrashSync, Return, Goto, TypeOK
    <2>2. CASE r # s
        BY <1>1, <1>s, <1>c, <2>r, <2>2, OthersKeep DEF SyncStep, Discover, UpsertTable, ReadExisting,
           DeleteColumns, CreateColumns, FinishSync, CrashSync, Goto, TypeOK
    <2> QED
        BY <2>1, <2>2
<1>2. ASSUME NEW d \in Texts, \/ d \in Describers /\ DescribeStep(d)
                              \/ d \in Editors /\ EditStep(d)
      PROVE  cur'[s] \notin todo'[s]
    <2>1. d \in Requests /\ d # s
        BY Roles
    <2> QED
        BY <1>2, <1>s, <1>c, <2>1, OthersKeep DEF DescribeStep, ReadTable, FillColumn, FinishDescribe,
           EditStep, FindColumn, WriteColumn, WriteFails, Goto, TypeOK
<1>3. CASE UNCHANGED <<pc, todo, cur>>
    BY <1>3, <1>c
<1> QED
    BY <1>1, <1>2, <1>3, Roles DEF Next, AllDone, AlterSource, vars, Texts

LEMMA FreshStep == Base /\ [Next]_vars => AllFresh'
<1> SUFFICES ASSUME Base, [Next]_vars PROVE AllFresh'
    OBVIOUS
<1>b. TypeOK /\ AllFresh /\ Current
    BY DEF Base
<1>1. ASSUME NEW r, r.by \in Syncs, r.table \notin Ahead(r.by) PROVE r.table \notin Ahead(r.by)'
    BY <1>1, <1>b, AheadShrinks
<1>2. ASSUME NEW n \in store', n.by \in Syncs PROVE n.table \notin Ahead(n.by)'
    <2>1. ASSUME NEW r \in store, SameId(r, n) PROVE n.table \notin Ahead(n.by)'
        BY <1>1, <1>2, <1>b, <2>1 DEF AllFresh, Fresh, SameId
    <2>2. ASSUME NEW s \in Syncs, CreateColumns(s), n \in NewRows(s) PROVE n.table \notin Ahead(n.by)'
        <3>1. n.by = s /\ n.table = cur[s]
            BY <2>2 DEF NewRows
        <3>2. s \in Requests
            BY Roles
        <3>3. cur[s] \notin todo[s] /\ pc'[s] = "upsert" /\ todo' = todo
            BY <1>b, <2>2, <3>2 DEF CreateColumns, Current, Goto, TypeOK
        <3> QED
            BY <3>1, <3>3 DEF Ahead
    <2> QED
        BY <1>b, <2>1, <2>2, Origin
<1>3. ASSUME NEW d \in Texts, NEW r \in snapshot'[d], r.by \in Syncs
      PROVE  r.table \notin Ahead(r.by)'
    BY <1>1, <1>2, <1>3, <1>b, SnapshotChanges DEF AllFresh, Fresh
<1>4. Fresh(store)'
    BY <1>2 DEF Fresh
<1> QED
    BY <1>3, <1>4 DEF AllFresh, Fresh

LEMMA IdsStep == Base /\ [Next]_vars => Ids'
<1> SUFFICES ASSUME Base, [Next]_vars PROVE Ids'
    OBVIOUS
<1>b. TypeOK /\ AllFresh /\ Ids
    BY DEF Base
<1>1. OneId(store')
    <2>1. CASE store' \subseteq store
        BY <1>b, <2>1 DEF Ids, OneId
    <2>2. ASSUME NEW s \in Syncs, CreateColumns(s) PROVE OneId(store')
        <3>1. store' = store \cup NewRows(s)
            BY <2>2 DEF CreateColumns
        <3>2. ASSUME NEW r \in NewRows(s), NEW q \in NewRows(s), SameId(r, q) PROVE r = q
            BY <3>2 DEF NewRows, SameId
        <3>3. ASSUME NEW r \in store, NEW q \in NewRows(s) PROVE ~SameId(r, q) /\ ~SameId(q, r)
            <4>1. q.by = s /\ q.table = cur[s]
                BY DEF NewRows
            <4>2. s \in Requests
                BY Roles
            <4>3. cur[s] \in Ahead(s)
                BY <1>b, <2>2, <4>2 DEF CreateColumns, Ahead, TypeOK
            <4> QED
                BY <1>b, <4>1, <4>3 DEF AllFresh, Fresh, SameId
        <3> QED
            BY <1>b, <3>1, <3>2, <3>3 DEF Ids, OneId
    <2>3. ASSUME NEW e \in Texts, Writing(e) PROVE OneId(store')
        <3>1. PICK q \in snapshot[e], text \in Descriptions : Describe(q, text)
            BY <2>3 DEF Writing
        <3>2. q \in Row
            BY <1>b, ReadRow
        <3>3. ASSUME NEW m \in store', NEW n \in store', SameId(m, n) PROVE m = n
            <4>1. PICK r \in store : SameId(r, m) /\ m = IF SameId(r, q) THEN [r EXCEPT !.desc = text] ELSE r
                BY <1>b, <3>1, <3>2, Image
            <4>2. PICK p \in store : SameId(p, n) /\ n = IF SameId(p, q) THEN [p EXCEPT !.desc = text] ELSE p
                BY <1>b, <3>1, <3>2, Image
            <4>3. SameId(r, p)
                BY <3>3, <4>1, <4>2 DEF SameId
            <4> QED
                BY <1>b, <4>1, <4>2, <4>3 DEF Ids, OneId
        <3> QED
            BY <3>3 DEF OneId
    <2> QED
        BY <1>b, <2>1, <2>2, <2>3, StoreChanges
<1>2. ASSUME NEW d \in Texts PROVE OneId(snapshot'[d])
    BY <1>b, SnapshotChanges DEF Ids, OneId
<1> QED
    BY <1>1, <1>2 DEF Ids, OneId

LEMMA HoldingStep == Base /\ [Next]_vars => Holding'
BY SnapshotChanges DEF Base, Holding, Running

LEMMA BaseStep == Base /\ [Next]_vars => Base'
BY TypeStep, TogetherStep, FreshStep, IdsStep, HoldingStep, CurrentStep DEF Base

Names(t) == {r.name : r \in RowsOf(t)}

-----------------------------------------------------------------------------
(* What steps leave alone                                                  *)

LEMMA OverlapGrows == TypeOK /\ [Next]_vars => overlap \subseteq overlap'
<1> SUFFICES ASSUME TypeOK, [Next]_vars PROVE overlap \subseteq overlap'
    OBVIOUS
<1>1. ASSUME NEW s \in Syncs, SyncStep(s) PROVE overlap \subseteq overlap'
    BY <1>1 DEF SyncStep, Discover, MayStart, UpsertTable, ReadExisting, DeleteColumns, CreateColumns,
       FinishSync, CrashSync
<1>2. ASSUME NEW d \in Describers, DescribeStep(d) PROVE overlap \subseteq overlap'
    BY <1>2 DEF DescribeStep, ReadTable, MayStart, FillColumn, FinishDescribe
<1>3. ASSUME NEW h \in Editors, EditStep(h) PROVE overlap \subseteq overlap'
    BY <1>3 DEF EditStep, FindColumn, MayStart, WriteColumn, WriteFails
<1> QED
    BY <1>1, <1>2, <1>3 DEF Next, AlterSource, AllDone, vars

\* What a sync knows.
Own(s) == <<pc[s], cur[s], todo[s], found[s], preserved[s]>>

LEMMA SyncStepKeeps ==
    ASSUME TypeOK, NEW r \in Syncs, SyncStep(r), NEW s \in Syncs, s # r
    PROVE  Own(s)' = Own(s)
<1>1. r \in Requests /\ s \in Requests
    BY Roles
<1> QED
    BY <1>1, OthersKeep DEF SyncStep, Discover, UpsertTable, ReadExisting, DeleteColumns, CreateColumns,
       FinishSync, CrashSync, Goto, TypeOK, Own

TextStep(d) == (d \in Describers /\ DescribeStep(d)) \/ (d \in Editors /\ EditStep(d))

LEMMA TextStepKeeps ==
    ASSUME TypeOK, NEW d \in Texts, TextStep(d), NEW s \in Syncs
    PROVE  Own(s)' = Own(s) /\ source' = source
<1>1. d \in Requests /\ s \in Requests /\ s # d
    BY Roles
<1> QED
    BY <1>1, OthersKeep DEF TextStep, DescribeStep, ReadTable, FillColumn, FinishDescribe,
       EditStep, FindColumn, WriteColumn, WriteFails, Goto, TypeOK, Own

\* Who takes a step runs, or starts and then knows who runs.
LEMMA Overlaps ==
    ASSUME Base, [Next]_vars,
           NEW p \in Requests, NEW s \in Syncs, p # s, Running(s)',
           (p \in Syncs /\ SyncStep(p)) \/ (p \in Texts /\ TextStep(p))
    PROVE  {s, p} \in overlap'
<1>1. s \in Requests /\ p \in Requests /\ Running(s)
    <2>1. s \in Requests /\ pc'[s] = pc[s]
        BY Roles, SyncStepKeeps, TextStepKeeps DEF Base, Own
    <2> QED
        BY <2>1 DEF Running
<1>2. Running(p) \/ MayStart(p)
    BY DEF SyncStep, Discover, UpsertTable, ReadExisting, DeleteColumns, CreateColumns, FinishSync, CrashSync,
       TextStep, DescribeStep, ReadTable, FillColumn, FinishDescribe, EditStep, FindColumn, WriteColumn,
       WriteFails, Running
<1>3. Running(p) => {s, p} \in overlap
    BY <1>1 DEF Base, Together
<1>4. MayStart(p) => {s, p} \in overlap'
    BY <1>1 DEF MayStart
<1> QED
    BY <1>2, <1>3, <1>4, OverlapGrows DEF Base

LEMMA MetGrows ==
    ASSUME TypeOK, [Next]_vars, NEW A, NEW B, Met(A, B)
    PROVE  Met(A, B)'
BY OverlapGrows DEF Met

\* The five kinds of a step.
LEMMA Steps ==
    ASSUME [Next]_vars
    PROVE  \/ \E s \in Syncs : SyncStep(s)
           \/ \E d \in Texts : TextStep(d)
           \/ \E t \in Tables, c \in ColNames : AlterSource(t, c)
           \/ UNCHANGED vars
<1>1. ASSUME NEW d \in Describers, DescribeStep(d) PROVE \E e \in Texts : TextStep(e)
    <2>1. d \in Texts
        BY DEF Texts
    <2>2. TextStep(d)
        BY <1>1 DEF TextStep
    <2> QED
        BY <2>1, <2>2
<1>2. ASSUME NEW h \in Editors, EditStep(h) PROVE \E e \in Texts : TextStep(e)
    <2>1. h \in Texts
        BY DEF Texts
    <2>2. TextStep(h)
        BY <1>2 DEF TextStep
    <2> QED
        BY <2>1, <2>2
<1> QED
    BY <1>1, <1>2 DEF Next, AllDone

\* A text changes no name.
LEMMA NamesKept ==
    ASSUME TypeOK, NEW e \in Texts, Writing(e), NEW t
    PROVE  Names(t)' = Names(t)
<1>1. PICK q \in snapshot[e], text \in Descriptions : Describe(q, text)
    BY DEF Writing
<1>2. q \in Row
    BY ReadRow
<1>3. ASSUME NEW n \in Names(t) PROVE n \in Names(t)'
    <2>1. PICK r \in store : r.table = t /\ r.name = n
        BY DEF Names, RowsOf
    <2>2. r \in Row
        BY DEF TypeOK
    <2> DEFINE m == IF SameId(r, q) THEN [r EXCEPT !.desc = text] ELSE r
    <2>3. m \in store' /\ m.table = t /\ m.name = n
        BY <1>1, <2>1, <2>2, Relabelled DEF Describe
    <2> QED
        BY <2>3 DEF Names, RowsOf
<1>4. ASSUME NEW n \in Names(t)' PROVE n \in Names(t)
    BY <1>1, <1>2, <1>4, Image DEF Names, RowsOf, SameId
<1> QED
    BY <1>3, <1>4

-----------------------------------------------------------------------------
(* What a sync leaves                                                      *)

\* A sync that met no other has emptied the table it will create rows for,
\* and the tables behind it have the columns it found.
FoundInv ==
    \A s \in Syncs : Running(s) /\ ~Met({s}, Syncs) =>
        /\ pc[s] = "create" => RowsOf(cur[s]) = {}
        /\ \A t \in Tables : found[s][t] # {} /\ t \notin Ahead(s) => Names(t) = found[s][t]

\* A sync works on tables it found, which have every column described, and
\* carries their descriptions over.
CarriedInv ==
    ~Interrupted /\ ~Met(Syncs, Requests) =>
        \A s \in Syncs : Running(s) =>
            /\ \A t \in Ahead(s) : found[s][t] # {}
            /\ \A t \in Tables, c \in ColNames :
                    saved[t][c] # Null /\ found[s][t] # {} => c \in found[s][t]
            /\ pc[s] \in {"delete", "create"} =>
                    \A c \in ColNames : saved[cur[s]][c] # Null =>
                        preserved[s][c] = saved[cur[s]][c]

\* What was saved last describes a column of the source.
SavedInSource ==
    \A t \in Tables, c \in ColNames : saved[t][c] # Null => c \in source[t]

\* A row that had no description when it was read got one from another text.
FilledInv ==
    \A d \in Describers : \A q \in snapshot[d] : \A r \in store :
        SameId(r, q) /\ q.desc = Null /\ r.desc # Null => Met({d}, Editors \cup Describers)

LEMMA FoundInit == Init => FoundInv
BY Roles DEF Init, FoundInv, Running

LEMMA FoundStep == Base /\ FoundInv /\ [Next]_vars => FoundInv'
<1> SUFFICES ASSUME Base, FoundInv, [Next]_vars,
                    NEW s \in Syncs, Running(s)', ~Met({s}, Syncs)'
             PROVE  /\ pc'[s] = "create" => RowsOf(cur[s])' = {}
                    /\ \A t \in Tables : found'[s][t] # {} /\ t \notin Ahead(s)' => Names(t)' = found'[s][t]
    BY DEF FoundInv
<1> DEFINE Goal == /\ pc'[s] = "create" => RowsOf(cur[s])' = {}
                   /\ \A t \in Tables : found'[s][t] # {} /\ t \notin Ahead(s)' => Names(t)' = found'[s][t]
<1>b. TypeOK /\ s \in Requests
    BY Roles DEF Base
<1>f. Running(s) => /\ pc[s] = "create" => RowsOf(cur[s]) = {}
                    /\ \A t \in Tables : found[s][t] # {} /\ t \notin Ahead(s) => Names(t) = found[s][t]
    BY <1>b, MetGrows DEF FoundInv
<1>e. \A t : RowsOf(t) = {} <=> Names(t) = {}
    BY DEF Names
<1>e2. \A t : RowsOf(t)' = {} <=> Names(t)' = {}
    BY DEF Names
<1>1. ASSUME NEW r \in Syncs, SyncStep(r), r # s PROVE FALSE
    <2>1. r \in Requests /\ {s, r} \in overlap'
        <3>1. r \in Requests
            BY Roles
        <3> QED
            BY <1>1, <3>1, Overlaps
    <2> QED
        BY <1>1, <2>1 DEF Met
<1>2. CASE SyncStep(s)
    <2>1. CASE Discover(s)
        BY <1>b, <2>1 DEF Discover, Goto, Ahead, TypeOK
    <2>2. CASE UpsertTable(s)
        <3>1. Running(s) /\ Ahead(s)' = Ahead(s) /\ pc'[s] = "read" /\ found' = found /\ store' = store
            BY <1>b, <2>2 DEF UpsertTable, Goto, Ahead, TypeOK, Running
        <3> QED
            BY <1>f, <3>1 DEF Names, RowsOf
    <2>3. CASE ReadExisting(s)
        <3>1. Running(s) /\ Ahead(s)' = Ahead(s) /\ pc'[s] = "delete" /\ found' = found /\ store' = store
            BY <1>b, <2>3 DEF ReadExisting, Goto, Ahead, TypeOK, Running
        <3> QED
            BY <1>f, <3>1 DEF Names, RowsOf
    <2>4. CASE DeleteColumns(s)
        <3>1. /\ Running(s) /\ Ahead(s)' = Ahead(s) /\ found' = found /\ cur' = cur
              /\ cur[s] \in Ahead(s) /\ store' = store \ RowsOf(cur[s])
            BY <1>b, <2>4 DEF DeleteColumns, Goto, Ahead, TypeOK, Running
        <3>2. \A t : t # cur[s] => RowsOf(t)' = RowsOf(t)
            BY <3>1 DEF RowsOf
        <3>3. RowsOf(cur[s])' = {}
            BY <3>1 DEF RowsOf
        <3> QED
            BY <1>f, <3>1, <3>2, <3>3 DEF Names
    <2>5. CASE CreateColumns(s)
        <3>1. /\ Running(s) /\ pc[s] = "create" /\ pc'[s] = "upsert" /\ found' = found /\ cur' = cur
              /\ cur[s] \in Tables /\ store' = store \cup NewRows(s)
              /\ \A t \in Tables : t \notin Ahead(s)' => t = cur[s] \/ t \notin Ahead(s)
            BY <1>b, <2>5 DEF CreateColumns, Goto, Ahead, TypeOK, Running
        <3>2. ASSUME NEW t \in Tables, t # cur[s] PROVE Names(t)' = Names(t)
            BY <3>1, <3>2 DEF Names, RowsOf, NewRows
        <3>3. RowsOf(cur[s])' = NewRows(s)
            BY <1>f, <3>1 DEF RowsOf, NewRows
        <3>4. Names(cur[s])' = {r.name : r \in NewRows(s)}
            BY <3>1, <3>3 DEF Names
        <3>5. {r.name : r \in NewRows(s)} = found[s][cur[s]]
            <4>1. ASSUME NEW r \in NewRows(s) PROVE r.name \in found[s][cur[s]]
                BY DEF NewRows
            <4>2. ASSUME NEW c \in found[s][cur[s]] PROVE \E r \in NewRows(s) : r.name = c
                <5> DEFINE r == [table |-> cur[s], by |-> s, name |-> c, desc |-> preserved[s][c]]
                <5>1. r \in NewRows(s) /\ r.name = c
                    BY DEF NewRows
                <5> QED
                    BY <5>1
            <4> QED
                BY <4>1, <4>2
        <3> QED
            BY <1>f, <3>1, <3>2, <3>4, <3>5
    <2>6. CASE FinishSync(s) \/ CrashSync(s)
        BY <1>b, <2>6 DEF FinishSync, CrashSync, Return, Goto, TypeOK, Running
    <2> QED
        BY <1>2, <2>1, <2>2, <2>3, <2>4, <2>5, <2>6 DEF SyncStep
<1>3. ASSUME Own(s)' = Own(s), \A t : Names(t)' = Names(t) PROVE Goal
    <2>1. Running(s) /\ Ahead(s)' = Ahead(s) /\ pc'[s] = pc[s] /\ cur'[s] = cur[s] /\ found'[s] = found[s]
        BY <1>3 DEF Own, Ahead, Running
    <2> QED
        BY <1>3, <1>e, <1>e2, <1>f, <2>1
<1>4. ASSUME NEW d \in Texts, TextStep(d) PROVE Goal
    <2>1. store' = store \/ Writing(d)
        BY <1>b, <1>4, DescribeWrites, EditWrites DEF TextStep
    <2>2. \A t : Names(t)' = Names(t)
        BY <1>b, <2>1, NamesKept DEF Names, RowsOf
    <2> QED
        BY <1>3, <1>4, <1>b, <2>2, TextStepKeeps
<1>5. CASE (\E t \in Tables, c \in ColNames : AlterSource(t, c)) \/ UNCHANGED vars
    BY <1>3, <1>5 DEF AlterSource, vars, Own, Names, RowsOf
<1> QED
    BY <1>1, <1>2, <1>4, <1>5, Steps

\* discoverSchema, the loop over the tables, lastSyncedAt: a sync that
\* completes, and met no other sync, leaves rows for exactly the columns it
\* discovered, by their names.
THEOREM FoundStored == Spec => SyncStoresFound
<1>1. ASSUME Base, FoundInv, [Next]_vars
      PROVE  [\A s \in Syncs : FinishSync(s) /\ ~Met({s}, Syncs) =>
                 \A t \in Tables : found[s][t] # {} =>
                     {r.name : r \in RowsOf(t)} = found[s][t]]_vars
    <2> SUFFICES ASSUME NEW s \in Syncs, FinishSync(s), ~Met({s}, Syncs),
                        NEW t \in Tables, found[s][t] # {}
                 PROVE  {r.name : r \in RowsOf(t)} = found[s][t]
        OBVIOUS
    <2>1. Running(s) /\ t \notin Ahead(s)
        BY DEF FinishSync, Running, Ahead
    <2> QED
        BY <1>1, <2>1 DEF FoundInv, Names
<1> QED
    BY <1>1, BaseInit, BaseStep, FoundInit, FoundStep, PTL DEF Spec, SyncStoresFound

LEMMA OneRowInit == Init => OneRowPerColumn
BY DEF Init, OneRowPerColumn

LEMMA OneRowStep == Base /\ FoundInv /\ OneRowPerColumn /\ [Next]_vars => OneRowPerColumn'
<1> SUFFICES ASSUME Base, FoundInv, OneRowPerColumn, [Next]_vars, ~Met(Syncs, Syncs)',
                    NEW m \in store', NEW n \in store', m.table = n.table, m.name = n.name
             PROVE  m = n
    BY DEF OneRowPerColumn
<1>b. TypeOK
    BY DEF Base
<1>m. ~Met(Syncs, Syncs)
    BY <1>b, MetGrows
<1>o. \A r, q \in store : r.table = q.table /\ r.name = q.name => r = q
    BY <1>m DEF OneRowPerColumn
<1>1. CASE store' \subseteq store
    BY <1>1, <1>o
<1>2. ASSUME NEW s \in Syncs, CreateColumns(s) PROVE m = n
    <2>1. Running(s) /\ pc[s] = "create" /\ ~Met({s}, Syncs)
        BY <1>2, <1>m DEF CreateColumns, Running, Met
    <2>2. RowsOf(cur[s]) = {}
        BY <2>1 DEF FoundInv
    <2> QED
        BY <1>2, <1>o, <2>2 DEF CreateColumns, NewRows, RowsOf
<1>3. ASSUME NEW e \in Texts, Writing(e) PROVE m = n
    <2>1. PICK q \in snapshot[e], text \in Descriptions : Describe(q, text)
        BY <1>3 DEF Writing
    <2>2. q \in Row
        BY <1>b, ReadRow
    <2>3. PICK r \in store : SameId(r, m) /\ m = IF SameId(r, q) THEN [r EXCEPT !.desc = text] ELSE r
        BY <1>b, <2>1, <2>2, Image
    <2>4. PICK p \in store : SameId(p, n) /\ n = IF SameId(p, q) THEN [p EXCEPT !.desc = text] ELSE p
        BY <1>b, <2>1, <2>2, Image
    <2> QED
        BY <1>o, <2>3, <2>4 DEF SameId
<1> QED
    BY <1>1, <1>2, <1>3, <1>b, StoreChanges

\* deleteMany, createMany: as long as no two syncs have overlapped, a column has
\* one row.
THEOREM OneRow == Spec => []OneRowPerColumn
BY BaseInit, BaseStep, FoundInit, FoundStep, OneRowInit, OneRowStep, PTL DEF Spec

-----------------------------------------------------------------------------
(* What a text replaces                                                    *)

LEMMA FilledInit == Init => FilledInv
BY DEF Init, FilledInv

LEMMA FilledStep == Base /\ FilledInv /\ [Next]_vars => FilledInv'
<1> SUFFICES ASSUME Base, FilledInv, [Next]_vars,
                    NEW d \in Describers, NEW q \in snapshot'[d], NEW n \in store',
                    SameId(n, q), q.desc = Null, n.desc # Null
             PROVE  Met({d}, Editors \cup Describers)'
    BY DEF FilledInv
<1>b. TypeOK /\ d \in Texts /\ d \in Requests
    BY Roles DEF Base, Texts
<1>1. ASSUME q \in snapshot[d], n \in store PROVE Met({d}, Editors \cup Describers)'
    BY <1>1, <1>b, MetGrows DEF FilledInv
<1>2. CASE snapshot'[d] \subseteq store /\ store' = store
    BY <1>2 DEF Base, Ids, OneId
<1>3. CASE snapshot'[d] \subseteq snapshot[d]
    <2>1. ASSUME NEW s \in Syncs, CreateColumns(s), n \in NewRows(s) PROVE FALSE
        <3>1. s \in Requests /\ q.by = s /\ q.table = cur[s]
            BY <2>1, Roles DEF NewRows, SameId
        <3>2. cur[s] \in Ahead(s)
            BY <1>b, <2>1, <3>1 DEF CreateColumns, Ahead, TypeOK
        <3> QED
            BY <1>3, <1>b, <3>1, <3>2 DEF Base, AllFresh, Fresh
    <2>2. ASSUME NEW e \in Texts, Writing(e) PROVE Met({d}, Editors \cup Describers)'
        <3>1. PICK w \in snapshot[e], text \in Descriptions :
                /\ Describe(w, text)
                /\ snapshot'[e] \subseteq snapshot[e] \ {w}
            BY <2>2 DEF Writing
        <3>2. w \in Row
            BY <1>b, ReadRow
        <3>3. PICK r \in store : SameId(r, n) /\ n = IF SameId(r, w) THEN [r EXCEPT !.desc = text] ELSE r
            BY <1>b, <3>1, <3>2, Image
        <3>4. CASE e = d
            <4>1. q \in snapshot[d] /\ q # w
                BY <3>1, <3>4
            <4>2. ~SameId(q, w)
                BY <1>b, <3>4, <4>1 DEF Base, Ids, OneId
            <4>3. ~SameId(r, w)
                BY <3>3, <4>2 DEF SameId
            <4> QED
                BY <1>1, <3>3, <4>1, <4>3
        <3>5. CASE e # d
            <4>1. Running(e) /\ Running(d) /\ e \in Requests
                BY <1>3, <1>b, Roles DEF Base, Holding
            <4>2. {d, e} \in overlap
                BY <1>b, <3>5, <4>1 DEF Base, Together
            <4>3. Met({d}, Editors \cup Describers)
                BY <4>2 DEF Met, Texts
            <4> QED
                BY <1>b, <4>3, MetGrows
        <3> QED
            BY <3>4, <3>5
    <2>3. CASE n \in store
        BY <1>1, <1>3, <2>3
    <2> QED
        BY <1>b, <2>1, <2>2, <2>3, StoreChanges DEF CreateColumns
<1> QED
    BY <1>2, <1>3, <1>b, SnapshotChanges

\* "Fill description only if empty - never clobber an existing one": a
\* generated text never replaces a stored description, if no edit and no other
\* describe was under way while the text was being generated.
THEOREM NothingClobbered == Spec => NeverClobber
<1>1. ASSUME Base, FilledInv, [Next]_vars
      PROVE  [\A r \in store, q \in store' :
                 SameId(r, q) /\ r.desc # Null /\ q.desc # r.desc =>
                     \A d \in Describers : q.desc = d => Met({d}, Editors \cup Describers)]_vars
    <2> SUFFICES ASSUME NEW r \in store, NEW n \in store', SameId(r, n), r.desc # Null, n.desc # r.desc,
                        NEW d \in Describers, n.desc = d
                 PROVE  Met({d}, Editors \cup Describers)
        OBVIOUS
    <2>b. TypeOK
        BY <1>1 DEF Base
    <2>1. n \notin store
        BY <1>1 DEF Base, Ids, OneId
    <2>2. ASSUME NEW s \in Syncs, CreateColumns(s) PROVE FALSE
        <3>1. s \in Requests /\ r.by = s /\ r.table = cur[s]
            BY <2>1, <2>2, Roles DEF CreateColumns, NewRows, SameId
        <3>2. cur[s] \in Ahead(s)
            BY <2>b, <2>2, <3>1 DEF CreateColumns, Ahead, TypeOK
        <3> QED
            BY <1>1, <3>1, <3>2 DEF Base, AllFresh, Fresh
    <2>3. ASSUME NEW e \in Texts, Writing(e) PROVE Met({d}, Editors \cup Describers)
        <3>1. PICK w \in snapshot[e], text \in Descriptions :
                /\ Describe(w, text)
                /\ text = e \/ text = Null
                /\ e \in Describers => w.desc = Null
            BY <2>3 DEF Writing
        <3>2. w \in Row
            BY <2>b, ReadRow
        <3>3. PICK p \in store : SameId(p, n) /\ n = IF SameId(p, w) THEN [p EXCEPT !.desc = text] ELSE p
            BY <2>b, <3>1, <3>2, Image
        <3>4. p = r
            BY <1>1, <3>3 DEF Base, Ids, OneId, SameId
        <3>5. SameId(r, w) /\ n.desc = text
            BY <2>b, <3>3, <3>4, Relabelled DEF TypeOK
        <3>6. e = d
            BY <3>1, <3>5, Roles DEF Texts
        <3> QED
            BY <1>1, <3>1, <3>5, <3>6 DEF FilledInv
    <2> QED
        BY <1>1, <2>1, <2>2, <2>3, <2>b, StoreChanges
<1> QED
    BY <1>1, BaseInit, BaseStep, FilledInit, FilledStep, PTL DEF Spec, NeverClobber

-----------------------------------------------------------------------------
(* What people wrote                                                       *)

LEMMA SavedInit == Init => SavedInSource /\ CarriedInv /\ DescriptionsSurvive
BY Roles DEF Init, SavedInSource, CarriedInv, DescriptionsSurvive, Running

\* What a text makes of what is saved and stored.
LEMMA WritingSaves ==
    ASSUME TypeOK, SavedInSource, NEW e \in Texts, Writing(e),
           NEW t \in Tables, NEW c \in ColNames, saved'[t][c] # Null
    PROVE  /\ c \in source[t]
           /\ \/ \E r \in store' : r.table = t /\ r.name = c /\ r.desc = saved'[t][c]
              \/ /\ saved'[t][c] = saved[t][c]
                 /\ \A r \in store : r.table = t /\ r.name = c => r \in store'
<1>1. PICK q \in snapshot[e], text \in Descriptions : Stored(q) /\ Describe(q, text)
    BY DEF Writing
<1>2. q \in Row /\ q.table \in Tables /\ q.name \in ColNames
    BY ReadRow DEF Row
<1>3. saved'[t][c] = IF t = q.table /\ c = q.name /\ c \in source[t] THEN text ELSE saved[t][c]
    BY <1>1, <1>2 DEF Describe, TypeOK
<1>4. c \in source[t]
    BY <1>3 DEF SavedInSource
<1>5. CASE t = q.table /\ c = q.name
    <2>1. PICK r \in store : SameId(r, q)
        BY <1>1 DEF Stored
    <2>2. r \in Row
        BY DEF TypeOK
    <2> DEFINE n == [r EXCEPT !.desc = text]
    <2>3. n \in store' /\ n.table = t /\ n.name = c /\ n.desc = text
        BY <1>1, <1>5, <2>1, <2>2, Relabelled DEF Describe, SameId
    <2> QED
        BY <1>3, <1>4, <1>5, <2>3
<1>6. CASE ~(t = q.table /\ c = q.name)
    <2>1. \A r \in store : r.table = t /\ r.name = c => r \in store'
        BY <1>1, <1>6 DEF Describe, SameId
    <2> QED
        BY <1>3, <1>4, <1>6, <2>1
<1> QED
    BY <1>5, <1>6

LEMMA SavedStep == Base /\ SavedInSource /\ [Next]_vars => SavedInSource'
<1> SUFFICES ASSUME Base, SavedInSource, [Next]_vars,
                    NEW t \in Tables, NEW c \in ColNames, saved'[t][c] # Null
             PROVE  c \in source'[t]
    BY DEF SavedInSource
<1>b. TypeOK
    BY DEF Base
<1>1. CASE UNCHANGED <<saved, source>>
    BY <1>1 DEF SavedInSource
<1>2. ASSUME NEW s \in Syncs, SyncStep(s) PROVE c \in source'[t]
    BY <1>1, <1>2 DEF SyncStep, Discover, UpsertTable, ReadExisting, DeleteColumns, CreateColumns,
       FinishSync, CrashSync
<1>3. ASSUME NEW d \in Texts, TextStep(d) PROVE c \in source'[t]
    <2>1. saved' = saved \/ Writing(d)
        BY <1>b, <1>3, DescribeWrites, EditWrites DEF TextStep
    <2>2. source' = source
        BY <1>3 DEF TextStep, DescribeStep, ReadTable, FillColumn, FinishDescribe,
           EditStep, FindColumn, WriteColumn, WriteFails
    <2> QED
        BY <1>1, <1>b, <2>1, <2>2, WritingSaves
<1>4. ASSUME NEW u \in Tables, NEW b \in ColNames, AlterSource(u, b) PROVE c \in source'[t]
    <2>1. ~(t = u /\ c = b) /\ saved'[t][c] = saved[t][c]
        BY <1>b, <1>4 DEF AlterSource, TypeOK
    <2> QED
        BY <1>b, <1>4, <2>1 DEF AlterSource, SavedInSource, TypeOK
<1> QED
    BY <1>1, <1>2, <1>3, <1>4, Steps DEF vars

\* A sync that has stopped stays stopped.
LEMMA StaysInterrupted == TypeOK /\ [Next]_vars /\ Interrupted => Interrupted'
<1> SUFFICES ASSUME TypeOK, [Next]_vars, NEW s \in Syncs, pc[s] = "failed" PROVE pc'[s] = "failed"
    BY DEF Interrupted
<1>1. ASSUME SyncStep(s) PROVE FALSE
    BY <1>1 DEF SyncStep, Discover, MayStart, UpsertTable, ReadExisting, DeleteColumns, CreateColumns,
       FinishSync, CrashSync, Running
<1> QED
    BY <1>1, Steps, SyncStepKeeps, TextStepKeeps DEF AlterSource, vars, Own

\* With no request beside it, a sync that runs takes the step.
LEMMA Undisturbed ==
    ASSUME Base, [Next]_vars, ~Met(Syncs, Requests)', NEW s \in Syncs, Running(s)'
    PROVE  \/ SyncStep(s)
           \/ \E t \in Tables, c \in ColNames : AlterSource(t, c)
           \/ UNCHANGED vars
<1>1. ASSUME NEW p \in Requests, p # s,
             (p \in Syncs /\ SyncStep(p)) \/ (p \in Texts /\ TextStep(p))
      PROVE  FALSE
    BY <1>1, Overlaps DEF Met
<1>2. ASSUME NEW r \in Syncs, SyncStep(r), r # s PROVE FALSE
    <2>1. r \in Requests
        BY Roles
    <2> QED
        BY <1>1, <1>2, <2>1
<1>3. ASSUME NEW d \in Texts, TextStep(d) PROVE FALSE
    <2>1. d \in Requests /\ d # s
        BY Roles
    <2> QED
        BY <1>1, <1>3, <2>1
<1> QED
    BY <1>2, <1>3, Steps

LEMMA CarriedStep ==
    Base /\ SavedInSource /\ OneRowPerColumn /\ CarriedInv /\ DescriptionsSurvive /\ [Next]_vars
        => CarriedInv'
<1> SUFFICES ASSUME Base, SavedInSource, OneRowPerColumn, CarriedInv, DescriptionsSurvive, [Next]_vars,
                    ~Interrupted', ~Met(Syncs, Requests)', NEW s \in Syncs, Running(s)'
             PROVE  /\ \A t \in Ahead(s)' : found'[s][t] # {}
                    /\ \A t \in Tables, c \in ColNames :
                            saved'[t][c] # Null /\ found'[s][t] # {} => c \in found'[s][t]
                    /\ pc'[s] \in {"delete", "create"} =>
                            \A c \in ColNames : saved'[cur'[s]][c] # Null =>
                                preserved'[s][c] = saved'[cur'[s]][c]
    BY DEF CarriedInv
<1>b. TypeOK /\ s \in Requests
    BY Roles DEF Base
<1>m. ~Interrupted /\ ~Met(Syncs, Requests)
    BY <1>b, StaysInterrupted, MetGrows
<1>c. Running(s) =>
            /\ \A t \in Ahead(s) : found[s][t] # {}
            /\ \A t \in Tables, c \in ColNames :
                    saved[t][c] # Null /\ found[s][t] # {} => c \in found[s][t]
            /\ pc[s] \in {"delete", "create"} =>
                    \A c \in ColNames : saved[cur[s]][c] # Null =>
                        preserved[s][c] = saved[cur[s]][c]
    BY <1>m DEF CarriedInv
<1>1. CASE Discover(s)
    <2>1. found'[s] = source /\ saved' = saved /\ pc'[s] = "upsert" /\ Ahead(s)' = {t \in Tables : source[t] # {}}
        BY <1>b, <1>1 DEF Discover, Goto, Ahead, TypeOK
    <2> QED
        BY <2>1 DEF SavedInSource
<1>2. CASE UpsertTable(s)
    <2>1. /\ Running(s) /\ Ahead(s)' = Ahead(s) /\ pc'[s] = "read"
          /\ found' = found /\ saved' = saved
        BY <1>b, <1>2 DEF UpsertTable, Goto, Ahead, TypeOK, Running
    <2> QED
        BY <1>c, <2>1
<1>3. CASE ReadExisting(s)
    <2>1. /\ Running(s) /\ pc[s] = "read" /\ Ahead(s)' = Ahead(s) /\ cur' = cur
          /\ found' = found /\ saved' = saved /\ cur[s] \in Tables
        BY <1>b, <1>3 DEF ReadExisting, Goto, Ahead, TypeOK, Running
    <2>2. ~BeingReplaced(cur[s])
        <3>1. ASSUME NEW r \in Syncs, pc[r] = "create", r # s PROVE FALSE
            <4>1. r \in Requests /\ Running(r)
                BY <3>1, Roles DEF Running
            <4>2. {s, r} \in overlap
                BY <1>b, <2>1, <3>1, <4>1 DEF Base, Together
            <4> QED
                BY <1>m, <4>1, <4>2 DEF Met
        <3> QED
            BY <2>1, <3>1 DEF BeingReplaced
    <2>3. ASSUME NEW c \in ColNames, saved[cur[s]][c] # Null
          PROVE  preserved'[s][c] = saved[cur[s]][c]
        <3>1. PICK r \in RowsOf(cur[s]) : r.name = c /\ r.desc = saved[cur[s]][c]
            BY <1>m, <2>1, <2>2, <2>3 DEF DescriptionsSurvive
        <3>2. PICK p \in [ColNames -> Descriptions] :
                /\ \A a \in ColNames :
                     LET same == {q \in RowsOf(cur[s]) : q.name = a} IN
                     IF same = {} THEN p[a] = Null ELSE \E q \in same : p[a] = q.desc
                /\ preserved' = [preserved EXCEPT ![s] = p]
            BY <1>3 DEF ReadExisting
        <3>3. PICK q \in RowsOf(cur[s]) : q.name = c /\ p[c] = q.desc
            BY <3>1, <3>2
        <3>4. ~Met(Syncs, Syncs)
            BY <1>m, Roles DEF Met
        <3>5. q = r
            BY <3>1, <3>3, <3>4 DEF OneRowPerColumn, RowsOf
        <3>6. preserved'[s] = p
            BY <1>b, <3>2 DEF TypeOK
        <3> QED
            BY <3>1, <3>3, <3>5, <3>6
    <2> QED
        BY <1>c, <2>1, <2>3
<1>4. CASE DeleteColumns(s)
    <2>1. /\ Running(s) /\ pc[s] = "delete" /\ Ahead(s)' = Ahead(s) /\ cur' = cur
          /\ found' = found /\ saved' = saved /\ preserved' = preserved
        BY <1>b, <1>4 DEF DeleteColumns, Goto, Ahead, TypeOK, Running
    <2> QED
        BY <1>c, <2>1
<1>5. CASE CreateColumns(s)
    <2>1. /\ Running(s) /\ pc'[s] = "upsert" /\ Ahead(s)' \subseteq Ahead(s)
          /\ found' = found /\ saved' = saved
        BY <1>b, <1>5 DEF CreateColumns, Goto, Ahead, TypeOK, Running
    <2> QED
        BY <1>c, <2>1
<1>6. CASE FinishSync(s) \/ CrashSync(s)
    BY <1>b, <1>6 DEF FinishSync, CrashSync, Return, Goto, TypeOK, Running
<1>7. ASSUME NEW u \in Tables, NEW b \in ColNames, AlterSource(u, b)
      PROVE  /\ Running(s) /\ Ahead(s)' = Ahead(s)
             /\ pc' = pc /\ cur' = cur /\ found' = found /\ preserved' = preserved
             /\ \A t \in Tables, c \in ColNames : saved'[t][c] # Null => saved'[t][c] = saved[t][c]
    BY <1>b, <1>7 DEF AlterSource, Running, Ahead, TypeOK
<1>8. CASE \E u \in Tables, b \in ColNames : AlterSource(u, b)
    <2>1. cur[s] \in Tables
        BY <1>b DEF TypeOK
    <2> QED
        BY <1>c, <1>7, <1>8, <2>1
<1>9. CASE UNCHANGED vars
    BY <1>c, <1>9 DEF vars, Running, Ahead
<1> QED
    BY <1>1, <1>2, <1>3, <1>4, <1>5, <1>6, <1>8, <1>9, Undisturbed DEF SyncStep

LEMMA SurviveStep ==
    Base /\ SavedInSource /\ CarriedInv /\ DescriptionsSurvive /\ [Next]_vars => DescriptionsSurvive'
<1> SUFFICES ASSUME Base, SavedInSource, CarriedInv, DescriptionsSurvive, [Next]_vars,
                    ~Interrupted', ~Met(Syncs, Requests)',
                    NEW t \in Tables, NEW c \in ColNames, saved'[t][c] # Null, ~BeingReplaced(t)'
             PROVE  \E r \in store' : r.table = t /\ r.name = c /\ r.desc = saved'[t][c]
    BY DEF DescriptionsSurvive, RowsOf
<1>b. TypeOK
    BY DEF Base
<1>m. ~Interrupted /\ ~Met(Syncs, Requests)
    BY <1>b, StaysInterrupted, MetGrows
<1>d. saved[t][c] # Null /\ ~BeingReplaced(t) =>
        \E r \in store : r.table = t /\ r.name = c /\ r.desc = saved[t][c]
    BY <1>m DEF DescriptionsSurvive, RowsOf
<1>1. ASSUME NEW s \in Syncs, SyncStep(s)
      PROVE  \E r \in store' : r.table = t /\ r.name = c /\ r.desc = saved'[t][c]
    <2>s. s \in Requests
        BY Roles
    <2>1. saved' = saved
        BY <1>1 DEF SyncStep, Discover, UpsertTable, ReadExisting, DeleteColumns, CreateColumns,
           FinishSync, CrashSync
    <2>2. ASSUME pc[s] # "create" \/ cur[s] # t PROVE ~BeingReplaced(t)
        <3>1. \A r \in Syncs : r # s => pc'[r] = pc[r] /\ cur'[r] = cur[r]
            BY <1>1, <1>b, SyncStepKeeps DEF Own
        <3> QED
            BY <2>2, <3>1 DEF BeingReplaced
    <2>3. CASE DeleteColumns(s)
        <3>1. /\ pc[s] = "delete" /\ pc'[s] = "create" /\ cur' = cur
              /\ store' = store \ RowsOf(cur[s])
            BY <1>b, <2>s, <2>3 DEF DeleteColumns, Goto, TypeOK
        <3>2. cur[s] # t
            BY <3>1 DEF BeingReplaced
        <3> QED
            BY <1>d, <2>1, <2>2, <3>1, <3>2 DEF RowsOf
    <2>4. CASE CreateColumns(s)
        <3>1. /\ pc[s] = "create" /\ Running(s) /\ cur[s] \in Ahead(s)
              /\ store' = store \cup NewRows(s)
            BY <1>b, <2>s, <2>4 DEF CreateColumns, Running, Ahead, TypeOK
        <3>2. CASE cur[s] # t
            BY <1>d, <2>1, <2>2, <3>1, <3>2
        <3>3. CASE cur[s] = t
            <4>1. c \in found[s][t] /\ preserved[s][c] = saved[t][c]
                BY <1>m, <2>1, <3>1, <3>3 DEF CarriedInv
            <4> DEFINE n == [table |-> cur[s], by |-> s, name |-> c, desc |-> preserved[s][c]]
            <4>2. n \in NewRows(s) /\ n.table = t /\ n.name = c /\ n.desc = saved[t][c]
                BY <3>3, <4>1 DEF NewRows
            <4> QED
                BY <2>1, <3>1, <4>2
        <3> QED
            BY <3>2, <3>3
    <2>5. CASE CrashSync(s)
        <3>1. pc'[s] = "failed"
            BY <1>b, <2>s, <2>5 DEF CrashSync, Return, Goto, TypeOK
        <3> QED
            BY <3>1 DEF Interrupted
    <2>6. CASE Discover(s) \/ UpsertTable(s) \/ ReadExisting(s) \/ FinishSync(s)
        <3>1. store' = store /\ pc[s] # "create"
            BY <2>6 DEF Discover, MayStart, UpsertTable, ReadExisting, FinishSync
        <3> QED
            BY <1>d, <2>1, <2>2, <3>1
    <2> QED
        BY <1>1, <2>3, <2>4, <2>5, <2>6 DEF SyncStep
<1>2. ASSUME NEW d \in Texts, TextStep(d)
      PROVE  \E r \in store' : r.table = t /\ r.name = c /\ r.desc = saved'[t][c]
    <2>1. ~BeingReplaced(t)
        BY <1>2, <1>b, TextStepKeeps DEF BeingReplaced, Own
    <2>2. UNCHANGED <<store, saved>> \/ Writing(d)
        BY <1>b, <1>2, DescribeWrites, EditWrites DEF TextStep
    <2>3. CASE UNCHANGED <<store, saved>>
        BY <1>d, <2>1, <2>3
    <2>4. CASE Writing(d)
        BY <1>b, <1>d, <2>1, <2>4, WritingSaves
    <2> QED
        BY <2>2, <2>3, <2>4
<1>3. ASSUME NEW u \in Tables, NEW b \in ColNames, AlterSource(u, b)
      PROVE  \E r \in store' : r.table = t /\ r.name = c /\ r.desc = saved'[t][c]
    <2>1. store' = store /\ saved'[t][c] = saved[t][c] /\ ~BeingReplaced(t)
        BY <1>b, <1>3 DEF AlterSource, BeingReplaced, TypeOK
    <2> QED
        BY <1>d, <2>1
<1>4. CASE UNCHANGED vars
    BY <1>d, <1>4 DEF vars, BeingReplaced
<1> QED
    BY <1>1, <1>2, <1>3, <1>4, Steps

\* "Preserve descriptions + sample values across re-syncs": the description
\* last confirmed for a column the customer still has is stored, as long as no
\* sync has stopped half-way or was under way together with any other request.
THEOREM TextsSurvive == Spec => []DescriptionsSurvive
BY BaseInit, BaseStep, FoundInit, FoundStep, OneRowInit, OneRowStep,
   SavedInit, SavedStep, CarriedStep, SurviveStep, PTL DEF Spec

-----------------------------------------------------------------------------
(* What a prompt tells                                                     *)

Engines == MysqlLike \cup PostgresLike \cup {"sqlserver", "oracle", "snowflake"}

\* The columns one catalog query says are of primary keys.
KeyRowsOf(engine, d) ==
    IF engine \in MysqlLike THEN ColumnKeyPri(d) ELSE PrimaryKeyRows(d)

\* Where joining by name mixes up what is declared in d.
MixedIn(d, t, c) ==
    \E k \in d.constraints, f \in OfKind(d, "foreign") :
        /\ k.name = f.name /\ k.table = t /\ c \in Range(k.columns)
        /\ Range(f.columns) # {c} \/ \E j \in d.constraints \ {f} : j.name = f.name

-----------------------------------------------------------------------------
(* What one query tells                                                    *)

LEMMA PrimaryByName ==
    ASSUME NEW e \in Engines \ MysqlLike, NEW d, DatabaseOK(e, d), NEW t, NEW c,
           e \in PostgresLike => ~MixedIn(d, t, c),
           <<t, c>> \in PrimaryKeyRows(d)
    PROVE  InPrimaryKey(d, t, c)
<1>1. PICK u \in KeyColumnUsage(d) : u.table = t /\ u.column = c /\ u.name \in {k.name : k \in OfKind(d, "primary")}
    BY DEF PrimaryKeyRows
<1>2. PICK p \in OfKind(d, "primary") : u.name = p.name
    BY <1>1
<1>3. PICK k \in d.constraints : u.name = k.name /\ k.table = t /\ c \in Range(k.columns)
    BY <1>1 DEF KeyColumnUsage
<1>4. p \in d.constraints /\ p.kind = "primary"
    BY DEF OfKind
<1>5. CASE k = p
    BY <1>3, <1>4, <1>5 DEF InPrimaryKey, OfKind
<1>6. CASE k # p
    <2>1. e \in PostgresLike /\ "foreign" \in {p.kind, k.kind}
        BY <1>2, <1>3, <1>4, <1>6 DEF DatabaseOK
    <2>2. k \in OfKind(d, "foreign") /\ p \in d.constraints \ {k} /\ p.name = k.name
        BY <1>2, <1>3, <1>4, <1>6, <2>1 DEF OfKind
    <2>3. MixedIn(d, t, c)
        BY <1>3, <2>2 DEF MixedIn
    <2> QED
        BY <2>1, <2>3
<1> QED
    BY <1>5, <1>6

LEMMA PrimaryToldByName ==
    ASSUME NEW d, NEW t, NEW c, InPrimaryKey(d, t, c)
    PROVE  <<t, c>> \in PrimaryKeyRows(d)
<1>1. PICK k \in OfKind(d, "primary") : k.table = t /\ c \in Range(k.columns)
    BY DEF InPrimaryKey
<1> DEFINE u == [name |-> k.name, table |-> k.table, column |-> c]
<1>2. u \in KeyColumnUsage(d)
    BY <1>1 DEF KeyColumnUsage, OfKind
<1>3. u.name \in {j.name : j \in OfKind(d, "primary")} /\ <<u.table, u.column>> = <<t, c>>
    BY <1>1
<1> QED
    BY <1>2, <1>3 DEF PrimaryKeyRows

LEMMA PrimaryByColumnKey ==
    ASSUME NEW e \in Engines, NEW d, DatabaseOK(e, d), NEW t, NEW c
    PROVE  /\ <<t, c>> \in ColumnKeyPri(d) => InPrimaryKey(d, t, c) \/ Keyless(d, t)
           /\ InPrimaryKey(d, t, c) => <<t, c>> \in ColumnKeyPri(d)
<1> DEFINE keyed(u) == {k \in OfKind(d, "primary") : k.table = u}
           unique(u) == {k \in OfKind(d, "unique") : k.table = u /\ Range(k.columns) \cap d.nullable[u] = {}}
           first(u) == IF keyed(u) # {} THEN keyed(u) ELSE unique(u)
           of(u) == IF first(u) = {} THEN {} ELSE {<<u, x>> : x \in Range((CHOOSE k \in first(u) : TRUE).columns)}
<1>1. ColumnKeyPri(d) = UNION {of(u) : u \in DOMAIN d.columns}
    BY DEF ColumnKeyPri
<1>2. ASSUME <<t, c>> \in ColumnKeyPri(d) PROVE InPrimaryKey(d, t, c) \/ Keyless(d, t)
    <2>1. PICK u \in DOMAIN d.columns : <<t, c>> \in of(u)
        <3> HIDE DEF of
        <3> QED
            BY <1>1, <1>2
    <2>2. u = t /\ first(t) # {} /\ c \in Range((CHOOSE k \in first(t) : TRUE).columns)
        BY <2>1
    <2>3. CASE keyed(t) = {}
        BY <2>3 DEF Keyless
    <2>4. CASE keyed(t) # {}
        <3>1. (CHOOSE k \in first(t) : TRUE) \in keyed(t)
            BY <2>4
        <3> QED
            BY <2>2, <3>1 DEF InPrimaryKey
    <2> QED
        BY <2>3, <2>4
<1>3. ASSUME InPrimaryKey(d, t, c) PROVE <<t, c>> \in ColumnKeyPri(d)
    <2>1. PICK k \in keyed(t) : c \in Range(k.columns)
        BY <1>3 DEF InPrimaryKey
    <2>2. \A j \in keyed(t) : j = k
        BY DEF OfKind, DatabaseOK
    <2>3. first(t) # {} /\ (CHOOSE j \in first(t) : TRUE) = k
        <3>1. first(t) = keyed(t) /\ (CHOOSE j \in first(t) : TRUE) \in first(t)
            OBVIOUS
        <3> QED
            BY <2>2, <3>1
    <2>4. t \in DOMAIN d.columns
        BY <2>1 DEF OfKind, DatabaseOK
    <2>5. <<t, c>> \in of(t)
        BY <2>1, <2>3
    <2> QED
        BY <1>1, <2>4, <2>5
<1> QED
    BY <1>2, <1>3

LEMMA ReferenceRows ==
    ASSUME NEW e \in Engines, NEW d, DatabaseOK(e, d), NEW t, NEW c,
           e \in PostgresLike => ~MixedIn(d, t, c)
    PROVE  /\ \A r \in ForeignKeyRows(e, d) :
                  <<r[1], r[2]>> = <<t, c>> => /\ <<r[3], r[4]>> \in ReferencesOf(d, t, c)
                                             /\ <<r[3], r[4]>> # NoReference
           /\ ReferencesOf(d, t, c) # {} => \E r \in ForeignKeyRows(e, d) : <<r[1], r[2]>> = <<t, c>>
<1> DEFINE Foreigns == OfKind(d, "foreign")
           refs(k) == {<<k.target, k.refs[n]>> : n \in {m \in DOMAIN k.columns : k.columns[m] = c}}
<1>1. \A x : x \in ReferencesOf(d, t, c) <=> \E k \in Foreigns : k.table = t /\ x \in refs(k)
    BY DEF ReferencesOf
<1>2. \A k \in Foreigns : /\ k \in d.constraints /\ k.kind = "foreign"
                         /\ DOMAIN k.refs = DOMAIN k.columns
                         /\ \A n \in DOMAIN k.refs : <<k.target, k.refs[n]>> # NoReference
    BY DEF DatabaseOK, OfKind
<1>3. ByPosition(d) = ByColumn(d)
    <2> DEFINE key(k) == CHOOSE p \in d.constraints : p.kind # "foreign" /\ p.table = k.target /\ p.columns = k.refs
    <2>1. ASSUME NEW k \in Foreigns PROVE key(k).table = k.target /\ key(k).columns = k.refs
        BY <1>2 DEF DatabaseOK
    <2> HIDE DEF key
    <2>2. ASSUME NEW k \in Foreigns
          PROVE  {<<k.table, k.columns[n], key(k).table, key(k).columns[n]>> : n \in DOMAIN k.columns}
                    = {<<k.table, k.columns[n], k.target, k.refs[n]>> : n \in DOMAIN k.columns}
        BY <2>1
    <2> QED
        BY <2>2 DEF ByPosition, ByColumn, key
<1>4. CASE e \notin PostgresLike
    <2>1. ForeignKeyRows(e, d) = ByColumn(d)
        BY <1>3, <1>4 DEF ForeignKeyRows
    <2>2. ASSUME NEW r \in ByColumn(d), <<r[1], r[2]>> = <<t, c>>
          PROVE  <<r[3], r[4]>> \in ReferencesOf(d, t, c) /\ <<r[3], r[4]>> # NoReference
        <3>1. PICK k \in Foreigns : \E n \in DOMAIN k.columns : r = <<k.table, k.columns[n], k.target, k.refs[n]>>
            BY DEF ByColumn
        <3>2. PICK n \in DOMAIN k.columns : k.table = t /\ k.columns[n] = c /\ <<r[3], r[4]>> = <<k.target, k.refs[n]>>
            BY <2>2, <3>1
        <3> QED
            BY <1>1, <1>2, <3>2
    <2>3. ASSUME ReferencesOf(d, t, c) # {} PROVE \E r \in ByColumn(d) : <<r[1], r[2]>> = <<t, c>>
        <3>1. PICK k \in Foreigns : k.table = t /\ refs(k) # {}
            BY <1>1, <2>3
        <3>2. PICK n \in DOMAIN k.columns : k.columns[n] = c
            BY <3>1
        <3>3. <<k.table, k.columns[n], k.target, k.refs[n]>> \in ByColumn(d)
            BY DEF ByColumn
        <3> QED
            BY <3>1, <3>2, <3>3
    <2> QED
        BY <2>1, <2>2, <2>3
<1>5. CASE e \in PostgresLike
    <2>1. ForeignKeyRows(e, d) = JoinedByName(d)
        BY <1>5 DEF ForeignKeyRows, PostgresLike
    <2>2. ASSUME NEW r \in JoinedByName(d), <<r[1], r[2]>> = <<t, c>>
          PROVE  <<r[3], r[4]>> \in ReferencesOf(d, t, c) /\ <<r[3], r[4]>> # NoReference
        <3>1. PICK u \in KeyColumnUsage(d), v \in ConstraintColumnUsage(d) :
                 /\ u.name = v.name /\ u.name \in {k.name : k \in Foreigns}
                 /\ r = <<u.table, u.column, v.table, v.column>>
            BY DEF JoinedByName
        <3>2. PICK f \in Foreigns : u.name = f.name
            BY <3>1
        <3>3. PICK k \in d.constraints : u.name = k.name /\ k.table = u.table /\ u.column \in Range(k.columns)
            BY DEF KeyColumnUsage
        <3>4. PICK g \in d.constraints :
                 /\ v.name = g.name
                 /\ g.kind = "foreign" => v.table = g.target /\ v.column \in Range(g.refs)
            BY DEF ConstraintColumnUsage
        <3>5. Range(f.columns) = {c} /\ \A j \in d.constraints : j.name = f.name => j = f
            BY <1>5, <2>2, <3>1, <3>2, <3>3 DEF MixedIn
        <3>6. k = f /\ g = f /\ f.kind = "foreign" /\ f.table = t
            BY <1>2, <2>2, <3>1, <3>2, <3>3, <3>4, <3>5
        <3>7. PICK n \in DOMAIN f.refs : v.column = f.refs[n]
            BY <3>4, <3>6 DEF Range
        <3>8. n \in DOMAIN f.columns /\ f.columns[n] = c
            BY <1>2, <3>5 DEF Range
        <3>9. <<r[3], r[4]>> = <<f.target, f.refs[n]>>
            BY <3>1, <3>4, <3>6, <3>7
        <3> QED
            BY <1>1, <1>2, <3>6, <3>8, <3>9
    <2>3. ASSUME ReferencesOf(d, t, c) # {} PROVE \E r \in JoinedByName(d) : <<r[1], r[2]>> = <<t, c>>
        <3>1. PICK k \in Foreigns : k.table = t /\ refs(k) # {}
            BY <1>1, <2>3
        <3>2. PICK n \in DOMAIN k.columns : k.columns[n] = c
            BY <3>1
        <3> DEFINE u == [name |-> k.name, table |-> k.table, column |-> c]
                   v == [name |-> k.name, table |-> k.target, column |-> k.refs[n]]
        <3>3. u \in KeyColumnUsage(d)
            <4>1. k \in d.constraints /\ c \in Range(k.columns)
                BY <1>2, <3>2 DEF Range
            <4>2. u \in {[name |-> k.name, table |-> k.table, column |-> x] : x \in Range(k.columns)}
                BY <4>1
            <4> QED
                BY <4>1, <4>2 DEF KeyColumnUsage
        <3>4. v \in ConstraintColumnUsage(d)
            BY <1>2 DEF ConstraintColumnUsage, Range
        <3>5. <<u.table, u.column, v.table, v.column>> \in JoinedByName(d)
            <4>1. <<u, v>> \in KeyColumnUsage(d) \X ConstraintColumnUsage(d)
                BY <3>3, <3>4
            <4>2. u.name = v.name /\ u.name \in {j.name : j \in Foreigns}
                OBVIOUS
            <4> HIDE DEF u, v
            <4> QED
                BY <4>1, <4>2 DEF JoinedByName
        <3> QED
            BY <3>1, <3>5
    <2> QED
        BY <2>1, <2>2, <2>3
<1> QED
    BY <1>4, <1>5

-----------------------------------------------------------------------------
(* The choice of tables                                                    *)

\* Top takes as many as it may, when it leaves one out.
LEMMA TopFills ==
    ASSUME NEW S, IsFiniteSet(S), S \subseteq DOMAIN RowOrder,
           NEW score, \A t \in S : score[t] \in Nat,
           NEW n \in Nat, NEW p \in S, p \notin Top(S, score, n)
    PROVE  Cardinality(Top(S, score, n)) = n
<1> DEFINE Pred(t) == {u \in S : Before(score, u, t)}
           N == Cardinality(S)
           T == Top(S, score, n)
           rank == [t \in S |-> Cardinality(Pred(t))]
           rankT == [t \in T |-> rank[t]]
<1>1. /\ \A t \in S : RowOrder[t] \in Nat
      /\ \A t \in S, u \in S : RowOrder[t] = RowOrder[u] => t = u
    BY SchemaReadingAssumption DEF IsInjective, Range
<1>2. N \in Nat
    BY FS_CardinalityType
<1>3. /\ \A t \in S : ~Before(score, t, t)
      /\ \A t \in S, u \in S : t # u => Before(score, t, u) \/ Before(score, u, t)
      /\ \A t \in S, u \in S, v \in S : Before(score, t, u) /\ Before(score, u, v) => Before(score, t, v)
    BY <1>1 DEF Before
<1>4. \A t \in S : IsFiniteSet(Pred(t)) /\ Cardinality(Pred(t)) \in Nat /\ Cardinality(Pred(t)) < N
    <2>1. TAKE t \in S
    <2>2. Pred(t) \in SUBSET S /\ Pred(t) # S
        BY <1>3
    <2> HIDE DEF Pred
    <2> QED
        BY <1>2, <2>2, FS_Subset, FS_CardinalityType
<1>5. ASSUME NEW t \in S, NEW u \in S, Before(score, t, u)
      PROVE  Cardinality(Pred(t)) < Cardinality(Pred(u))
    <2>1. Pred(t) \in SUBSET Pred(u) /\ Pred(t) # Pred(u)
        BY <1>3, <1>5
    <2> HIDE DEF Pred
    <2> QED
        BY <1>4, <2>1, FS_Subset
<1>6. rank \in Injection(S, 0 .. (N - 1))
    <2> HIDE DEF Pred
    <2>1. rank \in [S -> 0 .. (N - 1)]
        BY <1>2, <1>4
    <2>2. ASSUME NEW t \in S, NEW u \in S, rank[t] = rank[u] PROVE t = u
        BY <1>3, <1>4, <1>5, <2>2
    <2> QED
        BY <2>1, <2>2 DEF Injection, IsInjective
<1>7. rank \in Surjection(S, 0 .. (N - 1))
    <2>1. IsFiniteSet(0 .. (N - 1)) /\ Cardinality(0 .. (N - 1)) = N
        <3> HIDE DEF N
        <3>1. 0 \in Int /\ N - 1 \in Int /\ (IF 0 > N - 1 THEN 0 ELSE N - 1 - 0 + 1) = N
            BY <1>2
        <3> QED
            BY <3>1, FS_Interval
    <2> HIDE DEF rank
    <2> QED
        BY <1>6, <2>1, FS_Injection
<1>8. T \subseteq S /\ \A t \in S : t \in T <=> rank[t] < n
    BY DEF Top
<1>9. n < N
    <2>1. ~(Cardinality(Pred(p)) < n)
        BY DEF Top
    <2> HIDE DEF Pred
    <2> QED
        BY <1>2, <1>4, <2>1
<1>10. rankT \in Bijection(T, 0 .. (n - 1))
    <2> HIDE DEF rank, T
    <2>1. \A t \in S : rank[t] \in Nat
        BY <1>2, <1>6 DEF Injection
    <2>2. rankT \in [T -> 0 .. (n - 1)]
        BY <1>8, <2>1
    <2>3. ASSUME NEW t \in T, NEW u \in T, rankT[t] = rankT[u] PROVE t = u
        BY <1>6, <1>8, <2>3 DEF Injection, IsInjective
    <2>4. ASSUME NEW i \in 0 .. (n - 1) PROVE \E t \in T : rankT[t] = i
        <3>1. PICK t \in S : rank[t] = i
            BY <1>2, <1>7, <1>9 DEF Surjection
        <3> QED
            BY <1>8, <3>1
    <2> QED
        BY <2>2, <2>3, <2>4 DEF Bijection, Injection, Surjection, IsInjective
<1>11. IsFiniteSet(T)
    BY <1>8, FS_Subset
<1>12. Cardinality(0 .. (n - 1)) = Cardinality(T)
    <2> HIDE DEF rankT, T
    <2>1. ExistsBijection(T, 0 .. (n - 1))
        BY <1>10 DEF ExistsBijection
    <2> QED
        BY <1>11, <2>1, FS_Bijection
<1>13. Cardinality(0 .. (n - 1)) = n
    BY FS_Interval
<1> QED
    BY <1>12, <1>13

\* What the words are about is not cut off for what it refers to.
LEMMA MatchedStay ==
    ASSUME NEW U, IsFiniteSet(U), NEW score, \A t \in U : score[t] \in Nat,
           NEW matched, matched = {t \in U : score[t] > 0},
           NEW B, B = Top(matched, score, MaxTables),
           NEW S, B \subseteq S, S \subseteq U
    PROVE  B \subseteq Top(S, score, MaxTables + MoreTables)
<1> SUFFICES ASSUME NEW t \in B PROVE t \in Top(S, score, MaxTables + MoreTables)
    OBVIOUS
<1> DEFINE inS == {u \in S : Before(score, u, t)}
           inMatched == {u \in matched : Before(score, u, t)}
<1>1. t \in matched /\ Cardinality(inMatched) < MaxTables
    BY DEF Top
<1>2. inS \in SUBSET inMatched
    BY <1>1 DEF Before
<1>3. IsFiniteSet(inMatched)
    BY FS_Subset
<1>4. Cardinality(inS) \in Nat /\ Cardinality(inS) <= Cardinality(inMatched) /\ Cardinality(inMatched) \in Nat
    <2> HIDE DEF inS, inMatched
    <2> QED
        BY <1>2, <1>3, FS_Subset, FS_CardinalityType
<1>5. MaxTables \in Nat /\ MoreTables \in Nat
    BY SchemaReadingAssumption
<1>6. Cardinality(inS) < MaxTables + MoreTables
    <2> HIDE DEF inS, inMatched
    <2> QED
        BY <1>1, <1>4, <1>5
<1> QED
    BY <1>6 DEF Top

-----------------------------------------------------------------------------
(* The invariant                                                           *)

\* A set of tables that can be ordered and counted.
Listed(S) == IsFiniteSet(S) /\ S \subseteq DOMAIN RowOrder

\* Which databases have been met, and what was read of them.
ReadInv ==
    /\ reading \in Readings
    /\ {live} \cup met \subseteq {reading.live, reading.after} /\ live \in met
    /\ at \in {"tables", "columns", "keys", "references", "read", "asked"}
    /\ at = "keys" => reading.engine \notin MysqlLike
    /\ at \in {"keys", "references"} => reading.engine # "snowflake"
    /\ at = "references" => \E d \in met : keyRows = KeyRowsOf(reading.engine, d)
    /\ Listed(tableRows) /\ Listed(DOMAIN schema)

Inv ==
    /\ ReadInv
    /\ at \notin {"read", "asked"} => schema = Empty
    /\ at # "asked" => best = {}
    /\ KeysTold
    /\ at = "asked" => ParentsSent

LEMMA Databases ==
    ASSUME ReadInv, NEW d \in met
    PROVE  reading.engine \in Engines /\ DatabaseOK(reading.engine, d) /\ Listed(DOMAIN d.columns)
BY SchemaReadingAssumption DEF ReadInv, ReadingOK, Engines, DatabaseOK, Listed

\* The rows assemble is given are right about the columns that are not mixed up.
PrimaryRight(primary) ==
    \A t, c : ~Mixed(t, c) =>
        /\ <<t, c>> \in primary =>
              \E d \in met : InPrimaryKey(d, t, c) \/ (Keyless(d, t) /\ reading.engine \in MysqlLike)
        /\ KeysAreRead /\ (\A d \in met : InPrimaryKey(d, t, c)) => <<t, c>> \in primary
ReferencesRight(references) ==
    \A t, c : ~Mixed(t, c) =>
        /\ \A r \in references : <<r[1], r[2]>> = <<t, c>> =>
              <<r[3], r[4]>> # NoReference /\ \E d \in met : <<r[3], r[4]>> \in ReferencesOf(d, t, c)
        /\ KeysAreRead /\ (\A d \in met : ReferencesOf(d, t, c) # {}) =>
              \E r \in references : <<r[1], r[2]>> = <<t, c>>

LEMMA NotMixed ==
    ASSUME NEW t, NEW c, ~Mixed(t, c), NEW d \in met
    PROVE  reading.engine \in PostgresLike => ~MixedIn(d, t, c)
BY DEF Mixed, MixedIn

LEMMA KeyRowsRight ==
    ASSUME ReadInv, NEW d \in met
    PROVE  PrimaryRight(KeyRowsOf(reading.engine, d))
<1> SUFFICES ASSUME NEW t, NEW c, ~Mixed(t, c)
             PROVE  LET primary == KeyRowsOf(reading.engine, d) IN
                    /\ <<t, c>> \in primary =>
                          \E b \in met : InPrimaryKey(b, t, c) \/ (Keyless(b, t) /\ reading.engine \in MysqlLike)
                    /\ KeysAreRead /\ (\A b \in met : InPrimaryKey(b, t, c)) => <<t, c>> \in primary
    BY DEF PrimaryRight
<1>1. reading.engine \in Engines /\ DatabaseOK(reading.engine, d)
    BY Databases
<1>2. reading.engine \in PostgresLike => ~MixedIn(d, t, c)
    BY NotMixed
<1>3. CASE reading.engine \in MysqlLike
    BY <1>1, <1>3, PrimaryByColumnKey DEF KeyRowsOf
<1>4. CASE reading.engine \notin MysqlLike
    BY <1>1, <1>2, <1>4, PrimaryByName, PrimaryToldByName DEF KeyRowsOf
<1> QED
    BY <1>3, <1>4

LEMMA ForeignKeyRowsRight ==
    ASSUME ReadInv, NEW d \in met
    PROVE  ReferencesRight(ForeignKeyRows(reading.engine, d))
<1> SUFFICES ASSUME NEW t, NEW c, ~Mixed(t, c)
             PROVE  LET references == ForeignKeyRows(reading.engine, d) IN
                    /\ \A r \in references : <<r[1], r[2]>> = <<t, c>> =>
                          <<r[3], r[4]>> # NoReference /\ \E b \in met : <<r[3], r[4]>> \in ReferencesOf(b, t, c)
                    /\ KeysAreRead /\ (\A b \in met : ReferencesOf(b, t, c) # {}) =>
                          \E r \in references : <<r[1], r[2]>> = <<t, c>>
    BY DEF ReferencesRight
<1>1. reading.engine \in Engines /\ DatabaseOK(reading.engine, d)
    BY Databases
<1>2. reading.engine \in PostgresLike => ~MixedIn(d, t, c)
    BY NotMixed
<1> DEFINE references == ForeignKeyRows(reading.engine, d)
<1>3. \A r \in references : <<r[1], r[2]>> = <<t, c>> =>
          <<r[3], r[4]>> \in ReferencesOf(d, t, c) /\ <<r[3], r[4]>> # NoReference
    BY <1>1, <1>2, ReferenceRows
<1>4. ReferencesOf(d, t, c) # {} => \E r \in references : <<r[1], r[2]>> = <<t, c>>
    BY <1>1, <1>2, ReferenceRows
<1> HIDE DEF references
<1>5. /\ \A r \in references : <<r[1], r[2]>> = <<t, c>> =>
            <<r[3], r[4]>> # NoReference /\ \E b \in met : <<r[3], r[4]>> \in ReferencesOf(b, t, c)
      /\ KeysAreRead /\ (\A b \in met : ReferencesOf(b, t, c) # {}) =>
            \E r \in references : <<r[1], r[2]>> = <<t, c>>
    BY <1>3, <1>4
<1> QED
    BY <1>5 DEF references

LEMMA AssembleTells ==
    ASSUME NEW columns, NEW primary, NEW references,
           Assemble(columns, primary, references), PrimaryRight(primary), ReferencesRight(references),
           reading' = reading, met' = met
    PROVE  KeysTold' /\ DOMAIN schema' = tableRows
<1> DEFINE referring == {<<r[1], r[2]>> : r \in references}
           columnsOf(t) == {x[2] : x \in {y \in columns : y[1] = t}}
<1>1. PICK row \in [referring -> references] :
         /\ \A c \in referring : <<row[c][1], row[c][2]>> = c
         /\ schema' = [t \in tableRows |->
                [c \in columnsOf(t) |->
                    [primary |-> <<t, c>> \in primary,
                     reference |-> IF <<t, c>> \in referring THEN <<row[<<t, c>>][3], row[<<t, c>>][4]>>
                                   ELSE NoReference]]]
    BY DEF Assemble
<1>2. DOMAIN schema' = tableRows
    BY <1>1
<1>3. ASSUME NEW t \in DOMAIN schema', NEW c \in DOMAIN schema'[t], ~Mixed(t, c)
      PROVE  /\ schema'[t][c].primary =>
                   \E d \in met : InPrimaryKey(d, t, c) \/ (Keyless(d, t) /\ reading.engine \in MysqlLike)
             /\ KeysAreRead /\ (\A d \in met : InPrimaryKey(d, t, c)) => schema'[t][c].primary
             /\ schema'[t][c].reference # NoReference =>
                   \E d \in met : schema'[t][c].reference \in ReferencesOf(d, t, c)
             /\ KeysAreRead /\ (\A d \in met : ReferencesOf(d, t, c) # {}) => schema'[t][c].reference # NoReference
    <2>1. schema'[t][c] = [primary |-> <<t, c>> \in primary,
                           reference |-> IF <<t, c>> \in referring THEN <<row[<<t, c>>][3], row[<<t, c>>][4]>>
                                         ELSE NoReference]
        BY <1>1
    <2>2. <<t, c>> \in referring => row[<<t, c>>] \in references /\ <<row[<<t, c>>][1], row[<<t, c>>][2]>> = <<t, c>>
        BY <1>1
    <2>3. (\E r \in references : <<r[1], r[2]>> = <<t, c>>) => <<t, c>> \in referring
        OBVIOUS
    <2> HIDE DEF referring
    <2>4. schema'[t][c].primary = (<<t, c>> \in primary)
        BY <2>1
    <2>5. /\ schema'[t][c].reference # NoReference =>
                \E d \in met : schema'[t][c].reference \in ReferencesOf(d, t, c)
          /\ KeysAreRead /\ (\A d \in met : ReferencesOf(d, t, c) # {}) => schema'[t][c].reference # NoReference
        BY <1>3, <2>1, <2>2, <2>3 DEF ReferencesRight
    <2> QED
        BY <1>3, <2>4, <2>5 DEF PrimaryRight
<1>4. KeysTold'
    BY <1>3 DEF KeysTold, Mixed, KeysAreRead
<1> QED
    BY <1>2, <1>4

\* A reference of a chosen table is one of those followed.
LEMMA ReferredTable ==
    ASSUME KeysTold, live \in met, NEW B, NEW t \in B, t \in DOMAIN schema, NEW c \in DOMAIN schema[t],
           NEW p \in DOMAIN schema, KeysAreRead, ~Mixed(t, c),
           \A d \in met : {r[1] : r \in ReferencesOf(d, t, c)} = {p}
    PROVE  p \in Referred(B)
<1>1. \A d \in met : ReferencesOf(d, t, c) # {}
    OBVIOUS
<1>2. PICK d \in met : schema[t][c].reference \in ReferencesOf(d, t, c)
    BY <1>1 DEF KeysTold
<1>3. schema[t][c].reference # NoReference
    BY <1>1 DEF KeysTold
<1>4. schema[t][c].reference[1] = p
    BY <1>2
<1> QED
    BY <1>3, <1>4 DEF Referred

-----------------------------------------------------------------------------
(* Every step preserves it                                                 *)

LEMMA NothingTold == schema = Empty => KeysTold /\ Listed(DOMAIN schema)
BY FS_EmptySet DEF Empty, KeysTold, Listed

LEMMA InvInit == ReadingInit => Inv
<1> SUFFICES ASSUME ReadingInit PROVE Inv
    OBVIOUS
<1> USE DEF ReadingInit
<1>1. Listed(tableRows)
    BY FS_EmptySet DEF Listed
<1> QED
    BY <1>1, NothingTold DEF Inv, ReadInv

LEMMA TellingKept ==
    ASSUME KeysTold, schema' = schema, reading' = reading, met' = met
    PROVE  KeysTold'
BY DEF KeysTold, Mixed, KeysAreRead

LEMMA ReadTablesKeeps ==
    ASSUME Inv, ReadTables PROVE Inv'
<1> USE DEF Inv, ReadTables
<1>1. Listed(tableRows')
    BY Databases DEF ReadInv
<1>2. KeysTold'
    BY TellingKept
<1>3. ReadInv'
    BY <1>1 DEF ReadInv
<1> QED
    BY <1>2, <1>3 DEF ReadInv

LEMMA ReadPrimaryKeysKeeps ==
    ASSUME Inv, ReadPrimaryKeys PROVE Inv'
<1> USE DEF Inv, ReadPrimaryKeys
<1>1. keyRows' = KeyRowsOf(reading.engine, live)
    BY DEF ReadInv, KeyRowsOf
<1>2. ReadInv'
    BY <1>1 DEF ReadInv
<1> QED
    BY <1>2, TellingKept

LEMMA AlterDatabaseKeeps ==
    ASSUME Inv, AlterDatabase PROVE Inv'
<1> USE DEF Inv, AlterDatabase
<1>1. ReadInv'
    BY DEF ReadInv
<1>2. KeysTold' /\ best' = {}
    BY NothingTold DEF KeysTold, Empty
<1> QED
    BY <1>1, <1>2

LEMMA AssembleKeeps ==
    ASSUME Inv, NEW columns, NEW primary, NEW references,
           Assemble(columns, primary, references), PrimaryRight(primary), ReferencesRight(references),
           at # "asked",
           UNCHANGED <<reading, live, met, tableRows, best, sent>>
    PROVE  Inv'
<1> USE DEF Inv
<1>1. KeysTold' /\ DOMAIN schema' = tableRows
    BY AssembleTells
<1>2. at' = "read"
    BY DEF Assemble
<1>3. ReadInv'
    BY <1>1, <1>2 DEF ReadInv, Listed
<1> QED
    BY <1>1, <1>2, <1>3

LEMMA ReadForeignKeysKeeps ==
    ASSUME Inv, ReadForeignKeys PROVE Inv'
<1>1. PICK d \in met : keyRows = KeyRowsOf(reading.engine, d)
    BY DEF Inv, ReadInv, ReadForeignKeys
<1>2. PrimaryRight(keyRows) /\ ReferencesRight(ForeignKeyRows(reading.engine, live))
    BY <1>1, KeyRowsRight, ForeignKeyRowsRight DEF Inv, ReadInv
<1>3. Assemble(columnRows, keyRows, ForeignKeyRows(reading.engine, live))
    BY DEF ReadForeignKeys
<1>4. at # "asked" /\ UNCHANGED <<reading, live, met, tableRows, best, sent>>
    BY DEF ReadForeignKeys
<1> QED
    BY <1>2, <1>3, <1>4, AssembleKeeps

\* Nothing is said of keys that are not read.
LEMMA UnreadKeysRight == reading.engine = "snowflake" => PrimaryRight({}) /\ ReferencesRight({})
BY DEF PrimaryRight, ReferencesRight, KeysAreRead

LEMMA ReadColumnsKeeps ==
    ASSUME Inv, ReadColumns PROVE Inv'
<1>1. at = "columns" /\ UNCHANGED <<reading, live, met, tableRows, best, sent>>
    BY DEF ReadColumns
<1>2. CASE reading.engine = "snowflake"
    <2>1. Assemble(columnRows', {}, {})
        BY <1>2 DEF ReadColumns
    <2> QED
        BY <1>1, <1>2, <2>1, UnreadKeysRight, AssembleKeeps
<1>3. CASE reading.engine # "snowflake"
    <2> USE DEF Inv
    <2>1. /\ schema' = schema
          /\ at' = IF reading.engine \in MysqlLike THEN "references" ELSE "keys"
          /\ keyRows' = IF reading.engine \in MysqlLike THEN ColumnKeyPri(live) ELSE {}
        BY <1>3 DEF ReadColumns
    <2>2. at' = "references" => keyRows' = KeyRowsOf(reading.engine, live)
        BY <2>1 DEF KeyRowsOf
    <2>3. ReadInv'
        BY <1>1, <1>3, <2>1, <2>2 DEF ReadInv
    <2> QED
        BY <1>1, <2>1, <2>3, TellingKept
<1> QED
    BY <1>2, <1>3

LEMMA SendAllKeeps ==
    ASSUME Inv, SendAll PROVE Inv'
<1> USE DEF Inv, SendAll
<1>1. ReadInv'
    BY DEF ReadInv
<1>2. best' = {}
    OBVIOUS
<1> QED
    BY <1>1, <1>2, TellingKept DEF ParentsSent

LEMMA SendRelevantKeeps ==
    ASSUME Inv, SendRelevant PROVE Inv'
<1> USE DEF Inv
<1> DEFINE U == DOMAIN schema
<1>1. PICK score \in [U -> WordScores] :
         LET matched == {t \in U : score[t] > 0}
         IN /\ matched # {}
            /\ best' = Top(matched, score, MaxTables)
            /\ sent' = Top(best' \cup Referred(best'), score, MaxTables + MoreTables)
    BY DEF SendRelevant
<1> DEFINE matched == {t \in U : score[t] > 0}
           S == best' \cup Referred(best')
<1>2. UNCHANGED <<reading, live, met, tableRows, columnRows, keyRows, schema>> /\ at' = "asked"
    BY DEF SendRelevant
<1>3. \A t \in U : score[t] \in Nat
    BY SchemaReadingAssumption
<1>4. /\ best' = Top(matched, score, MaxTables)
      /\ sent' = Top(S, score, MaxTables + MoreTables)
    BY <1>1
<1>5. best' \subseteq U /\ S \subseteq U
    BY <1>4 DEF Top, Referred
<1>6. IsFiniteSet(U) /\ U \subseteq DOMAIN RowOrder
    BY DEF ReadInv, Listed
<1>7. best' \subseteq sent'
    <2> HIDE DEF U, S
    <2>1. best' \subseteq S
        BY DEF S
    <2> QED
        BY <1>3, <1>4, <1>5, <1>6, <2>1, MatchedStay
<1>8. ASSUME NEW t \in best', NEW c \in DOMAIN schema[t], NEW p \in DOMAIN schema,
             KeysAreRead, ~Mixed(t, c), \A d \in met : {r[1] : r \in ReferencesOf(d, t, c)} = {p}
      PROVE  p \in sent' \/ Cardinality(sent') = MaxTables + MoreTables
    <2>1. t \in DOMAIN schema
        BY <1>5
    <2>2. p \in S
        BY <1>8, <2>1, ReferredTable DEF ReadInv
    <2>3. IsFiniteSet(S) /\ S \subseteq DOMAIN RowOrder /\ \A u \in S : score[u] \in Nat
        BY <1>3, <1>5, <1>6, FS_Subset
    <2>4. MaxTables + MoreTables \in Nat
        BY SchemaReadingAssumption
    <2> HIDE DEF S
    <2>5. p \notin sent' => Cardinality(sent') = MaxTables + MoreTables
        BY <1>4, <2>2, <2>3, <2>4, TopFills
    <2> QED
        BY <2>5
<1>9. ParentsSent'
    BY <1>2, <1>7, <1>8 DEF ParentsSent, Mixed, KeysAreRead
<1>10. ReadInv'
    BY <1>2 DEF ReadInv
<1> QED
    BY <1>2, <1>9, <1>10, TellingKept

LEMMA ParentsKept ==
    ASSUME ParentsSent, UNCHANGED <<reading, met, schema, best, sent>>
    PROVE  ParentsSent'
<1>1. \A t, c : Mixed(t, c)' <=> Mixed(t, c)
    BY DEF Mixed
<1>2. KeysAreRead' <=> KeysAreRead
    BY DEF KeysAreRead
<1> QED
    BY <1>1, <1>2 DEF ParentsSent

LEMMA Unmoved == ASSUME Inv, UNCHANGED rvars PROVE Inv'
<1> USE DEF Inv, rvars
<1>1. ReadInv'
    BY DEF ReadInv
<1>2. ParentsSent => ParentsSent'
    BY ParentsKept
<1> QED
    BY <1>1, <1>2, TellingKept

LEMMA InvKept == Inv /\ [ReadingNext]_rvars => Inv'
<1> SUFFICES ASSUME Inv, [ReadingNext]_rvars PROVE Inv'
    OBVIOUS
<1>1. CASE ReadTables
    BY <1>1, ReadTablesKeeps
<1>2. CASE ReadColumns
    BY <1>2, ReadColumnsKeeps
<1>3. CASE ReadPrimaryKeys
    BY <1>3, ReadPrimaryKeysKeeps
<1>4. CASE ReadForeignKeys
    BY <1>4, ReadForeignKeysKeeps
<1>5. CASE AlterDatabase
    BY <1>5, AlterDatabaseKeeps
<1>6. CASE SendAll
    BY <1>6, SendAllKeeps
<1>7. CASE SendRelevant
    BY <1>7, SendRelevantKeeps
<1>8. CASE ReadingDone
    BY <1>8, Unmoved DEF ReadingDone
<1>9. CASE UNCHANGED rvars
    BY <1>9, Unmoved
<1> QED
    BY <1>1, <1>2, <1>3, <1>4, <1>5, <1>6, <1>7, <1>8, <1>9 DEF ReadingNext

\* The tables a question is answered with carry the keys the database declared
\* while it was read, and come with the tables they refer to as far as the limit
\* admits, but for keys that Postgres and Redshift mix up by their names.
THEOREM PromptTold == ReadingSpec => []PromptTellsSchema
<1>1. Inv => PromptTellsSchema
    BY DEF Inv, PromptTellsSchema
<1> QED
    BY <1>1, InvInit, InvKept, PTL DEF ReadingSpec
=============================================================================
