--------------------------- MODULE MCDataMigration ---------------------------
(* Small instances of DataMigration: the migrations TLC enumerates.        *)
EXTENDS DataMigration, TLC

\* c refers to p and, in the larger jobs, to u, which refers to p.  The rows of
\* p are not stored in the order of their keys.
MCTables == {"p", "u", "c"}
MCSourceRows == [t \in MCTables |-> IF t = "p" THEN <<3, 1, 2>> ELSE <<2>>]
MCOldRows == [t \in MCTables |-> IF t = "p" THEN {1, 4} ELSE {1}]

Fk == {<<"c", "p">>}
Diamond == Fk \cup {<<"u", "p">>, <<"c", "u">>}
Cycle == {<<"c", "u">>, <<"u", "c">>}
Engines == {"mysql", "postgres", "sqlserver", "oracle"}
Conflicts == {"skip", "upsert", "truncate"}

Migration(engine, fks, selected, key, existing, conflict, create) ==
    [engine |-> engine, fks |-> fks, selected |-> selected,
     keys |-> [t \in MCTables |-> key],
     existing |-> existing, conflict |-> conflict, privileged |-> FALSE,
     createTables |-> create, skipValidation |-> FALSE]

\* Every engine and mode, with and without a key, into tables with rows.
IntoRows == {Migration(e, Fk, <<"c", "p">>, k, {"p", "c"}, m, FALSE) :
                e \in Engines, k \in {"single", "none"}, m \in Conflicts}

\* New tables, one of two new, and a parent that is not selected; a key of two
\* columns.
IntoNew == {Migration(e, Fk, sel, "composite", ex, "skip", create) :
                e \in {"postgres", "oracle"}, sel \in {<<"c", "p">>, <<"c">>},
                ex \in {{}, {"p"}, {"p", "c"}}, create \in BOOLEAN}

\* Three tables, a cycle, and a session that may turn foreign keys off.
Larger == {Migration("sqlserver", fks, <<"c", "u", "p">>, "single", MCTables, m, FALSE) :
              fks \in {Diamond, Cycle}, m \in {"skip", "truncate"}}
Privileged == {[j EXCEPT !.privileged = TRUE, !.skipValidation = TRUE] :
                  j \in {i \in IntoRows : i.engine = "postgres"}}

AllJobs == IntoRows \cup IntoNew \cup Larger \cup Privileged
=============================================================================
