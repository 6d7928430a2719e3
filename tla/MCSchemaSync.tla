---------------------------- MODULE MCSchemaSync ----------------------------
(* Small instances of SchemaSync and SchemaReading for TLC: a behaviour is *)
(* one of the former or, where `at' is not "still", one of the latter.     *)
EXTENDS SchemaSync, SchemaReading, Sequences, TLC

\* Syncs differ in nothing but their name.
Symmetry == Permutations(Syncs)

-----------------------------------------------------------------------------
(* Databases                                                               *)

Key(kind, t, columns) == [name |-> t \o kind, kind |-> kind, table |-> t, columns |-> columns, target |-> "", refs |-> <<>>]
Foreign(name, t, columns, target, refs) ==
    [name |-> name, kind |-> "foreign", table |-> t, columns |-> columns, target |-> target, refs |-> refs]
DB(columns, nullable, constraints) ==
    [columns |-> columns, nullable |-> [t \in DOMAIN columns |-> nullable], constraints |-> constraints]

\* Students take courses; marks are about a student in a course.
Columns4 == [students |-> {"id", "email"}, courses |-> {"id", "email"}, taken |-> {"student", "course"},
             marks |-> {"s", "c", "email"}]
Keys4 == {Key("primary", "students", <<"id">>), Key("primary", "courses", <<"id">>),
          Key("primary", "taken", <<"student", "course">>), Key("unique", "marks", <<"email">>)}
Refs4 == {Foreign("f1", "taken", <<"student">>, "students", <<"id">>),
          Foreign("f2", "taken", <<"course">>, "courses", <<"id">>),
          Foreign("f3", "marks", <<"s", "c">>, "taken", <<"student", "course">>)}
School(nullable, refs) == DB(Columns4, nullable, Keys4 \cup refs)
Small == School({}, Refs4)

\* What may become of it: another key, no foreign keys, no table.
Dropped(db, t) ==
    [columns |-> [u \in DOMAIN db.columns \ {t} |-> db.columns[u]],
     nullable |-> [u \in DOMAIN db.columns \ {t} |-> db.nullable[u]],
     constraints |-> {k \in db.constraints : k.table # t /\ k.target # t}]
Afterwards ==
    {Small, School({"email"}, {}), Dropped(Small, "taken"), Dropped(Small, "marks"),
     School({}, {k \in Refs4 : k.name # "f2"} \cup {Foreign("f2", "marks", <<"s">>, "students", <<"id">>)})}
\* Postgres: one name for two foreign keys, and for a key and a foreign key.
SharedNames ==
    {School({}, {[k EXCEPT !.name = IF k.table = "marks" THEN "f1" ELSE @] : k \in Refs4}),
     School({}, {[k EXCEPT !.name = IF k.table = "marks" THEN "studentsprimary" ELSE @] : k \in Refs4})}

MCRowOrder == [courses |-> 1, marks |-> 2, students |-> 3, taken |-> 4]

AllEngines == MysqlLike \cup PostgresLike \cup {"sqlserver", "oracle", "snowflake"}
Reading(e, db, after) == [engine |-> e, live |-> db, after |-> after]
MCReadings ==
    {Reading(e, Small, after) : e \in AllEngines, after \in Afterwards}
    \cup {Reading("mysql", after, Small) : after \in Afterwards}
    \cup {Reading("postgres", db, Small) : db \in SharedNames}
    \cup {Reading("postgres", DB(<<>>, {}, {}), Small)}

-----------------------------------------------------------------------------
Still ==
    /\ reading = NoReference /\ live = NoReference /\ met = {} /\ at = "still"
    /\ tableRows = {} /\ columnRows = {} /\ keyRows = {} /\ schema = {} /\ best = {} /\ sent = {}

MCInit == Init /\ (Still \/ (ReadingInit /\ source = [t \in Tables |-> ColNames]))
MCNext == \/ at = "still" /\ Next /\ UNCHANGED rvars
          \/ at # "still" /\ ReadingNext /\ UNCHANGED vars
MCSpec == MCInit /\ [][MCNext]_<<vars, rvars>>
=============================================================================
