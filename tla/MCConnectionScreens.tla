------------------------- MODULE MCConnectionScreens -------------------------
EXTENDS ConnectionScreens

-----------------------------------------------------------------------------
(* Names                                                                   *)

AllNames == {"users", "orders", "Logs", "id", "user_id", "total", "is_paid", "email", "password", "ssn",
             "created_at", "updated_at", "Sales", "sales", "people"}
MCLower == [n \in AllNames |-> CASE n = "Sales" -> "sales" [] n = "Logs" -> "logs" [] OTHER -> n]
MCClass ==
    [n \in AllNames |->
        CASE n = "total" -> {"money", "snake"} [] n = "is_paid" -> {"flag", "snake"}
          [] n = "password" -> {"password", "snake"} [] n = "ssn" -> {"sensitive", "snake"}
          [] n = "email" -> {"natural", "snake"} [] n \in {"Logs", "Sales"} -> {}
          [] OTHER -> {"snake"}]
MCRefersTo == [user_id |-> <<"user", "users", "useres">>]

-----------------------------------------------------------------------------
(* Schemas for the audit                                                   *)

Col(name, type) == [name |-> name, type |-> type, len |-> 0, nullable |-> TRUE, auto |-> FALSE]
Id(type) == [Col("id", type) EXCEPT !.nullable = FALSE, !.auto = TRUE]
Index(columns, unique) == [columns |-> columns, includes |-> <<>>, unique |-> unique]
Table(columns, pk, fks, indexes) ==
    LET table == [view |-> FALSE, storage |-> "InnoDB", utf8mb4 |-> TRUE, large |-> FALSE,
                  columns |-> columns, pk |-> pk, key |-> pk, fks |-> fks, indexes |-> indexes]
    IN [table EXCEPT !.key = CHOOSE key \in MysqlKeys(table) : TRUE]

Users(type, unique) ==
    Table({Id(type), Col("email", "string"), [Col("password", "string") EXCEPT !.len = 40]}, {"id"}, {},
          {Index(<<"id">>, TRUE)} \cup unique)
UsersOf == {Users(type, unique) : type \in {"int", "big"},
                                  unique \in {{}, {Index(<<"email">>, TRUE)}, {Index(<<"id", "email">>, TRUE)}}}
OrdersOf ==
    {Table({Id("int"), Col("user_id", "int")} \cup more, pk, fks,
           IF pk = {} THEN index ELSE index \cup {Index(<<"id">>, TRUE)}) :
        more \in {{Col("total", "double"), Col("is_paid", "string")},
                  {Col("total", "exact"), Col("is_paid", "flag"), Col("created_at", "time")}},
        pk \in {{}, {"id"}}, fks \in {{}, {"user_id"}},
        index \in {{}, {Index(<<"user_id">>, FALSE)}, {[Index(<<"user_id">>, FALSE) EXCEPT !.includes = <<"total">>]}}}
Variants(t) == {t, [t EXCEPT !.storage = "MyISAM"], [t EXCEPT !.utf8mb4 = FALSE], [t EXCEPT !.large = TRUE],
                [t EXCEPT !.view = TRUE], [t EXCEPT !.columns = @ \cup {Col("ssn", "single")}]}
Shop(users, orders) == [users |-> users, orders |-> orders]
\* The second of two tables that is not in snake case.
Odd(orders) == [Logs |-> orders, orders |-> orders]

AUser == Users("big", {})
AnOrder == Table({Col("email", "text"), Col("total", "single"), [Col("user_id", "int") EXCEPT !.nullable = FALSE]}, {}, {},
                 {[Index(<<"user_id">>, TRUE) EXCEPT !.includes = <<"total">>]})
\* Without a primary key: MySQL takes one of the unique indexes for it.
Keyless(indexes) ==
    Table({Id("int"), [Col("email", "string") EXCEPT !.nullable = FALSE], [Col("user_id", "int") EXCEPT !.nullable = FALSE]},
          {}, {}, {Index(<<"id">>, FALSE)} \cup indexes)
\* One that MySQL keeps by its prices, or by its flags once they are NOT NULL.
Priced(indexes) ==
    Table({Id("int"), [Col("total", "double") EXCEPT !.nullable = FALSE], Col("is_paid", "string")},
          {}, {}, {Index(<<"id">>, FALSE)} \cup indexes)
\* A reference kept as text, whose statement would let it be NULL.
Flagged == Table({Id("int"), [Col("is_paid", "string") EXCEPT !.nullable = FALSE]}, {"id"}, {"is_paid"}, {})
\* Two serials in a key.
Serials == Table({Id("int"), [Id("int") EXCEPT !.name = "user_id"]}, {"id", "user_id"}, {}, {})
Lives == {Shop(AUser, o) : o \in OrdersOf} \cup {Shop(u, AnOrder) : u \in UsersOf}
         \cup {Shop(AUser, o) : o \in Variants(AnOrder)} \cup {Odd(AnOrder)}
         \cup {Shop(AUser, Keyless(indexes)) : indexes \in {{}, {Index(<<"user_id">>, TRUE)}}}
         \cup {Shop(AUser, Priced(indexes)) :
                indexes \in {{}, {Index(<<"total">>, TRUE)}, {Index(<<"id">>, TRUE), Index(<<"is_paid", "id">>, TRUE)}}}
         \cup {Shop(AUser, Flagged)}

Audit(l, e, fixes) ==
    [live |-> l, engine |-> e, synced |-> DOMAIN l, uses |-> {}, ops |-> 0, fixes |-> fixes]
Audits == {Audit(l, e, 1) : l \in Lives, e \in {"mariadb", "postgres", "sqlserver", "oracle"}}
          \cup {Audit(Shop(AUser, AnOrder), "mysql", 2), Audit(Shop(AUser, Serials), "postgres", 2),
                [Audit(Odd(AnOrder), "snowflake", 1) EXCEPT !.uses = {"drop"}, !.ops = 1]}

-----------------------------------------------------------------------------
(* Visits to the explorer                                                  *)

OneTable == [users |-> AUser]
TwoTables == Shop(AUser, AUser)
Explore(tables, synced, uses, ops) ==
    [live |-> tables, engine |-> "mysql", synced |-> synced, uses |-> uses, ops |-> ops, fixes |-> 0]
Explores ==
    {Explore(OneTable, {"users"}, {"create", "suggest", "assign"}, 3),
     Explore(OneTable, {"users"}, {"create", "assign", "delete"}, 3),
     Explore(TwoTables, {"users", "orders"}, {"suggest", "create", "rename", "delete"}, 2),
     Explore(TwoTables, {"users", "orders"}, {"describe", "edit", "assign", "drop"}, 2),
     Explore(TwoTables, {"users"}, {"suggest", "test", "sync", "drop", "describe"}, 2),
     Explore(TwoTables, {}, {"suggest", "sync"}, 2)}

MCVisits == Audits \cup Explores
MCNames == {"Sales", "people"}
Suggest(modules) == <<NoReply, modules, NoReply>>
MCSuggestions ==
    {<<NoReply, NoReply, NoReply>>,
     Suggest(<<[name |-> "sales", tables |-> {"orders", "users"}]>>),
     Suggest(<<[name |-> "Sales", tables |-> {"orders"}], [name |-> "people", tables |-> {"users", "orders"}]>>)}
MCReviews ==
    {<<NoReply, NoReply, NoReply>>,
     <<[findings |-> {[title |-> "t", severity |-> "grave"]}], NoReply, NoReply>>}
=============================================================================
