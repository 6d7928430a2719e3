---------------------------- MODULE MCChatScreen ----------------------------
(* A small instance of ChatScreen: a page holds two rows.                  *)
EXTENDS ChatScreen

Statement(query) ==
    [prefix |-> TRUE, forbidden |-> FALSE, parses |-> TRUE, statements |-> 1,
     select |-> TRUE, depth |-> 1, query |-> query]
Rows(n, limit, skip, form) ==
    [rows |-> n, limit |-> limit, skip |-> skip, form |-> form,
     runs |-> TRUE, counts |-> TRUE, explains |-> TRUE, plan |-> <<2, 2>>]

\* A query of five rows; one limited to three; one that cannot be counted; one
\* that scans too much; one that fails; one that writes; one nested too deep.
MCFacts ==
    "plain" :> Statement(Rows(5, None, 0, "none"))
    @@ "top3" :> Statement(Rows(5, 3, 0, "limit"))
    @@ "twins" :> Statement([Rows(5, 3, 0, "limit") EXCEPT !.counts = FALSE])
    @@ "scan" :> Statement([Rows(5, None, 0, "none") EXCEPT !.plan = <<3, 7>>])
    @@ "broken" :> Statement([Rows(0, None, 0, "none") EXCEPT !.runs = FALSE, !.explains = FALSE])
    @@ "writes" :> [Statement(Rows(0, None, 0, "none")) EXCEPT !.forbidden = TRUE]
    @@ "nested" :> [Statement(Rows(5, 3, 0, "limit")) EXCEPT !.depth = 3]
MCSqls == DOMAIN MCFacts

Reply(s) == [options |-> <<>>, says |-> "sql", sql |-> s]
Says(what) == [options |-> <<>>, says |-> what, sql |-> NoSql]
Options(opts) == [options |-> opts, says |-> "sql", sql |-> NoSql]
MCReplies ==
    {<<NoReply, NoReply, NoReply>>,
     <<NoReply, Reply("writes"), Reply("plain")>>,
     <<Reply("broken"), Reply("plain"), NoReply>>,
     <<Reply("top3"), NoReply, NoReply>>,
     <<NoReply, Reply("scan"), NoReply>>,
     <<Options(<<"twins", "writes", "broken">>), Reply("plain"), NoReply>>,
     <<Options(<<"writes", "broken">>), Says("chat"), NoReply>>,
     <<NoReply, Says("cannot_answer"), Reply("plain")>>}
MCEdited == {"plain", "broken", "nested"}
MCLower == <<>>
=============================================================================
