----------------------------- MODULE MCCsvImport -----------------------------
(* Small instances of CsvImport: the requests and key texts TLC enumerates. *)
EXTENDS CsvImport, TLC

Dto(mode, cs, bad, dedupe, keys) ==
    [mode |-> mode, cols |-> cs, badTypes |-> bad, dedupe |-> dedupe, keys |-> keys]

\* The column k is the key and exists before; a and b may be added.
MCPreCols == {"k"}
MCRequired == {"k"}

\* Requests that race: creating the table, and adding columns to it.
RaceDtos == {Dto("new", <<"k", "a">>, {}, FALSE, <<"1", "1", "2">>),
             Dto("existing", <<"k", "a">>, {}, FALSE, <<"1", "2", "3">>),
             Dto("existing", <<"k", "a">>, {}, TRUE, <<"1", "2", "1", "3">>),
             Dto("existing", <<"a", "b", "k">>, {"b"}, FALSE, <<"1", "2">>),
             Dto("existing", <<"a">>, {}, FALSE, <<"1">>)}

\* Requests of one import: every mode, keys with blanks and repetitions.
SoloDtos == {Dto("new", <<"k">>, {}, FALSE, <<"1", "1", "2">>),
             Dto("existing", <<"k", "a", "b">>, {}, TRUE, <<"1", Null, "2", "1", Null>>),
             Dto("existing", <<"k", "a", "b">>, {}, TRUE, <<"2", "3", "2", "3">>),
             Dto("existing", <<"k", "a", "b">>, {"b"}, TRUE, <<"1">>),
             Dto("existing", <<"k", "a">>, {}, TRUE, <<"01", "1", "2">>),
             Dto("existing", <<"a">>, {}, TRUE, <<"1">>)}

\* One import alone, or two that race.
Nobody == Dto("none", <<"k">>, {}, FALSE, <<>>)
MCCases ==
    {[i \in Imports |-> IF i = j THEN d ELSE Nobody] : <<j, d>> \in Imports \X SoloDtos}
    \cup [Imports -> RaceDtos]

\* Key cells, and what the integer column gives back for each.
Numbers == [t \in {"1", "01", "2", "3"} |-> IF t = "01" THEN "1" ELSE t]
=============================================================================
