--------------------------- MODULE MCMigrationWizard ---------------------------
EXTENDS MigrationWizard, TLC
CONSTANTS c1, c2, c3, t1, t2
MCConnections == {c1, c2, c3}
MCEngine == c1 :> "mysql" @@ c2 :> "mysql" @@ c3 :> "mysql"
MCTables == c1 :> {t1, t2} @@ c2 :> {} @@ c3 :> {}
Targets == Permutations({c2, c3}) \cup Permutations({t1, t2})
=============================================================================
