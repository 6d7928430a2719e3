------------------------------ MODULE TableOrder ------------------------------
(***************************************************************************)
(* topoOrder of apps/api/src/migrations/data-migration.service.ts: the     *)
(* order in which the tables of a migration are copied.                    *)
(***************************************************************************)
EXTENDS ArrayOps, SequencesExt

\* The selected tables a table refers to, itself left out.
Deps(t, tables, fks) == {p \in Range(tables) : p # t /\ <<t, p>> \in fks}

\* Mutant: any one of the tables a table refers to is enough.
ReadyAny(tables, fks, out) ==
    Filter(tables, {t \in Range(tables) \ Range(out) :
        Deps(t, tables, fks) # {} => Deps(t, tables, fks) \cap Range(out) # {}})

\* One round of the loop: the tables whose parents are all in out.
Ready(tables, fks, out) ==
    Filter(tables, {t \in Range(tables) \ Range(out) : Deps(t, tables, fks) \subseteq Range(out)})

\* As many rounds as there are tables, then what is left in input order.
TopoOrder(tables, fks) ==
    LET out[n \in 0..Len(tables)] ==
            IF n = 0 THEN <<>> ELSE out[n - 1] \o Ready(tables, fks, out[n - 1])
        rounds == out[Len(tables)]
    IN rounds \o Filter(tables, Range(tables) \ Range(rounds))

-----------------------------------------------------------------------------
\* A table on a cycle of references, or referring to one directly or not.
Stuck(t, tables, fks) ==
    \E S \in SUBSET Range(tables) :
        t \in S /\ \A s \in S : Deps(s, tables, fks) \cap S # {}

Position(t, order) == CHOOSE n \in DOMAIN order : order[n] = t

\* What the copy relies on: an order has every selected table once, and a
\* table after those it refers to unless a cycle forbids it.
ParentsFirstIn(order, tables, fks) ==
    /\ Len(order) = Len(tables)
    /\ Range(order) = Range(tables)
    /\ \A t \in Range(tables) : ~Stuck(t, tables, fks) =>
        \A p \in Deps(t, tables, fks) : Position(p, order) < Position(t, order)
=============================================================================
