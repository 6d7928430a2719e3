------------------------------- MODULE ArrayOps -------------------------------
(***************************************************************************)
(* Array.filter, as the programs here use it.                              *)
(***************************************************************************)
EXTENDS Naturals, Sequences

\* What stands at some positions of s, in order.
Only(s, positions) ==
    LET kept[n \in 0..Len(s)] ==
            IF n = 0 THEN <<>>
            ELSE IF n \in positions THEN Append(kept[n - 1], s[n]) ELSE kept[n - 1]
    IN kept[Len(s)]

\* Array.filter: the elements of s that are in keep.
Filter(s, keep) == Only(s, {i \in DOMAIN s : s[i] \in keep})
=============================================================================
