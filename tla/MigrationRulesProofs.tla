-------------------------- MODULE MigrationRulesProofs --------------------------
(***************************************************************************)
(* The order of tables, for any tables and any references between them:    *)
(* topoOrder and analyzeDependencies put a table after those it refers to  *)
(* unless a cycle forbids it, and findCycles reports exactly the groups of *)
(* tables that refer to each other.  A change of type that is no error     *)
(* loses no integers.                                                      *)
(*                                                                         *)
(* The first sections are about sets and sequences: induction over the     *)
(* natural numbers from the least element of a set, recursive functions    *)
(* step by step, and the order of the tables, built round by round.        *)
(***************************************************************************)
EXTENDS MigrationRules, FiniteSetTheorems, WellFoundedInduction, TLAPS

-----------------------------------------------------------------------------
(* Induction and recursion over the natural numbers, for sets              *)

LEMMA LeastOf ==
    ASSUME NEW T, T \subseteq Nat, T # {}
    PROVE  \E x \in T : \A y \in T : x <= y
<1>1. \E x \in T : \A y \in T : ~(<<y, x>> \in OpToRel(<, Nat))
    BY NatLessThanWellFounded, WFMin, Zenon
<1>2. PICK x \in T : \A y \in T : ~(y < x)
    BY <1>1 DEF OpToRel
<1> QED
    BY <1>2

\* What holds of 0 and of the successor of each number it holds of, up to N.
LEMMA Counting ==
    ASSUME NEW N \in Nat, NEW S, 0 \in S, \A n \in 0..N : n \in S /\ n < N => n + 1 \in S
    PROVE  0..N \subseteq S
<1> SUFFICES ASSUME ~(0..N \subseteq S) PROVE FALSE
    OBVIOUS
<1> DEFINE T == (0..N) \ S
<1>1. T \subseteq Nat /\ T # {}
    OBVIOUS
<1>2. PICK x \in T : \A y \in T : x <= y
    <2> HIDE DEF T
    <2> QED
        BY <1>1, LeastOf
<1>3. x \in Nat /\ x # 0 /\ x <= N
    OBVIOUS
<1>4. x - 1 \in S
    <2>1. x - 1 \notin T
        BY <1>2, <1>3
    <2> QED
        BY <1>3, <2>1
<1> QED
    BY <1>3, <1>4

\* A value for each step from 0 to N, each made of the one before.
Iterates(N, T, a, G) ==
    \E f \in [0..N -> T] : f[0] = a /\ \A n \in 1..N : f[n] = G[n][f[n - 1]]

LEMMA Iteration ==
    ASSUME NEW N \in Nat, NEW T, NEW a \in T, NEW G \in [Nat -> [T -> T]]
    PROVE  Iterates(N, T, a, G)
<1> DEFINE Ok(m, f) == f \in [0..m -> T] /\ f[0] = a /\ \A n \in 1..m : f[n] = G[n][f[n - 1]]
           S == {m \in Nat : \E f : Ok(m, f)}
<1>1. 0 \in S
    <2>1. Ok(0, [n \in 0..0 |-> a])
        OBVIOUS
    <2> QED
        BY <2>1
<1>2. ASSUME NEW m \in 0..N, m \in S PROVE m + 1 \in S
    <2>1. PICK f : Ok(m, f)
        BY <1>2
    <2> DEFINE g == [n \in 0..(m + 1) |-> IF n <= m THEN f[n] ELSE G[m + 1][f[m]]]
    <2>2. m \in Nat /\ f[m] \in T /\ m + 1 \in Nat /\ G[m + 1] \in [T -> T]
        BY <2>1
    <2>3. G[m + 1][f[m]] \in T
        BY <2>2
    <2>4. \A n \in 0..m : f[n] \in T
        BY <2>1
    <2>5. g \in [0..(m + 1) -> T] /\ g[0] = a
        BY <2>1, <2>2, <2>3, <2>4
    <2>6. ASSUME NEW n \in 1..(m + 1) PROVE g[n] = G[n][g[n - 1]]
        <3>1. CASE n <= m
            BY <2>1, <2>2, <3>1
        <3>2. CASE n = m + 1
            <4>1. g[n] = G[m + 1][f[m]] /\ g[n - 1] = f[m]
                BY <2>2, <3>2
            <4> QED
                BY <3>2, <4>1
        <3> QED
            BY <2>2, <3>1, <3>2
    <2>7. Ok(m + 1, g)
        BY <2>5, <2>6
    <2> QED
        BY <2>2, <2>7
<1>3. 0..N \subseteq S
    <2> HIDE DEF S
    <2> QED
        BY <1>1, <1>2, Counting
<1>4. N \in S
    BY <1>3
<1> QED
    BY <1>4 DEF Iterates

-----------------------------------------------------------------------------
(* Filter                                                                  *)

\* The recursive function of Filter.
LEMMA FilterSteps ==
    ASSUME NEW U, NEW s \in Seq(U), NEW keep
    PROVE  \E kept \in [0..Len(s) -> Seq(U)] :
              /\ Filter(s, keep) = kept[Len(s)]
              /\ kept[0] = <<>>
              /\ \A n \in 1..Len(s) : kept[n] = IF s[n] \in keep THEN Append(kept[n - 1], s[n]) ELSE kept[n - 1]
<1> DEFINE N == Len(s)
           T == Seq(U)
           none == <<>>
           at == {i \in DOMAIN s : s[i] \in keep}
           Next1(n, q) == IF n \in at THEN Append(q, s[n]) ELSE q
           Steps(f) == [n \in 0..N |-> IF n = 0 THEN none ELSE Next1(n, f[n - 1])]
           G == [n \in Nat |-> [q \in T |-> IF n \in 1..N THEN Next1(n, q) ELSE q]]
           kept == CHOOSE g : g = Steps(g)
<1>1. N \in Nat /\ none \in T
    OBVIOUS
<1>2. \A n \in 1..N, q \in T : Next1(n, q) \in T
    OBVIOUS
<1>3. Filter(s, keep) = kept[N]
    BY DEF Filter, Only
<1> HIDE DEF N, T, none, at, Next1
<1>4. G \in [Nat -> [T -> T]]
    BY <1>2
<1>5. PICK f \in [0..N -> T] : f[0] = none /\ \A n \in 1..N : f[n] = G[n][f[n - 1]]
    <2> HIDE DEF G
    <2>1. Iterates(N, T, none, G)
        BY <1>1, <1>4, Iteration
    <2> QED
        BY <2>1 DEF Iterates
<1>6. \A n \in 1..N : f[n] = Next1(n, f[n - 1])
    <2> TAKE n \in 1..N
    <2>1. n \in Nat /\ f[n - 1] \in T
        BY <1>1, <1>5
    <2> QED
        BY <1>5, <2>1
<1>7. f = Steps(f)
    BY <1>1, <1>5, <1>6
<1>8. kept = Steps(kept)
    <2> HIDE DEF Steps
    <2> QED
        BY <1>7
<1> HIDE DEF kept, G
<1>9. /\ kept[0] = none
      /\ \A n \in 1..N : kept[n] = Next1(n, kept[n - 1])
      /\ kept = [n \in 0..N |-> kept[n]]
    <2>1. kept = [n \in 0..N |-> IF n = 0 THEN none ELSE Next1(n, kept[n - 1])]
        BY <1>8
    <2> HIDE DEF Steps
    <2>2. 0 \in 0..N
        BY <1>1
    <2>3. kept[0] = none
        BY <2>1, <2>2
    <2>4. ASSUME NEW n \in 1..N PROVE kept[n] = Next1(n, kept[n - 1])
        <3>1. n \in 0..N /\ n # 0
            BY <1>1
        <3> QED
            BY <2>1, <3>1
    <2>5. kept = [n \in 0..N |-> kept[n]]
        BY <2>1
    <2> QED
        BY <2>3, <2>4, <2>5
<1> DEFINE S == {n \in 0..N : kept[n] \in T}
<1>10. 0 \in S
    BY <1>1, <1>9
<1>11. ASSUME NEW n \in 0..N, n \in S /\ n < N PROVE n + 1 \in S
    <2>1. n + 1 \in 1..N /\ (n + 1) - 1 = n /\ kept[n] \in T
        BY <1>1, <1>11
    <2>2. kept[n + 1] \in T
        BY <1>2, <1>9, <2>1
    <2> QED
        BY <2>1, <2>2
<1>12. 0..N \subseteq S
    <2> HIDE DEF S
    <2> QED
        BY <1>1, <1>10, <1>11, Counting
<1>13. kept \in [0..N -> T]
    BY <1>9, <1>12
<1>14. \A n \in 1..N : n \in at <=> s[n] \in keep
    BY DEF N, at
<1> QED
    BY <1>3, <1>9, <1>13, <1>14 DEF N, T, none, Next1

LEMMA FilterFacts ==
    ASSUME NEW U, NEW s \in Seq(U), NEW keep
    PROVE  /\ Filter(s, keep) \in Seq(U)
           /\ Range(Filter(s, keep)) = Range(s) \cap keep
           /\ IsInjective(s) => IsInjective(Filter(s, keep))
<1> DEFINE N == Len(s)
           Of(n) == {s[i] : i \in 1..n}
<1>1. PICK kept \in [0..N -> Seq(U)] :
        /\ Filter(s, keep) = kept[N]
        /\ kept[0] = <<>>
        /\ \A n \in 1..N : kept[n] = IF s[n] \in keep THEN Append(kept[n - 1], s[n]) ELSE kept[n - 1]
    BY FilterSteps
<1> DEFINE Good(n) == /\ Range(kept[n]) = Of(n) \cap keep
                      /\ IsInjective(s) => IsInjective(kept[n])
           S == {n \in 0..N : Good(n)}
<1>2. N \in Nat /\ DOMAIN s = 1..N
    OBVIOUS
<1>3. 0 \in S
    <2>1. Of(0) = {}
        OBVIOUS
    <2> QED
        BY <1>1, <1>2, <2>1 DEF Range, IsInjective
<1>4. ASSUME NEW n \in 0..N, n \in S, n < N PROVE n + 1 \in S
    <2> DEFINE q == kept[n]
               r == kept[n + 1]
               e == s[n + 1]
    <2>1. n \in Nat /\ n + 1 \in 1..N /\ (n + 1) - 1 = n /\ q \in Seq(U) /\ e \in U
        <3>1. n \in Nat /\ n + 1 \in 1..N /\ (n + 1) - 1 = n
            BY <1>2, <1>4
        <3>2. q \in Seq(U)
            BY <1>1
        <3>3. e \in U
            BY <1>2, <3>1
        <3> QED
            BY <3>1, <3>2, <3>3
    <2>2. Of(n + 1) = Of(n) \cup {e}
        <3>1. 1..(n + 1) = (1..n) \cup {n + 1}
            BY <2>1
        <3> QED
            BY <3>1
    <2>3. Good(n)
        BY <1>4
    <2>4. CASE e \notin keep
        <3>1. r = q
            BY <1>1, <2>1, <2>4
        <3>2. Good(n + 1)
            BY <2>2, <2>3, <2>4, <3>1
        <3> QED
            BY <2>1, <3>2
    <2>5. CASE e \in keep
        <3>1. r = Append(q, e)
            BY <1>1, <2>1, <2>5
        <3>2. DOMAIN r = DOMAIN q \cup {Len(q) + 1} /\ Len(q) + 1 \notin DOMAIN q /\ DOMAIN q = 1..Len(q)
            BY <2>1, <3>1
        <3>3. r[Len(q) + 1] = e /\ \A i \in DOMAIN q : r[i] = q[i]
            BY <2>1, <3>1
        <3>4. Range(r) = Range(q) \cup {e}
            BY <3>2, <3>3 DEF Range
        <3>5. Range(r) = Of(n + 1) \cap keep
            BY <2>2, <2>3, <2>5, <3>4
        <3>6. ASSUME IsInjective(s) PROVE IsInjective(r)
            <4>1. e \notin Of(n)
                BY <1>2, <2>1, <3>6 DEF IsInjective
            <4>2. e \notin Range(q)
                BY <2>3, <4>1
            <4>3. IsInjective(q)
                BY <2>3, <3>6
            <4> QED
                BY <3>2, <3>3, <4>2, <4>3 DEF IsInjective, Range
        <3>7. Good(n + 1)
            BY <3>5, <3>6
        <3> QED
            BY <2>1, <3>7
    <2> QED
        BY <2>4, <2>5
<1>5. 0..N \subseteq S
    <2> HIDE DEF S, N
    <2> QED
        BY <1>2, <1>3, <1>4, Counting
<1>6. Good(N)
    BY <1>2, <1>5
<1>7. Of(N) = Range(s)
    BY <1>2 DEF Range
<1> QED
    BY <1>1, <1>2, <1>6, <1>7

-----------------------------------------------------------------------------
(* topoOrder                                                               *)

LEMMA ReadyFacts ==
    ASSUME NEW U, NEW tables \in Seq(U), NEW fks, NEW out
    PROVE  /\ Ready(tables, fks, out) \in Seq(U)
           /\ Range(Ready(tables, fks, out)) =
                {t \in Range(tables) \ Range(out) : Deps(t, tables, fks) \subseteq Range(out)}
           /\ IsInjective(tables) => IsInjective(Ready(tables, fks, out))
<1> DEFINE keep == {t \in Range(tables) \ Range(out) : Deps(t, tables, fks) \subseteq Range(out)}
<1>1. Ready(tables, fks, out) = Filter(tables, keep)
    BY DEF Ready
<1>2. Range(tables) \cap keep = keep
    OBVIOUS
<1> HIDE DEF keep
<1>3. /\ Filter(tables, keep) \in Seq(U)
      /\ Range(Filter(tables, keep)) = Range(tables) \cap keep
      /\ IsInjective(tables) => IsInjective(Filter(tables, keep))
    BY FilterFacts
<1> QED
    BY <1>1, <1>2, <1>3 DEF keep

\* The rounds of the loop.
Looped(U, tables, fks) ==
    \E out \in [0..Len(tables) -> Seq(U)] :
        /\ TopoOrder(tables, fks) =
              out[Len(tables)] \o Filter(tables, Range(tables) \ Range(out[Len(tables)]))
        /\ out[0] = <<>>
        /\ \A n \in 1..Len(tables) : out[n] = out[n - 1] \o Ready(tables, fks, out[n - 1])

LEMMA Rounds ==
    ASSUME NEW U, NEW tables \in Seq(U), NEW fks
    PROVE  Looped(U, tables, fks)
<1> DEFINE N == Len(tables)
           T == Seq(U)
           none == <<>>
           Next1(q) == q \o Ready(tables, fks, q)
           Steps(f) == [n \in 0..N |-> IF n = 0 THEN none ELSE Next1(f[n - 1])]
           G == [n \in Nat |-> [q \in T |-> Next1(q)]]
           out == CHOOSE g : g = Steps(g)
<1>1. N \in Nat /\ none \in T
    OBVIOUS
<1>2. \A q \in T : Next1(q) \in T
    <2> TAKE q \in T
    <2>1. Ready(tables, fks, q) \in Seq(U)
        BY ReadyFacts
    <2> QED
        BY <2>1
<1>3. TopoOrder(tables, fks) = out[N] \o Filter(tables, Range(tables) \ Range(out[N]))
    BY DEF TopoOrder
<1> HIDE DEF N, T, none, Next1
<1>4. G \in [Nat -> [T -> T]]
    BY <1>2
<1>5. PICK f \in [0..N -> T] : f[0] = none /\ \A n \in 1..N : f[n] = G[n][f[n - 1]]
    <2> HIDE DEF G
    <2>1. Iterates(N, T, none, G)
        BY <1>1, <1>4, Iteration
    <2> QED
        BY <2>1 DEF Iterates
<1>6. \A n \in 1..N : f[n] = Next1(f[n - 1])
    <2> TAKE n \in 1..N
    <2>1. n \in Nat /\ f[n - 1] \in T
        BY <1>1, <1>5
    <2> QED
        BY <1>5, <2>1
<1>7. f = Steps(f)
    BY <1>1, <1>5, <1>6
<1>8. out = Steps(out)
    <2> HIDE DEF Steps
    <2> QED
        BY <1>7
<1> HIDE DEF out, G
<1>9. /\ out[0] = none
      /\ \A n \in 1..N : out[n] = Next1(out[n - 1])
      /\ out = [n \in 0..N |-> out[n]]
    <2>1. out = [n \in 0..N |-> IF n = 0 THEN none ELSE Next1(out[n - 1])]
        BY <1>8
    <2> HIDE DEF Steps
    <2>2. 0 \in 0..N
        BY <1>1
    <2>3. out[0] = none
        BY <2>1, <2>2
    <2>4. ASSUME NEW n \in 1..N PROVE out[n] = Next1(out[n - 1])
        <3>1. n \in 0..N /\ n # 0
            BY <1>1
        <3> QED
            BY <2>1, <3>1
    <2>5. out = [n \in 0..N |-> out[n]]
        BY <2>1
    <2> QED
        BY <2>3, <2>4, <2>5
<1> DEFINE S == {n \in 0..N : out[n] \in T}
<1>10. 0 \in S
    BY <1>1, <1>9
<1>11. ASSUME NEW n \in 0..N, n \in S /\ n < N PROVE n + 1 \in S
    <2>1. n + 1 \in 1..N /\ (n + 1) - 1 = n /\ out[n] \in T
        BY <1>1, <1>11
    <2>2. out[n + 1] \in T
        BY <1>2, <1>9, <2>1
    <2> QED
        BY <2>1, <2>2
<1>12. 0..N \subseteq S
    <2> HIDE DEF S
    <2> QED
        BY <1>1, <1>10, <1>11, Counting
<1>13. out \in [0..N -> T]
    BY <1>9, <1>12
<1> QED
    BY <1>3, <1>9, <1>13 DEF Looped, N, T, none, Next1

LEMMA Concatenated ==
    ASSUME NEW U, NEW p \in Seq(U), NEW q \in Seq(U)
    PROVE  /\ p \o q \in Seq(U) /\ Len(p \o q) = Len(p) + Len(q)
           /\ \A i \in 1..Len(p) : (p \o q)[i] = p[i]
           /\ \A i \in 1..Len(q) : (p \o q)[Len(p) + i] = q[i]
           /\ Range(p \o q) = Range(p) \cup Range(q)
           /\ IsInjective(p) /\ IsInjective(q) /\ Range(p) \cap Range(q) = {} => IsInjective(p \o q)
<1> DEFINE r == p \o q
<1>1. r \in Seq(U) /\ Len(r) = Len(p) + Len(q) /\ Len(p) \in Nat /\ Len(q) \in Nat
    OBVIOUS
<1>2. \A i \in 1..Len(p) : r[i] = p[i]
    OBVIOUS
<1>3. \A i \in 1..Len(q) : r[Len(p) + i] = q[i]
    OBVIOUS
<1>4. DOMAIN p = 1..Len(p) /\ DOMAIN q = 1..Len(q) /\ DOMAIN r = 1..(Len(p) + Len(q))
    BY <1>1
<1> HIDE DEF r
<1>5. \A i \in DOMAIN r : i \in DOMAIN p \/ (i - Len(p) \in DOMAIN q /\ r[i] = q[i - Len(p)])
    <2> TAKE i \in DOMAIN r
    <2>1. CASE i <= Len(p)
        BY <1>1, <1>4, <2>1
    <2>2. CASE i > Len(p)
        <3>1. i - Len(p) \in 1..Len(q) /\ Len(p) + (i - Len(p)) = i
            BY <1>1, <1>4, <2>2
        <3> QED
            BY <1>3, <1>4, <3>1
    <2> QED
        BY <1>1, <1>4, <2>1, <2>2
<1>6. Range(r) = Range(p) \cup Range(q)
    <2>1. Range(r) \subseteq Range(p) \cup Range(q)
        BY <1>2, <1>4, <1>5 DEF Range
    <2>2. Range(p) \subseteq Range(r)
        BY <1>1, <1>2, <1>4 DEF Range
    <2>3. Range(q) \subseteq Range(r)
        <3>1. \A i \in 1..Len(q) : Len(p) + i \in DOMAIN r
            BY <1>1, <1>4
        <3> QED
            BY <1>3, <1>4, <3>1 DEF Range
    <2> QED
        BY <2>1, <2>2, <2>3
<1>7. ASSUME IsInjective(p), IsInjective(q), Range(p) \cap Range(q) = {} PROVE IsInjective(r)
    <2> SUFFICES ASSUME NEW i \in DOMAIN r, NEW j \in DOMAIN r, r[i] = r[j] PROVE i = j
        BY DEF IsInjective
    <2>0. i \in Nat /\ j \in Nat
        BY <1>4, <1>1
    <2>1. CASE i \in DOMAIN p /\ j \in DOMAIN p
        BY <1>2, <1>4, <1>7, <2>1 DEF IsInjective
    <2>2. CASE i \notin DOMAIN p /\ j \notin DOMAIN p
        <3>1. i - Len(p) = j - Len(p)
            BY <1>5, <1>7, <2>2 DEF IsInjective
        <3> QED
            BY <1>1, <2>0, <3>1
    <2>3. \A k \in DOMAIN r : k \in DOMAIN p => r[k] \in Range(p)
        BY <1>2, <1>4 DEF Range
    <2>4. \A k \in DOMAIN r : k \notin DOMAIN p => r[k] \in Range(q)
        BY <1>5 DEF Range
    <2> QED
        BY <1>7, <2>1, <2>2, <2>3, <2>4
<1> QED
    BY <1>1, <1>2, <1>3, <1>6, <1>7 DEF r

\* A sequence without duplicates is as long as its range is large.
LEMMA AsLong ==
    ASSUME NEW U, NEW s \in Seq(U), IsInjective(s)
    PROVE  IsFiniteSet(Range(s)) /\ Cardinality(Range(s)) = Len(s)
<1> DEFINE D == 1..Len(s)
           R == Range(s)
<1>1. Len(s) \in Nat /\ DOMAIN s = D
    OBVIOUS
<1>2. IsFiniteSet(D) /\ Cardinality(D) = Len(s)
    BY <1>1, FS_Interval
<1>3. s \in Bijection(D, R)
    <2>1. s \in [D -> R]
        BY <1>1 DEF Range
    <2>2. \A t \in R : \E i \in D : s[i] = t
        BY <1>1 DEF Range
    <2> QED
        BY <2>1, <2>2 DEF Bijection, Injection, Surjection
<1>4. ExistsBijection(D, R)
    BY <1>3 DEF ExistsBijection
<1> HIDE DEF D, R
<1>5. IsFiniteSet(R) /\ Cardinality(R) = Cardinality(D)
    BY <1>2, <1>4, FS_Bijection
<1> QED
    BY <1>2, <1>5 DEF R

\* Each table comes after those it refers to.
Closed(seq, tables, fks) ==
    \A i \in DOMAIN seq : \A p \in Deps(seq[i], tables, fks) :
        \E j \in DOMAIN seq : j < i /\ seq[j] = p

\* What is true of the loop after n rounds.
RoundInv(n, out, tables, fks) ==
    /\ Range(out) \subseteq Range(tables)
    /\ IsInjective(out)
    /\ Closed(out, tables, fks)
    /\ Len(out) >= n \/ Ready(tables, fks, out) = <<>>

LEMMA OneRound ==
    ASSUME NEW U, NEW tables \in Seq(U), NEW fks, IsInjective(tables),
           NEW n \in Nat, NEW out \in Seq(U), RoundInv(n, out, tables, fks)
    PROVE  RoundInv(n + 1, out \o Ready(tables, fks, out), tables, fks)
<1> DEFINE ready == Ready(tables, fks, out)
           next == out \o ready
<1>1. /\ ready \in Seq(U)
      /\ Range(ready) = {t \in Range(tables) \ Range(out) : Deps(t, tables, fks) \subseteq Range(out)}
      /\ IsInjective(ready)
    BY ReadyFacts
<1>2. ready = <<>> => next = out
    OBVIOUS
<1>3. ready # <<>> => Len(ready) >= 1
    BY <1>1
<1> HIDE DEF ready
<1>4. /\ next \in Seq(U) /\ Len(next) = Len(out) + Len(ready)
      /\ \A i \in 1..Len(out) : next[i] = out[i]
      /\ \A i \in 1..Len(ready) : next[Len(out) + i] = ready[i]
      /\ Range(next) = Range(out) \cup Range(ready)
      /\ IsInjective(out) /\ IsInjective(ready) /\ Range(out) \cap Range(ready) = {} => IsInjective(next)
    BY <1>1, Concatenated
<1>5. DOMAIN out = 1..Len(out) /\ DOMAIN ready = 1..Len(ready) /\ Len(out) \in Nat /\ Len(ready) \in Nat
    BY <1>1
<1> HIDE DEF next
<1>6. Range(next) \subseteq Range(tables) /\ IsInjective(next)
    BY <1>1, <1>4 DEF RoundInv
<1>7. DOMAIN next = 1..(Len(out) + Len(ready))
    BY <1>4, <1>5
<1>8. ASSUME NEW i \in DOMAIN next, NEW p \in Deps(next[i], tables, fks)
      PROVE  \E j \in DOMAIN next : j < i /\ next[j] = p
    <2>1. CASE i <= Len(out)
        <3>1. i \in DOMAIN out /\ next[i] = out[i]
            BY <1>4, <1>5, <1>7, <2>1
        <3>2. PICK j \in DOMAIN out : j < i /\ out[j] = p
            BY <1>8, <3>1 DEF RoundInv, Closed
        <3> QED
            BY <1>4, <1>5, <1>7, <3>2
    <2>2. CASE i > Len(out)
        <3>1. i - Len(out) \in DOMAIN ready /\ Len(out) + (i - Len(out)) = i
            BY <1>5, <1>7, <2>2
        <3>2. next[i] = ready[i - Len(out)]
            BY <1>4, <1>5, <3>1
        <3>3. next[i] \in Range(ready)
            BY <3>1, <3>2 DEF Range
        <3>4. p \in Range(out)
            BY <1>1, <1>8, <3>3
        <3>5. PICK j \in DOMAIN out : out[j] = p
            BY <3>4 DEF Range
        <3> QED
            BY <1>4, <1>5, <1>7, <2>2, <3>5
    <2> QED
        BY <1>5, <1>7, <2>1, <2>2
<1>9. Len(next) >= n + 1 \/ Ready(tables, fks, next) = <<>>
    <2>1. CASE ready = <<>>
        BY <1>2, <2>1 DEF ready
    <2>2. CASE ready # <<>>
        BY <1>3, <1>4, <1>5, <2>2 DEF RoundInv, ready
    <2> QED
        BY <2>1, <2>2
<1>10. RoundInv(n + 1, next, tables, fks)
    BY <1>6, <1>8, <1>9 DEF RoundInv, Closed
<1> QED
    BY <1>10 DEF next, ready

\* The loop stops when no table is ready, or has none left.
LEMMA RoundsEnd ==
    ASSUME NEW U, NEW tables \in Seq(U), NEW fks, IsInjective(tables),
           NEW out \in Seq(U), RoundInv(Len(tables), out, tables, fks),
           NEW t \in Range(tables) \ Range(out)
    PROVE  Stuck(t, tables, fks)
<1> DEFINE R == Range(tables)
           O == Range(out)
<1>1. IsFiniteSet(R) /\ Cardinality(R) = Len(tables) /\ Cardinality(O) = Len(out) /\ O \subseteq R
    BY AsLong DEF RoundInv
<1>2. Len(tables) \in Nat /\ Len(out) \in Nat
    OBVIOUS
<1>3. Ready(tables, fks, out) = <<>>
    <2>1. SUFFICES ASSUME Len(out) >= Len(tables) PROVE FALSE
        BY DEF RoundInv
    <2>2. R # O
        OBVIOUS
    <2> HIDE DEF R, O
    <2>3. Cardinality(O) <= Cardinality(R) /\ (Cardinality(R) = Cardinality(O) => R = O)
        BY <1>1, FS_Subset
    <2> QED
        BY <1>1, <1>2, <2>1, <2>2, <2>3
<1>4. {u \in R \ O : Deps(u, tables, fks) \subseteq O} = {}
    <2>1. Range(Ready(tables, fks, out)) = {u \in R \ O : Deps(u, tables, fks) \subseteq O}
        BY ReadyFacts
    <2>2. Range(<<>>) = {}
        BY DEF Range
    <2> QED
        BY <1>3, <2>1, <2>2
<1>5. \A u \in R \ O : Deps(u, tables, fks) \cap (R \ O) # {}
    <2>1. \A u \in R \ O : Deps(u, tables, fks) \subseteq R
        BY DEF Deps
    <2> HIDE DEF R, O
    <2> QED
        BY <1>4, <2>1
<1>6. t \in R \ O /\ R \ O \in SUBSET R
    OBVIOUS
<1> HIDE DEF O
<1> QED
    BY <1>5, <1>6 DEF Stuck

\* What the loop leaves out is appended in input order: each table is there
\* once, those of no cycle after their parents.
LEMMA RoundsThenRest ==
    ASSUME NEW U, NEW tables \in Seq(U), NEW fks, IsInjective(tables),
           NEW rounds \in Seq(U), RoundInv(Len(tables), rounds, tables, fks)
    PROVE  LET whole == rounds \o Filter(tables, Range(tables) \ Range(rounds))
           IN whole \in Seq(U) /\ IsInjective(whole) /\ ParentsFirstIn(whole, tables, fks)
<1> DEFINE rest == Filter(tables, Range(tables) \ Range(rounds))
           whole == rounds \o rest
<1>1. /\ rest \in Seq(U)
      /\ Range(rest) = Range(tables) \cap (Range(tables) \ Range(rounds))
      /\ IsInjective(rest)
    BY FilterFacts
<1> HIDE DEF rest
<1>2. /\ whole \in Seq(U) /\ Len(whole) = Len(rounds) + Len(rest)
      /\ \A i \in 1..Len(rounds) : whole[i] = rounds[i]
      /\ Range(whole) = Range(rounds) \cup Range(rest)
      /\ IsInjective(rounds) /\ IsInjective(rest) /\ Range(rounds) \cap Range(rest) = {} => IsInjective(whole)
    BY <1>1, Concatenated
<1> HIDE DEF whole
<1>3. Range(whole) = Range(tables) /\ IsInjective(whole)
    BY <1>1, <1>2 DEF RoundInv
<1>4. Len(whole) = Len(tables)
    <2>1. Cardinality(Range(whole)) = Len(whole)
        BY <1>2, <1>3, AsLong
    <2>2. Cardinality(Range(tables)) = Len(tables)
        BY AsLong
    <2> QED
        BY <1>3, <2>1, <2>2
<1>5. \A i \in DOMAIN whole : Position(whole[i], whole) = i
    BY <1>3 DEF Position, IsInjective
<1>6. DOMAIN rounds = 1..Len(rounds) /\ DOMAIN whole = 1..(Len(rounds) + Len(rest))
       /\ Len(rounds) \in Nat /\ Len(rest) \in Nat
    BY <1>1, <1>2
<1>7. ASSUME NEW t \in Range(tables), ~Stuck(t, tables, fks), NEW p \in Deps(t, tables, fks)
       PROVE  Position(p, whole) < Position(t, whole)
    <2>1. t \in Range(rounds)
        BY <1>7, RoundsEnd
    <2>2. PICK i \in DOMAIN rounds : rounds[i] = t
        BY <2>1 DEF Range
    <2>3. PICK j \in DOMAIN rounds : j < i /\ rounds[j] = p
        BY <1>7, <2>2 DEF RoundInv, Closed
    <2>4. i \in DOMAIN whole /\ j \in DOMAIN whole /\ whole[i] = t /\ whole[j] = p
        BY <1>2, <1>6, <2>2, <2>3
    <2> QED
        BY <1>5, <2>3, <2>4
<1>8. ParentsFirstIn(whole, tables, fks)
    BY <1>3, <1>4, <1>7 DEF ParentsFirstIn
<1> QED
    BY <1>2, <1>3, <1>8 DEF whole, rest

\* topoOrder has each table once and, but for tables on a cycle or behind one, a table after those it
\* refers to: for any tables and any references between them.
THEOREM TopoOrderSound ==
    ASSUME NEW U, NEW tables \in Seq(U), NEW fks, IsInjective(tables)
    PROVE  /\ TopoOrder(tables, fks) \in Seq(U)
           /\ IsInjective(TopoOrder(tables, fks))
           /\ ParentsFirstIn(TopoOrder(tables, fks), tables, fks)
<1> DEFINE N == Len(tables)
<1>1. PICK out \in [0..N -> Seq(U)] :
        /\ TopoOrder(tables, fks) = out[N] \o Filter(tables, Range(tables) \ Range(out[N]))
        /\ out[0] = <<>>
        /\ \A n \in 1..N : out[n] = out[n - 1] \o Ready(tables, fks, out[n - 1])
    <2>1. Looped(U, tables, fks)
        BY Rounds
    <2> QED
        BY <2>1 DEF Looped
<1> DEFINE S == {n \in 0..N : RoundInv(n, out[n], tables, fks)}
<1>2. N \in Nat
    OBVIOUS
<1>3. 0 \in S
    <2>1. Range(<<>>) = {} /\ IsInjective(<<>>) /\ DOMAIN <<>> = {} /\ Len(<<>>) = 0
        BY DEF Range, IsInjective
    <2>2. RoundInv(0, <<>>, tables, fks)
        BY <2>1 DEF RoundInv, Closed
    <2> QED
        BY <1>1, <1>2, <2>2
<1>4. ASSUME NEW n \in 0..N, n \in S /\ n < N PROVE n + 1 \in S
    <2>1. n \in Nat /\ n + 1 \in 1..N /\ (n + 1) - 1 = n /\ out[n] \in Seq(U)
        <3> HIDE DEF N, S
        <3>1. n \in Nat /\ n + 1 \in 1..N /\ (n + 1) - 1 = n
            BY <1>2, <1>4
        <3>2. out[n] \in Seq(U)
            OBVIOUS
        <3> QED
            BY <3>1, <3>2
    <2>2. out[n + 1] = out[n] \o Ready(tables, fks, out[n])
        BY <1>1, <2>1
    <2>3. RoundInv(n, out[n], tables, fks)
        BY <1>4
    <2>4. RoundInv(n + 1, out[n + 1], tables, fks)
        BY <2>1, <2>2, <2>3, OneRound
    <2> QED
        BY <2>1, <2>4
<1>5. 0..N \subseteq S
    <2> HIDE DEF S, N
    <2> QED
        BY <1>2, <1>3, <1>4, Counting
<1> DEFINE rounds == out[N]
<1>6. rounds \in Seq(U) /\ RoundInv(N, rounds, tables, fks)
    BY <1>1, <1>2, <1>5
<1>7. TopoOrder(tables, fks) = rounds \o Filter(tables, Range(tables) \ Range(rounds))
    BY <1>1
<1> HIDE DEF S, rounds
<1> QED
    BY <1>6, <1>7, RoundsThenRest

-----------------------------------------------------------------------------
(* Reachability                                                            *)

\* y is in every set of tables that has x and what its tables refer to.
Reach(V, deps, x, y) ==
    \A S \in SUBSET V : x \in S /\ (\A s \in S : Range(deps[s]) \subseteq S) => y \in S

LEMMA ReachSelf ==
    ASSUME NEW V, NEW deps, NEW x \in V
    PROVE  Reach(V, deps, x, x)
BY DEF Reach

LEMMA ReachNext ==
    ASSUME NEW V, NEW deps, NEW x \in V, NEW y \in V, NEW z, Reach(V, deps, x, y), z \in Range(deps[y])
    PROVE  Reach(V, deps, x, z)
BY DEF Reach

LEMMA ReachThrough ==
    ASSUME NEW V, NEW deps, NEW x, NEW y, NEW z, Reach(V, deps, x, y), Reach(V, deps, y, z)
    PROVE  Reach(V, deps, x, z)
BY DEF Reach

\* What is reached from a closed set is in it.
LEMMA ReachStays ==
    ASSUME NEW V, NEW deps, NEW S \in SUBSET V, \A s \in S : Range(deps[s]) \subseteq S,
           NEW x \in S, NEW y, Reach(V, deps, x, y)
    PROVE  y \in S
BY DEF Reach

\* A way out of a set of tables leaves it by a reference.
LEMMA ReachLeaves ==
    ASSUME NEW V, NEW deps, \A v \in V : Range(deps[v]) \subseteq V,
           NEW A \in SUBSET V, NEW x \in A, NEW y \in V \ A, Reach(V, deps, x, y)
    PROVE  \E a \in A, b \in V \ A : b \in Range(deps[a]) /\ Reach(V, deps, x, a) /\ Reach(V, deps, b, y)
<1> SUFFICES ASSUME \A a \in A, b \in V \ A : b \in Range(deps[a]) /\ Reach(V, deps, x, a) => ~Reach(V, deps, b, y)
             PROVE  FALSE
    OBVIOUS
<1> DEFINE C == {a \in A : Reach(V, deps, x, a)} \cup {z \in V : ~Reach(V, deps, z, y)}
<1>1. x \in C /\ C \in SUBSET V
    BY ReachSelf
<1>2. y \notin C
    BY ReachSelf
<1>3. ASSUME NEW s \in C, NEW b \in Range(deps[s]) PROVE b \in C
    <2>1. s \in V /\ b \in V
        OBVIOUS
    <2>2. CASE s \in A /\ Reach(V, deps, x, s)
        <3>1. Reach(V, deps, x, b)
            BY <2>1, <2>2, <1>3, ReachNext
        <3>2. CASE b \in A
            BY <3>1, <3>2
        <3>3. CASE b \notin A
            BY <2>1, <2>2, <1>3, <3>3
        <3> QED
            BY <3>2, <3>3
    <2>3. CASE ~Reach(V, deps, s, y)
        <3>1. ASSUME Reach(V, deps, b, y) PROVE FALSE
            <4>1. Reach(V, deps, s, b)
                BY <2>1, <1>3, ReachSelf, ReachNext
            <4> QED
                BY <2>3, <3>1, <4>1, ReachThrough
        <3> QED
            BY <2>1, <3>1
    <2> QED
        BY <2>2, <2>3
<1> HIDE DEF C
<1> QED
    BY <1>1, <1>2, <1>3, ReachStays

\* Tables that refer to each other, directly or not.
Scc(V, deps, v) == {u \in V : Reach(V, deps, v, u) /\ Reach(V, deps, u, v)}

LEMMA SccSame ==
    ASSUME NEW V, NEW deps, NEW v \in V, NEW u \in Scc(V, deps, v)
    PROVE  Scc(V, deps, u) = Scc(V, deps, v)
<1>1. Reach(V, deps, v, u) /\ Reach(V, deps, u, v)
    BY DEF Scc
<1>2. \A w \in V : (Reach(V, deps, v, w) <=> Reach(V, deps, u, w)) /\ (Reach(V, deps, w, v) <=> Reach(V, deps, w, u))
    BY <1>1, ReachThrough
<1> QED
    BY <1>2 DEF Scc

-----------------------------------------------------------------------------
(* The functions of the search                                             *)

Calls(V) == [V \X Searches(V) -> Searches(V)]

LEMMA SearchFields ==
    ASSUME NEW V, NEW st \in Searches(V)
    PROVE  /\ st.index \in [V -> Nat] /\ st.low \in [V -> Nat] /\ st.count \in Nat
           /\ st.stack \in Seq(V) /\ st.cycles \in SUBSET SUBSET V
BY DEF Searches

\* s is st with v's low brought down to n.
Lower(V, st, v, n, s) ==
    /\ s \in Searches(V)
    /\ s.index = st.index /\ s.count = st.count /\ s.stack = st.stack /\ s.cycles = st.cycles
    /\ \A x \in V \ {v} : s.low[x] = st.low[x]
    /\ s.low[v] = IF st.low[v] < n THEN st.low[v] ELSE n

LEMMA LoweredFacts ==
    ASSUME NEW V, NEW st \in Searches(V), NEW v \in V, NEW n \in Nat
    PROVE  Lower(V, st, v, n, Lowered(st, v, n))
<1> DEFINE low == [st.low EXCEPT ![v] = Least(st.low[v], n)]
<1>1. low \in [V -> Nat] /\ (\A x \in V \ {v} : low[x] = st.low[x]) /\ low[v] = IF st.low[v] < n THEN st.low[v] ELSE n
    <2>1. st.low \in [V -> Nat] /\ st.low[v] \in Nat
        BY SearchFields
    <2>2. Least(st.low[v], n) \in Nat /\ Least(st.low[v], n) = IF st.low[v] < n THEN st.low[v] ELSE n
        BY <2>1 DEF Least
    <2> QED
        BY <2>1, <2>2
<1>2. Lowered(st, v, n) = [st EXCEPT !.low = low]
    BY DEF Lowered
<1> HIDE DEF low
<1> QED
    BY <1>1, <1>2 DEF Searches, Lower

LEMMA EnteredFacts ==
    ASSUME NEW V, NEW st \in Searches(V), NEW v \in V
    PROVE  /\ Entered(v, st) \in Searches(V)
           /\ Entered(v, st).index = [st.index EXCEPT ![v] = st.count]
           /\ Entered(v, st).low = [st.low EXCEPT ![v] = st.count]
           /\ Entered(v, st).count = st.count + 1
           /\ Entered(v, st).stack = Append(st.stack, v)
           /\ Entered(v, st).cycles = st.cycles
<1> DEFINE index == [st.index EXCEPT ![v] = st.count]
           low == [st.low EXCEPT ![v] = st.count]
           stack == Append(st.stack, v)
<1>1. index \in [V -> Nat] /\ low \in [V -> Nat] /\ stack \in Seq(V) /\ st.count + 1 \in Nat
    BY SearchFields
<1>2. Entered(v, st) = [st EXCEPT !.index = index, !.low = low, !.count = st.count + 1, !.stack = stack]
    BY DEF Entered
<1> HIDE DEF index, low, stack
<1>3. /\ Entered(v, st) \in Searches(V) /\ Entered(v, st).index = index /\ Entered(v, st).low = low
      /\ Entered(v, st).count = st.count + 1 /\ Entered(v, st).stack = stack /\ Entered(v, st).cycles = st.cycles
    BY <1>1, <1>2 DEF Searches
<1> QED
    BY <1>3 DEF index, low, stack

LEMMA VisitedTyped ==
    ASSUME NEW V, NEW st \in Searches(V), NEW v \in V, NEW w \in V, NEW connect \in Calls(V)
    PROVE  Visited(v, w, st, connect) \in Searches(V)
<1>1. connect[<<w, st>>] \in Searches(V)
    BY DEF Calls
<1> DEFINE after == connect[<<w, st>>]
<1> HIDE DEF after
<1>2. after.low[w] \in Nat /\ st.index[w] \in Nat
    BY <1>1, SearchFields DEF after
<1>3. Lowered(after, v, after.low[w]) \in Searches(V) /\ Lowered(st, v, st.index[w]) \in Searches(V)
    BY <1>1, <1>2, LoweredFacts DEF after, Lower
<1> QED
    BY <1>3 DEF Visited, after

\* The states the loop of strongConnect goes through.
LoopSteps(V, v, ws, st, connect, f) ==
    /\ f \in [0..Len(ws) -> Searches(V)]
    /\ f[0] = st
    /\ \A k \in 1..Len(ws) : f[k] = Visited(v, ws[k], f[k - 1], connect)

LEMMA AllVisitedSteps ==
    ASSUME NEW V, NEW st \in Searches(V), NEW v \in V, NEW ws \in Seq(V), NEW connect \in Calls(V)
    PROVE  \E f : LoopSteps(V, v, ws, st, connect, f) /\ AllVisited(v, ws, st, connect) = f[Len(ws)]
<1> DEFINE N == Len(ws)
           T == Searches(V)
           B(n, q) == Visited(v, ws[n], q, connect)
           Steps(f) == [k \in 0..N |-> IF k = 0 THEN st ELSE B(k, f[k - 1])]
           G == [n \in Nat |-> [q \in T |-> IF n \in 1..N THEN B(n, q) ELSE q]]
           c == CHOOSE f : f = Steps(f)
<1>1. N \in Nat /\ st \in T
    OBVIOUS
<1>2. \A n \in 1..N, q \in T : B(n, q) \in T
    <2> TAKE n \in 1..N, q \in T
    <2>1. ws[n] \in V
        OBVIOUS
    <2> QED
        BY <2>1, VisitedTyped
<1>3. AllVisited(v, ws, st, connect) = c[N]
    BY DEF AllVisited
<1> HIDE DEF N, T, B
<1>4. G \in [Nat -> [T -> T]]
    BY <1>2
<1>5. PICK f \in [0..N -> T] : f[0] = st /\ \A n \in 1..N : f[n] = G[n][f[n - 1]]
    <2> HIDE DEF G
    <2>1. Iterates(N, T, st, G)
        BY <1>1, <1>4, Iteration
    <2> QED
        BY <2>1 DEF Iterates
<1>6. \A n \in 1..N : f[n] = B(n, f[n - 1])
    <2> TAKE n \in 1..N
    <2>1. n \in Nat /\ f[n - 1] \in T
        BY <1>1, <1>5
    <2> QED
        BY <1>5, <2>1
<1>7. f = Steps(f)
    BY <1>1, <1>5, <1>6
<1>8. c = Steps(c)
    <2> HIDE DEF Steps
    <2> QED
        BY <1>7
<1> HIDE DEF c, G
<1>9. c = [k \in 0..N |-> c[k]] /\ c[0] = st /\ \A n \in 1..N : c[n] = B(n, c[n - 1])
    <2>1. c = [k \in 0..N |-> IF k = 0 THEN st ELSE B(k, c[k - 1])]
        BY <1>8
    <2>2. 0 \in 0..N /\ \A n \in 1..N : n \in 0..N /\ n # 0
        BY <1>1
    <2> HIDE DEF Steps
    <2> QED
        BY <2>1, <2>2
<1> DEFINE S == {n \in 0..N : c[n] \in T}
<1>10. 0 \in S
    BY <1>1, <1>9
<1>11. ASSUME NEW n \in 0..N, n \in S /\ n < N PROVE n + 1 \in S
    <2>1. n + 1 \in 1..N /\ (n + 1) - 1 = n /\ c[n] \in T
        BY <1>1, <1>11
    <2>2. c[n + 1] \in T
        BY <1>2, <1>9, <2>1
    <2> QED
        BY <2>1, <2>2
<1>12. 0..N \subseteq S
    <2> HIDE DEF S
    <2> QED
        BY <1>1, <1>10, <1>11, Counting
<1>13. c \in [0..N -> T]
    BY <1>9, <1>12
<1> QED
    BY <1>3, <1>9, <1>13 DEF LoopSteps, N, T, B

\* What is left on the stack when v is popped is what was below it.
LEMMA BelowIs ==
    ASSUME NEW V, NEW s \in Seq(V), NEW v,
           NEW m \in Nat, m <= Len(s), \A n \in 1..m : s[n] # v, m < Len(s) => s[m + 1] = v
    PROVE  {n \in DOMAIN s : \A k \in 1..n : s[k] # v} = 1..m
<1> DEFINE B == {n \in DOMAIN s : \A k \in 1..n : s[k] # v}
<1>1. DOMAIN s = 1..Len(s) /\ Len(s) \in Nat
    OBVIOUS
<1>2. ASSUME NEW n \in 1..m PROVE n \in B
    BY <1>1
<1>3. ASSUME NEW n \in B PROVE n \in 1..m
    <2>1. n \in 1..Len(s)
        BY <1>1
    <2>2. SUFFICES ASSUME n > m PROVE FALSE
        BY <2>1
    <2>3. m + 1 \in 1..n /\ m < Len(s)
        BY <2>1, <2>2, <1>1
    <2> QED
        BY <2>3
<1> QED
    BY <1>2, <1>3

LEMMA BelowExists ==
    ASSUME NEW V, NEW s \in Seq(V), NEW v
    PROVE  \E m \in Nat : /\ m <= Len(s) /\ \A n \in 1..m : s[n] # v
                          /\ m < Len(s) => s[m + 1] = v
<1> DEFINE A == {n \in 1..Len(s) : s[n] = v}
<1>1. Len(s) \in Nat
    OBVIOUS
<1>2. CASE A = {}
    BY <1>1, <1>2
<1>3. CASE A # {}
    <2>1. A \subseteq Nat
        BY <1>1
    <2>2. PICK n \in A : \A k \in A : n <= k
        <3> HIDE DEF A
        <3> QED
            BY <1>3, <2>1, LeastOf
    <2>3. n \in 1..Len(s) /\ s[n] = v /\ n - 1 \in Nat /\ n - 1 <= Len(s) /\ (n - 1) + 1 = n
        BY <1>1
    <2>4. \A k \in 1..(n - 1) : s[k] # v
        <3> TAKE k \in 1..(n - 1)
        <3>1. k \in 1..Len(s) /\ k < n
            BY <1>1, <2>3
        <3>2. k \notin A
            BY <2>2, <2>3, <3>1
        <3> QED
            BY <3>1, <3>2
    <2> QED
        BY <2>3, <2>4
<1> QED
    BY <1>2, <1>3

LEMMA LeftStays ==
    ASSUME NEW v, NEW st, st.low[v] # st.index[v]
    PROVE  Left(v, st) = st
BY DEF Left

\* r is st with all but the first m tables of the stack popped.
Popped(V, st, m, r) ==
    /\ r \in Searches(V)
    /\ r.index = st.index /\ r.low = st.low /\ r.count = st.count
    /\ r.stack = [n \in 1..m |-> st.stack[n]]
    /\ LET component == {st.stack[n] : n \in (m + 1)..Len(st.stack)}
       IN r.cycles = IF Cardinality(component) > 1 THEN st.cycles \cup {component} ELSE st.cycles

LEMMA LeftPops ==
    ASSUME NEW V, NEW st \in Searches(V), NEW v \in V, st.low[v] = st.index[v],
           NEW m \in Nat, m <= Len(st.stack), \A n \in 1..m : st.stack[n] # v,
           m < Len(st.stack) => st.stack[m + 1] = v
    PROVE  Popped(V, st, m, Left(v, st))
<1> DEFINE below == {n \in DOMAIN st.stack : \A k \in 1..n : st.stack[k] # v}
           C == {st.stack[n] : n \in DOMAIN st.stack \ below}
           cycles == IF Cardinality(C) > 1 THEN st.cycles \cup {C} ELSE st.cycles
<1>1. st.stack \in Seq(V) /\ Len(st.stack) \in Nat /\ DOMAIN st.stack = 1..Len(st.stack)
    BY SearchFields
<1>2. below = 1..m
    BY <1>1, BelowIs
<1>3. Left(v, st) = [st EXCEPT !.stack = [n \in below |-> st.stack[n]], !.cycles = cycles]
    BY DEF Left
<1> HIDE DEF below
<1>4. DOMAIN st.stack \ below = (m + 1)..Len(st.stack)
    BY <1>1, <1>2
<1>5. C = {st.stack[n] : n \in (m + 1)..Len(st.stack)}
    BY <1>4
<1>6. C \in SUBSET V
    BY <1>1, <1>5
<1> HIDE DEF C
<1>7. cycles \in SUBSET SUBSET V
    BY <1>6, SearchFields
<1> DEFINE stack == [n \in 1..m |-> st.stack[n]]
<1>8. stack \in Seq(V)
    BY <1>1
<1> HIDE DEF cycles, stack
<1>9. Left(v, st) = [st EXCEPT !.stack = stack, !.cycles = cycles]
    BY <1>2, <1>3 DEF stack
<1>10. /\ Left(v, st) \in Searches(V)
       /\ Left(v, st).index = st.index /\ Left(v, st).low = st.low /\ Left(v, st).count = st.count
       /\ Left(v, st).stack = stack /\ Left(v, st).cycles = cycles
    BY <1>7, <1>8, <1>9 DEF Searches
<1> QED
    BY <1>5, <1>10 DEF stack, cycles, Popped

LEMMA LeftTyped ==
    ASSUME NEW V, NEW st \in Searches(V), NEW v \in V
    PROVE  Left(v, st) \in Searches(V)
<1>1. CASE st.low[v] # st.index[v]
    BY <1>1, LeftStays
<1>2. CASE st.low[v] = st.index[v]
    <2>1. PICK m \in Nat : /\ m <= Len(st.stack) /\ \A n \in 1..m : st.stack[n] # v
                           /\ m < Len(st.stack) => st.stack[m + 1] = v
        BY SearchFields, BelowExists
    <2> QED
        BY <1>2, <2>1, LeftPops DEF Popped
<1> QED
    BY <1>1, <1>2

\* strongConnect with one more call nested.
Deeper(V, deps, connect) ==
    [call \in V \X Searches(V) |->
        Left(call[1], AllVisited(call[1], deps[call[1]], Entered(call[1], call[2]), connect))]
Unnested(V) == [call \in V \X Searches(V) |-> call[2]]
ConnectSteps(V, deps, f) ==
    /\ f \in [0..Cardinality(V) -> Calls(V)]
    /\ \A n \in 1..Cardinality(V) : f[n] = Deeper(V, deps, f[n - 1])

LEMMA DeeperTyped ==
    ASSUME NEW V, NEW deps \in [V -> Seq(V)], NEW connect \in Calls(V)
    PROVE  Deeper(V, deps, connect) \in Calls(V)
<1>1. ASSUME NEW call \in V \X Searches(V)
      PROVE  Left(call[1], AllVisited(call[1], deps[call[1]], Entered(call[1], call[2]), connect)) \in Searches(V)
    <2>1. call[1] \in V /\ call[2] \in Searches(V) /\ deps[call[1]] \in Seq(V)
        OBVIOUS
    <2>2. Entered(call[1], call[2]) \in Searches(V)
        BY <2>1, EnteredFacts
    <2>3. PICK f : LoopSteps(V, call[1], deps[call[1]], Entered(call[1], call[2]), connect, f)
                     /\ AllVisited(call[1], deps[call[1]], Entered(call[1], call[2]), connect) = f[Len(deps[call[1]])]
        BY <2>1, <2>2, AllVisitedSteps
    <2>4. Len(deps[call[1]]) \in 0..Len(deps[call[1]])
        BY <2>1
    <2>5. f[Len(deps[call[1]])] \in Searches(V)
        BY <2>3, <2>4 DEF LoopSteps
    <2> QED
        BY <2>1, <2>3, <2>5, LeftTyped
<1> QED
    BY <1>1 DEF Deeper, Calls

LEMMA ConnectExists ==
    ASSUME NEW V, IsFiniteSet(V), NEW deps \in [V -> Seq(V)]
    PROVE  \E f : ConnectSteps(V, deps, f) /\ StrongConnect(V, deps) = f[Cardinality(V)]
<1> DEFINE N == Cardinality(V)
           T == Calls(V)
           a == Unnested(V)
           Body(n, q) == [call \in V \X Searches(V) |->
                IF n = 0 THEN call[2]
                ELSE Left(call[1], AllVisited(call[1], deps[call[1]], Entered(call[1], call[2]), q))]
           Steps(f) == [n \in 0..N |-> Body(n, f[n - 1])]
           G == [n \in Nat |-> [q \in T |-> Deeper(V, deps, q)]]
           c == CHOOSE f : f = Steps(f)
<1>1. N \in Nat
    BY FS_CardinalityType
<1>2. a \in T
    BY DEF Unnested, Calls
<1>3. \A n \in 1..N : \A q : Body(n, q) = Deeper(V, deps, q)
    <2> TAKE n \in 1..N
    <2>1. n # 0
        BY <1>1
    <2> QED
        BY <2>1 DEF Deeper
<1>4. \A q : Body(0, q) = a
    BY DEF Unnested
<1>5. \A q \in T : Deeper(V, deps, q) \in T
    BY DeeperTyped
<1>6. StrongConnect(V, deps) = c[N]
    BY DEF StrongConnect
<1> HIDE DEF N, T, a, Body
<1>7. G \in [Nat -> [T -> T]]
    BY <1>5
<1>8. PICK f \in [0..N -> T] : f[0] = a /\ \A n \in 1..N : f[n] = G[n][f[n - 1]]
    <2> HIDE DEF G
    <2>1. Iterates(N, T, a, G)
        BY <1>1, <1>2, <1>7, Iteration
    <2> QED
        BY <2>1 DEF Iterates
<1>9. \A n \in 1..N : f[n] = Deeper(V, deps, f[n - 1])
    <2> TAKE n \in 1..N
    <2>1. n \in Nat /\ f[n - 1] \in T
        BY <1>1, <1>8
    <2> QED
        BY <1>8, <2>1
<1>10. \A n \in 0..N : f[n] = Body(n, f[n - 1])
    <2> TAKE n \in 0..N
    <2>1. CASE n = 0
        BY <1>4, <1>8, <2>1
    <2>2. CASE n # 0
        <3>1. n \in 1..N
            BY <1>1, <2>2
        <3> QED
            BY <1>3, <1>9, <3>1
    <2> QED
        BY <2>1, <2>2
<1>11. f = Steps(f)
    BY <1>8, <1>10
<1>12. c = Steps(c)
    <2> HIDE DEF Steps
    <2> QED
        BY <1>11
<1> HIDE DEF c, G
<1>13. c = [n \in 0..N |-> c[n]] /\ \A n \in 0..N : c[n] = Body(n, c[n - 1])
    <2>1. c = [n \in 0..N |-> Body(n, c[n - 1])]
        BY <1>12
    <2> HIDE DEF Steps
    <2> QED
        BY <2>1
<1>14. c[0] = a /\ \A n \in 1..N : c[n] = Deeper(V, deps, c[n - 1])
    <2>1. 0 \in 0..N /\ \A n \in 1..N : n \in 0..N
        BY <1>1
    <2> QED
        BY <1>3, <1>4, <1>13, <2>1
<1> DEFINE S == {n \in 0..N : c[n] \in T}
<1>15. 0 \in S
    BY <1>1, <1>2, <1>14
<1>16. ASSUME NEW n \in 0..N, n \in S /\ n < N PROVE n + 1 \in S
    <2>1. n + 1 \in 1..N /\ (n + 1) - 1 = n /\ c[n] \in T
        BY <1>1, <1>16
    <2>2. c[n + 1] \in T
        BY <1>5, <1>14, <2>1
    <2> QED
        BY <2>1, <2>2
<1>17. 0..N \subseteq S
    <2> HIDE DEF S
    <2> QED
        BY <1>1, <1>15, <1>16, Counting
<1>18. c \in [0..N -> T]
    BY <1>13, <1>17
<1> QED
    BY <1>6, <1>14, <1>18 DEF ConnectSteps, N, T

-----------------------------------------------------------------------------
(* The invariant of the search                                             *)

Met(V, st) == {v \in V : st.index[v] # 0}
OnStack(st) == {st.stack[n] : n \in DOMAIN st.stack}
Finished(V, st) == Met(V, st) \ OnStack(st)

\* Between two steps of the search, with strongConnect(g) called and not
\* returned for the tables g of G.
Numbered(V, G, st) ==
    /\ G \subseteq OnStack(st) /\ OnStack(st) \subseteq Met(V, st)
    /\ st.count >= 1 /\ \A v \in V : st.index[v] < st.count
    /\ \A i, j \in DOMAIN st.stack : i < j => st.index[st.stack[i]] < st.index[st.stack[j]]
Explored(V, deps, G, st) ==
    /\ \A v \in Met(V, st) \ G : Range(deps[v]) \subseteq Met(V, st)
    /\ \A v \in Finished(V, st) : Range(deps[v]) \subseteq Finished(V, st)
Connected(V, deps, G, st) ==
    /\ \A v \in OnStack(st) : \E g \in G : st.index[g] <= st.index[v] /\ Reach(V, deps, v, g)
    /\ \A g \in G, v \in OnStack(st) : st.index[g] <= st.index[v] => Reach(V, deps, g, v)
Components(V, deps, S) == {Scc(V, deps, v) : v \in {u \in S : Cardinality(Scc(V, deps, u)) > 1}}
SearchInv(V, deps, G, st) ==
    /\ st \in Searches(V)
    /\ Numbered(V, G, st) /\ Explored(V, deps, G, st) /\ Connected(V, deps, G, st)
    /\ st.cycles = Components(V, deps, Finished(V, st))

\* What strongConnect(v) may be called with, and what it makes of it.
MayCall(V, deps, G, v, st) ==
    SearchInv(V, deps, G, st) /\ v \in V \ Met(V, st) /\ \A g \in G : Reach(V, deps, g, v)

Kept(V, st, after) ==
    /\ \A x \in Met(V, st) : after.index[x] = st.index[x] /\ after.low[x] = st.low[x]
    /\ Len(st.stack) <= Len(after.stack)
    /\ \A n \in DOMAIN st.stack : after.stack[n] = st.stack[n]
\* No table met meanwhile and still on the stack refers to one that was below low.
Bounded(deps, st, after, low) ==
    \A x \in OnStack(after) \ OnStack(st), b \in OnStack(st) : b \in Range(deps[x]) => st.index[b] >= low
Returned(V, deps, G, v, st, after) ==
    /\ SearchInv(V, deps, G, after) /\ v \in Met(V, after)
    /\ Kept(V, st, after)
    /\ \/ Len(after.stack) = Len(st.stack) /\ after.low[v] >= st.count
       \/ \E y \in OnStack(st) : after.low[v] = st.index[y] /\ Reach(V, deps, v, y)
    /\ Bounded(deps, st, after, after.low[v])

\* In the loop of strongConnect(v), after the first k tables v refers to.
Looping(V, deps, G, v, st, k, after) ==
    /\ SearchInv(V, deps, G \cup {v}, after)
    /\ Kept(V, st, after) /\ after.index[v] = st.count
    /\ Len(st.stack) < Len(after.stack) /\ after.stack[Len(st.stack) + 1] = v
    /\ \E y \in OnStack(after) : after.low[v] = after.index[y] /\ after.low[v] <= after.index[v] /\ Reach(V, deps, v, y)
    /\ \A j \in 1..k : deps[v][j] \in Met(V, after)
                       /\ (deps[v][j] \in OnStack(st) => st.index[deps[v][j]] >= after.low[v])
    /\ \A x \in OnStack(after) \ (OnStack(st) \cup {v}), b \in OnStack(st) :
           b \in Range(deps[x]) => st.index[b] >= after.low[v]

LEMMA MetKnown ==
    ASSUME NEW V, NEW deps, NEW G, NEW st, SearchInv(V, deps, G, st)
    PROVE  /\ st \in Searches(V) /\ Met(V, st) \subseteq V
           /\ OnStack(st) \subseteq Met(V, st) /\ G \subseteq OnStack(st)
           /\ st.stack \in Seq(V) /\ DOMAIN st.stack = 1..Len(st.stack) /\ Len(st.stack) \in Nat
           /\ st.count \in Nat /\ st.index \in [V -> Nat] /\ st.low \in [V -> Nat]
<1>1. st \in Searches(V) /\ OnStack(st) \subseteq Met(V, st) /\ G \subseteq OnStack(st)
    BY DEF SearchInv, Numbered
<1>2. st.stack \in Seq(V) /\ st.count \in Nat /\ st.index \in [V -> Nat] /\ st.low \in [V -> Nat]
    BY <1>1, SearchFields
<1> QED
    BY <1>1, <1>2 DEF Met

LEMMA Entering ==
    ASSUME NEW V, NEW deps, NEW G, NEW v, NEW st, MayCall(V, deps, G, v, st)
    PROVE  Looping(V, deps, G, v, st, 0, Entered(v, st))
<1> DEFINE s == Entered(v, st)
           G1 == G \cup {v}
<1>1. /\ SearchInv(V, deps, G, st) /\ v \in V /\ v \notin Met(V, st) /\ \A g \in G : Reach(V, deps, g, v)
    BY DEF MayCall
<1>2. /\ st \in Searches(V) /\ Met(V, st) \subseteq V
      /\ OnStack(st) \subseteq Met(V, st) /\ G \subseteq OnStack(st)
      /\ st.stack \in Seq(V) /\ DOMAIN st.stack = 1..Len(st.stack) /\ Len(st.stack) \in Nat
      /\ st.count \in Nat /\ st.index \in [V -> Nat] /\ st.low \in [V -> Nat]
    BY <1>1, MetKnown
<1>3. /\ s \in Searches(V) /\ s.count = st.count + 1 /\ s.cycles = st.cycles
      /\ s.index = [st.index EXCEPT ![v] = st.count] /\ s.low = [st.low EXCEPT ![v] = st.count]
      /\ s.stack = Append(st.stack, v)
    <2> HIDE DEF s
    <2>1. v \in V /\ st \in Searches(V)
        BY <1>1, <1>2
    <2> QED
        BY <2>1, EnteredFacts DEF s
<1> HIDE DEF s
<1>4. st.count >= 1 /\ \A x \in V : st.index[x] < st.count
    BY <1>1 DEF SearchInv, Numbered
<1>5. s.index[v] = st.count /\ s.low[v] = st.count /\ \A x \in V \ {v} : s.index[x] = st.index[x] /\ s.low[x] = st.low[x]
    BY <1>1, <1>2, <1>3
<1>6. /\ Len(s.stack) = Len(st.stack) + 1 /\ DOMAIN s.stack = 1..(Len(st.stack) + 1)
      /\ s.stack[Len(st.stack) + 1] = v /\ \A n \in DOMAIN st.stack : s.stack[n] = st.stack[n]
    BY <1>1, <1>2, <1>3
<1>7. OnStack(s) = OnStack(st) \cup {v}
    <2>1. DOMAIN s.stack = DOMAIN st.stack \cup {Len(st.stack) + 1}
        BY <1>2, <1>6
    <2> QED
        BY <1>6, <2>1 DEF OnStack
<1>8. Met(V, s) = Met(V, st) \cup {v}
    BY <1>1, <1>2, <1>4, <1>5 DEF Met
<1>9. v \notin OnStack(st) /\ Finished(V, s) = Finished(V, st)
    BY <1>1, <1>2, <1>7, <1>8 DEF Finished
<1>10. Numbered(V, G1, s)
    <2>1. G1 \subseteq OnStack(s) /\ OnStack(s) \subseteq Met(V, s)
        BY <1>2, <1>7, <1>8
    <2>2. s.count >= 1 /\ \A x \in V : s.index[x] < s.count
        BY <1>2, <1>3, <1>4, <1>5
    <2>3. ASSUME NEW i \in DOMAIN s.stack, NEW j \in DOMAIN s.stack, i < j
          PROVE  s.index[s.stack[i]] < s.index[s.stack[j]]
        <3>1. i \in DOMAIN st.stack /\ s.stack[i] = st.stack[i] /\ st.stack[i] \in OnStack(st)
            BY <1>2, <1>6, <2>3 DEF OnStack
        <3>2. st.stack[i] \in V \ {v}
            BY <1>2, <1>9, <3>1
        <3>3. CASE j \in DOMAIN st.stack
            <4>1. s.stack[j] = st.stack[j] /\ st.stack[j] \in OnStack(st)
                BY <1>6, <3>3 DEF OnStack
            <4>2. st.stack[j] \in V \ {v}
                BY <1>2, <1>9, <4>1
            <4>3. st.index[st.stack[i]] < st.index[st.stack[j]]
                BY <1>1, <2>3, <3>1, <3>3 DEF SearchInv, Numbered
            <4> QED
                BY <1>5, <3>1, <3>2, <4>1, <4>2, <4>3
        <3>4. CASE j \notin DOMAIN st.stack
            <4>1. s.stack[j] = v
                BY <1>2, <1>6, <3>4
            <4> QED
                BY <1>4, <1>5, <3>1, <3>2, <4>1
        <3> QED
            BY <3>3, <3>4
    <2> QED
        BY <2>1, <2>2, <2>3 DEF Numbered
<1>11. Explored(V, deps, G1, s)
    <2>1. Explored(V, deps, G, st)
        BY <1>1 DEF SearchInv
    <2> QED
        BY <1>8, <1>9, <2>1 DEF Explored
<1>12. Connected(V, deps, G1, s)
    <2>1. Connected(V, deps, G, st)
        BY <1>1 DEF SearchInv
    <2>2. Reach(V, deps, v, v)
        BY <1>1, ReachSelf
    <2>3. \A x \in OnStack(st) : x \in V \ {v}
        BY <1>2, <1>9
    <2>4. ASSUME NEW x \in OnStack(s) PROVE \E g \in G1 : s.index[g] <= s.index[x] /\ Reach(V, deps, x, g)
        <3>1. CASE x = v
            BY <1>2, <1>5, <2>2, <3>1
        <3>2. CASE x \in OnStack(st)
            <4>1. PICK g \in G : st.index[g] <= st.index[x] /\ Reach(V, deps, x, g)
                BY <2>1, <3>2 DEF Connected
            <4> QED
                BY <1>2, <1>5, <2>3, <3>2, <4>1
        <3> QED
            BY <1>7, <3>1, <3>2
    <2>5. ASSUME NEW g \in G1, NEW x \in OnStack(s), s.index[g] <= s.index[x] PROVE Reach(V, deps, g, x)
        <3>1. CASE x = v
            BY <1>1, <2>2, <3>1
        <3>2. CASE x # v
            <4>1. x \in OnStack(st) /\ x \in V \ {v} /\ s.index[x] < st.count
                BY <1>4, <1>5, <1>7, <2>3, <3>2
            <4>2. g # v
                BY <1>2, <1>5, <2>5, <4>1
            <4>3. g \in G /\ g \in V \ {v}
                BY <1>2, <2>3, <4>2
            <4>4. st.index[g] <= st.index[x]
                BY <1>5, <2>5, <4>1, <4>3
            <4> QED
                BY <2>1, <4>1, <4>3, <4>4 DEF Connected
        <3> QED
            BY <3>1, <3>2
    <2> QED
        BY <2>4, <2>5 DEF Connected
<1>13. SearchInv(V, deps, G1, s)
    BY <1>1, <1>3, <1>9, <1>10, <1>11, <1>12 DEF SearchInv
<1>14. Kept(V, st, s)
    BY <1>1, <1>2, <1>5, <1>6 DEF Kept
<1>15. v \in OnStack(s) /\ s.low[v] = s.index[v] /\ s.low[v] <= s.index[v] /\ Reach(V, deps, v, v)
    BY <1>1, <1>2, <1>5, <1>7, ReachSelf
<1> QED
    BY <1>2, <1>5, <1>6, <1>7, <1>13, <1>14, <1>15 DEF Looping, s, G1

\* A table v can be given a lower low.
LEMMA LoweredInv ==
    ASSUME NEW V, NEW deps, NEW G, NEW st, SearchInv(V, deps, G, st), NEW v \in V, NEW n \in Nat
    PROVE  /\ SearchInv(V, deps, G, Lowered(st, v, n))
           /\ Met(V, Lowered(st, v, n)) = Met(V, st) /\ OnStack(Lowered(st, v, n)) = OnStack(st)
<1> DEFINE s == Lowered(st, v, n)
<1>1. s \in Searches(V) /\ s.index = st.index /\ s.count = st.count /\ s.stack = st.stack /\ s.cycles = st.cycles
    <2>1. st \in Searches(V)
        BY DEF SearchInv
    <2> QED
        BY <2>1, LoweredFacts DEF Lower
<1> HIDE DEF s
<1>2. Met(V, s) = Met(V, st) /\ OnStack(s) = OnStack(st)
    BY <1>1 DEF Met, OnStack
<1>3. Finished(V, s) = Finished(V, st)
    BY <1>2 DEF Finished
<1>4. Numbered(V, G, s)
    BY <1>1, <1>2 DEF SearchInv, Numbered
<1>5. Explored(V, deps, G, s)
    BY <1>1, <1>2, <1>3 DEF SearchInv, Explored
<1>6. Connected(V, deps, G, s)
    BY <1>1, <1>2 DEF SearchInv, Connected
<1> QED
    BY <1>1, <1>2, <1>3, <1>4, <1>5, <1>6 DEF SearchInv, s

LEMMA KeptSets ==
    ASSUME NEW V, NEW st \in Searches(V), NEW after \in Searches(V), Kept(V, st, after)
    PROVE  Met(V, st) \subseteq Met(V, after) /\ OnStack(st) \subseteq OnStack(after)
<1>1. st.stack \in Seq(V) /\ after.stack \in Seq(V)
    BY SearchFields
<1>2. DOMAIN st.stack \subseteq DOMAIN after.stack
    BY <1>1 DEF Kept
<1> QED
    BY <1>2 DEF Kept, Met, OnStack

\* What the loop of strongConnect(v) keeps of the call's state st.
Within(V, v, st, s) ==
    /\ st \in Searches(V) /\ s \in Searches(V) /\ Met(V, st) \subseteq Met(V, s) /\ Met(V, s) \subseteq V
    /\ OnStack(st) \subseteq Met(V, st) /\ OnStack(st) \subseteq OnStack(s) /\ OnStack(s) \subseteq Met(V, s)
    /\ v \in V /\ v \notin Met(V, st) /\ v \in OnStack(s)
    /\ s.index \in [V -> Nat] /\ s.low \in [V -> Nat] /\ st.index \in [V -> Nat] /\ s.count \in Nat /\ st.count \in Nat
    /\ \A x \in Met(V, st) : s.index[x] = st.index[x] /\ s.low[x] = st.low[x]
    /\ \A x \in V : s.index[x] < s.count

LEMMA LoopingKnown ==
    ASSUME NEW V, NEW deps, NEW G, NEW v, NEW st, NEW k, NEW s,
           MayCall(V, deps, G, v, st), Looping(V, deps, G, v, st, k, s)
    PROVE  Within(V, v, st, s)
<1>1. SearchInv(V, deps, G, st) /\ SearchInv(V, deps, G \cup {v}, s) /\ Kept(V, st, s)
    BY DEF MayCall, Looping
<1>2. /\ st \in Searches(V) /\ OnStack(st) \subseteq Met(V, st) /\ st.index \in [V -> Nat] /\ st.count \in Nat
    BY <1>1, MetKnown
<1>3. /\ s \in Searches(V) /\ OnStack(s) \subseteq Met(V, s) /\ Met(V, s) \subseteq V /\ G \cup {v} \subseteq OnStack(s)
      /\ s.index \in [V -> Nat] /\ s.low \in [V -> Nat] /\ s.count \in Nat
    <2> HIDE DEF SearchInv
    <2> DEFINE H == G \cup {v}
    <2>1. SearchInv(V, deps, H, s)
        BY <1>1
    <2> HIDE DEF H
    <2>2. /\ s \in Searches(V) /\ OnStack(s) \subseteq Met(V, s) /\ Met(V, s) \subseteq V /\ H \subseteq OnStack(s)
          /\ s.index \in [V -> Nat] /\ s.low \in [V -> Nat] /\ s.count \in Nat
        BY <2>1, MetKnown
    <2> QED
        BY <2>2 DEF H
<1>4. Met(V, st) \subseteq Met(V, s) /\ OnStack(st) \subseteq OnStack(s)
    BY <1>1, <1>2, <1>3, KeptSets
<1>5. v \in V /\ v \notin Met(V, st)
    BY DEF MayCall
<1>6. \A x \in Met(V, st) : s.index[x] = st.index[x] /\ s.low[x] = st.low[x]
    BY <1>1 DEF Kept
<1>7. \A x \in V : s.index[x] < s.count
    BY <1>1 DEF SearchInv, Numbered
<1> QED
    BY <1>2, <1>3, <1>4, <1>5, <1>6, <1>7 DEF Within

\* The table was not met before: strongConnect is called for it.
LEMMA VisitingNew ==
    ASSUME NEW V, NEW deps \in [V -> Seq(V)], NEW G, NEW v, NEW st, MayCall(V, deps, G, v, st),
           NEW k \in 1..Len(deps[v]), NEW s, Looping(V, deps, G, v, st, k - 1, s),
           NEW w, w = deps[v][k], w \in V \ Met(V, s),
           NEW after, Returned(V, deps, G \cup {v}, w, s, after)
    PROVE  Looping(V, deps, G, v, st, k, Lowered(after, v, after.low[w]))
<1> DEFINE H == G \cup {v}
           r == Lowered(after, v, after.low[w])
<1> HIDE DEF r
<1>1. /\ st \in Searches(V) /\ s \in Searches(V) /\ Met(V, st) \subseteq Met(V, s) /\ Met(V, s) \subseteq V
      /\ OnStack(st) \subseteq Met(V, st) /\ OnStack(st) \subseteq OnStack(s) /\ OnStack(s) \subseteq Met(V, s)
      /\ v \in V /\ v \notin Met(V, st) /\ v \in OnStack(s)
      /\ s.index \in [V -> Nat] /\ s.low \in [V -> Nat] /\ st.index \in [V -> Nat] /\ s.count \in Nat /\ st.count \in Nat
      /\ \A x \in Met(V, st) : s.index[x] = st.index[x] /\ s.low[x] = st.low[x]
      /\ \A x \in V : s.index[x] < s.count
    <2> DEFINE i == k - 1
    <2>1. Looping(V, deps, G, v, st, i, s)
        OBVIOUS
    <2> HIDE DEF i
    <2>2. Within(V, v, st, s)
        BY <2>1, LoopingKnown
    <2> QED
        BY <2>2 DEF Within
<1>2. /\ SearchInv(V, deps, H, after) /\ w \in Met(V, after) /\ Kept(V, s, after)
      /\ \/ Len(after.stack) = Len(s.stack) /\ after.low[w] >= s.count
         \/ \E y \in OnStack(s) : after.low[w] = s.index[y] /\ Reach(V, deps, w, y)
      /\ Bounded(deps, s, after, after.low[w])
    BY DEF Returned
<1> HIDE DEF H
<1>3. /\ after \in Searches(V) /\ after.low \in [V -> Nat] /\ after.stack \in Seq(V) /\ DOMAIN after.stack = 1..Len(after.stack)
      /\ Len(after.stack) \in Nat
    BY <1>2, MetKnown
<1>4. Met(V, s) \subseteq Met(V, after) /\ OnStack(s) \subseteq OnStack(after)
    BY <1>1, <1>2, <1>3, KeptSets
<1>5. \A x \in Met(V, s) : after.index[x] = s.index[x] /\ after.low[x] = s.low[x]
    BY <1>2 DEF Kept
<1>6. after.low[w] \in Nat /\ after.low[v] = s.low[v] /\ s.low[v] \in Nat /\ after.index[v] = s.index[v]
    BY <1>1, <1>3, <1>5
<1>7. /\ r.index = after.index /\ r.stack = after.stack
      /\ \A x \in V \ {v} : r.low[x] = after.low[x]
      /\ r.low[v] = IF s.low[v] < after.low[w] THEN s.low[v] ELSE after.low[w]
    <2> DEFINE n == after.low[w]
    <2>1. after \in Searches(V) /\ v \in V /\ n \in Nat
        BY <1>1, <1>3, <1>6
    <2> HIDE DEF n
    <2>2. Lower(V, after, v, n, Lowered(after, v, n))
        BY <2>1, LoweredFacts
    <2>3. Lower(V, after, v, n, r)
        BY <2>2 DEF n, r
    <2> QED
        BY <1>6, <2>3 DEF n, Lower
<1>8. SearchInv(V, deps, H, r) /\ Met(V, r) = Met(V, after) /\ OnStack(r) = OnStack(after)
    <2> DEFINE n == after.low[w]
    <2>1. SearchInv(V, deps, H, after) /\ v \in V /\ n \in Nat
        BY <1>1, <1>2, <1>6
    <2> HIDE DEF n
    <2>2. /\ SearchInv(V, deps, H, Lowered(after, v, n)) /\ Met(V, Lowered(after, v, n)) = Met(V, after)
          /\ OnStack(Lowered(after, v, n)) = OnStack(after)
        BY <2>1, LoweredInv
    <2> QED
        BY <2>2 DEF n, r
<1>9. r.low[v] <= s.low[v] /\ r.low[v] <= after.low[w] /\ r.low[v] \in Nat
    BY <1>6, <1>7
<1>10. /\ Kept(V, st, s) /\ s.index[v] = st.count
       /\ Len(st.stack) < Len(s.stack) /\ s.stack[Len(st.stack) + 1] = v
       /\ \A j \in 1..(k - 1) : deps[v][j] \in Met(V, s)
                                /\ (deps[v][j] \in OnStack(st) => st.index[deps[v][j]] >= s.low[v])
       /\ \A x \in OnStack(s) \ (OnStack(st) \cup {v}), b \in OnStack(st) :
              b \in Range(deps[x]) => st.index[b] >= s.low[v]
    BY DEF Looping
<1>11. PICK y \in OnStack(s) : s.low[v] = s.index[y] /\ s.low[v] <= s.index[v] /\ Reach(V, deps, v, y)
    BY DEF Looping
<1>12. st.stack \in Seq(V) /\ s.stack \in Seq(V) /\ Len(st.stack) \in Nat /\ Len(s.stack) \in Nat
       /\ DOMAIN st.stack = 1..Len(st.stack) /\ DOMAIN s.stack = 1..Len(s.stack)
    <2>1. st.stack \in Seq(V) /\ s.stack \in Seq(V)
        BY <1>1, SearchFields
    <2> QED
        BY <2>1
<1>13. Kept(V, st, r) /\ r.index[v] = st.count
    <2>1. ASSUME NEW x \in Met(V, st) PROVE r.index[x] = st.index[x] /\ r.low[x] = st.low[x]
        <3>1. x \in Met(V, s) /\ x \in V \ {v}
            BY <1>1
        <3> QED
            BY <1>1, <1>5, <1>7, <3>1
    <2>2. Len(st.stack) <= Len(r.stack) /\ \A n \in DOMAIN st.stack : r.stack[n] = st.stack[n]
        <3>1. /\ Len(s.stack) <= Len(after.stack) /\ \A n \in DOMAIN s.stack : after.stack[n] = s.stack[n]
              /\ Len(st.stack) <= Len(s.stack) /\ \A n \in DOMAIN st.stack : s.stack[n] = st.stack[n]
            BY <1>2, <1>10 DEF Kept
        <3>2. DOMAIN st.stack \subseteq DOMAIN s.stack
            BY <1>12, <3>1
        <3>3. Len(st.stack) <= Len(after.stack)
            BY <1>3, <1>12, <3>1
        <3> QED
            BY <1>7, <3>1, <3>2, <3>3
    <2> QED
        BY <1>6, <1>7, <1>10, <2>1, <2>2 DEF Kept
<1>14. Len(st.stack) < Len(r.stack) /\ r.stack[Len(st.stack) + 1] = v
    <2>1. Len(s.stack) <= Len(after.stack) /\ \A n \in DOMAIN s.stack : after.stack[n] = s.stack[n]
        BY <1>2 DEF Kept
    <2>2. Len(st.stack) + 1 \in DOMAIN s.stack
        BY <1>10, <1>12
    <2> QED
        <3>1. Len(st.stack) < Len(after.stack)
            BY <1>3, <1>10, <1>12, <2>1
        <3>2. after.stack[Len(st.stack) + 1] = v
            BY <1>10, <2>1, <2>2
        <3> QED
            BY <1>7, <3>1, <3>2
<1>15. \E z \in OnStack(r) : r.low[v] = r.index[z] /\ r.low[v] <= r.index[v] /\ Reach(V, deps, v, z)
    <2>1. CASE r.low[v] = s.low[v]
        <3>1. y \in Met(V, s) /\ v \in Met(V, s) /\ y \in OnStack(r)
            BY <1>1, <1>4, <1>8
        <3>2. r.index[y] = s.index[y] /\ r.index[v] = s.index[v]
            BY <1>5, <1>7, <3>1
        <3> QED
            BY <1>11, <2>1, <3>1, <3>2
    <2>2. CASE r.low[v] # s.low[v]
        <3>1. r.low[v] = after.low[w] /\ after.low[w] < s.low[v]
            BY <1>6, <1>7, <2>2
        <3>2. after.low[w] < s.count
            <4>1. s.index[v] < s.count /\ s.index[v] \in Nat
                BY <1>1
            <4> QED
                <5> HIDE DEF H
                <5>1. s.low[v] <= s.index[v] /\ s.low[v] \in Nat /\ after.low[w] \in Nat /\ s.count \in Nat
                    BY <1>1, <1>6, <1>11
                <5> QED
                    BY <3>1, <4>1, <5>1
        <3>3. PICK z \in OnStack(s) : after.low[w] = s.index[z] /\ Reach(V, deps, w, z)
            <4>1. s.count \in Nat /\ after.low[w] \in Nat
                BY <1>1, <1>6
            <4>2. ~(after.low[w] >= s.count)
                BY <3>2, <4>1
            <4> QED
                BY <1>2, <4>2
        <3>4. z \in Met(V, s) /\ v \in Met(V, s) /\ z \in OnStack(r)
            BY <1>1, <1>4, <1>8
        <3>5. r.index[z] = s.index[z] /\ r.index[v] = s.index[v]
            BY <1>5, <1>7, <3>4
        <3>6. Reach(V, deps, v, w)
            <4>1. k \in DOMAIN deps[v]
                BY <1>1
            <4>2. w \in Range(deps[v])
                BY <4>1 DEF Range
            <4>3. Reach(V, deps, v, v)
                BY <1>1, ReachSelf
            <4> QED
                BY <1>1, <4>2, <4>3, ReachNext
        <3>7. Reach(V, deps, v, z)
            BY <3>3, <3>6, ReachThrough
        <3>8. r.low[v] <= r.index[v]
            <4>1. s.index[v] \in Nat
                BY <1>1
            <4> QED
                BY <1>6, <1>11, <3>1, <3>5, <4>1
        <3> QED
            BY <3>1, <3>3, <3>4, <3>5, <3>7, <3>8
    <2> QED
        BY <2>1, <2>2
<1>16. ASSUME NEW j \in 1..k
       PROVE  deps[v][j] \in Met(V, r) /\ (deps[v][j] \in OnStack(st) => st.index[deps[v][j]] >= r.low[v])
    <2>1. CASE j = k
        BY <1>1, <1>2, <1>8, <2>1
    <2>2. CASE j # k
        <3>1. j \in 1..(k - 1)
            BY <1>1, <2>2
        <3>2. deps[v][j] \in Met(V, s) /\ (deps[v][j] \in OnStack(st) => st.index[deps[v][j]] >= s.low[v])
            BY <1>10, <3>1
        <3>3. deps[v][j] \in V
            BY <1>1, <3>2
        <3>4. st.index[deps[v][j]] \in Nat
            BY <1>1, <3>3
        <3> QED
            BY <1>4, <1>6, <1>8, <1>9, <3>2, <3>4
    <2> QED
        BY <2>1, <2>2
<1>17. ASSUME NEW x \in OnStack(r) \ (OnStack(st) \cup {v}), NEW b \in OnStack(st), b \in Range(deps[x])
       PROVE  st.index[b] >= r.low[v]
    <2>1. b \in V /\ b \in OnStack(s) /\ s.index[b] = st.index[b] /\ st.index[b] \in Nat
        BY <1>1
    <2>2. CASE x \in OnStack(s)
        <3>1. st.index[b] >= s.low[v]
            BY <1>10, <1>17, <2>2
        <3> QED
            BY <1>6, <1>9, <2>1, <3>1
    <2>3. CASE x \notin OnStack(s)
        <3>1. s.index[b] >= after.low[w]
            BY <1>2, <1>8, <1>17, <2>1, <2>3 DEF Bounded
        <3> QED
            BY <1>6, <1>9, <2>1, <3>1
    <2> QED
        BY <2>2, <2>3
<1> QED
    BY <1>8, <1>13, <1>14, <1>15, <1>16, <1>17 DEF Looping, H, r

\* The table is on the stack: v's low may become its index.
LEMMA VisitingOnStack ==
    ASSUME NEW V, NEW deps \in [V -> Seq(V)], NEW G, NEW v, NEW st, MayCall(V, deps, G, v, st),
           NEW k \in 1..Len(deps[v]), NEW s, Looping(V, deps, G, v, st, k - 1, s),
           NEW w, w = deps[v][k], w \in OnStack(s)
    PROVE  Looping(V, deps, G, v, st, k, Lowered(s, v, s.index[w]))
<1> DEFINE H == G \cup {v}
           n == s.index[w]
           r == Lowered(s, v, n)
<1>1. Within(V, v, st, s)
    <2> DEFINE i == k - 1
    <2>1. Looping(V, deps, G, v, st, i, s)
        OBVIOUS
    <2> HIDE DEF i, n, r
    <2> QED
        BY <2>1, LoopingKnown
<1>2. w \in V /\ n \in Nat /\ v \in V
    BY <1>1 DEF Within
<1>3. SearchInv(V, deps, H, s)
    BY DEF Looping
<1> HIDE DEF H, n
<1>4. SearchInv(V, deps, H, r) /\ Met(V, r) = Met(V, s) /\ OnStack(r) = OnStack(s)
    BY <1>2, <1>3, LoweredInv
<1>5. Lower(V, s, v, n, r)
    BY <1>1, <1>2, LoweredFacts DEF Within
<1> HIDE DEF r
<1>6. /\ r.index = s.index /\ r.stack = s.stack /\ \A x \in V \ {v} : r.low[x] = s.low[x]
      /\ r.low[v] = IF s.low[v] < n THEN s.low[v] ELSE n
    BY <1>5 DEF Lower
<1>7. s.low[v] \in Nat /\ s.index[v] \in Nat /\ r.low[v] \in Nat /\ r.low[v] <= s.low[v] /\ r.low[v] <= n
    <2>1. s.low[v] \in Nat /\ s.index[v] \in Nat
        BY <1>1 DEF Within
    <2> QED
        BY <1>2, <1>6, <2>1
<1>8. /\ Kept(V, st, s) /\ s.index[v] = st.count
      /\ Len(st.stack) < Len(s.stack) /\ s.stack[Len(st.stack) + 1] = v
      /\ \A j \in 1..(k - 1) : deps[v][j] \in Met(V, s)
                               /\ (deps[v][j] \in OnStack(st) => st.index[deps[v][j]] >= s.low[v])
      /\ \A x \in OnStack(s) \ (OnStack(st) \cup {v}), b \in OnStack(st) :
             b \in Range(deps[x]) => st.index[b] >= s.low[v]
    BY DEF Looping
<1>9. PICK y \in OnStack(s) : s.low[v] = s.index[y] /\ s.low[v] <= s.index[v] /\ Reach(V, deps, v, y)
    BY DEF Looping
<1>10. Kept(V, st, r) /\ r.index[v] = st.count
    <2>1. ASSUME NEW x \in Met(V, st) PROVE r.index[x] = st.index[x] /\ r.low[x] = st.low[x]
        <3>1. x \in V \ {v} /\ s.index[x] = st.index[x] /\ s.low[x] = st.low[x]
            BY <1>1 DEF Within
        <3> QED
            BY <1>6, <3>1
    <2> QED
        BY <1>6, <1>8, <2>1 DEF Kept
<1>11. \E z \in OnStack(r) : r.low[v] = r.index[z] /\ r.low[v] <= r.index[v] /\ Reach(V, deps, v, z)
    <2>1. CASE r.low[v] = s.low[v]
        BY <1>4, <1>6, <1>9, <2>1
    <2>2. CASE r.low[v] # s.low[v]
        <3>1. r.low[v] = r.index[w]
            BY <1>6, <2>2 DEF n
        <3>2. Reach(V, deps, v, w)
            <4>1. k \in DOMAIN deps[v]
                BY <1>2
            <4>2. w \in Range(deps[v])
                BY <4>1 DEF Range
            <4>3. Reach(V, deps, v, v)
                BY <1>2, ReachSelf
            <4> QED
                BY <1>2, <4>2, <4>3, ReachNext
        <3>3. r.low[v] <= r.index[v]
            BY <1>6, <1>7, <1>9
        <3> QED
            BY <1>4, <3>1, <3>2, <3>3
    <2> QED
        BY <2>1, <2>2
<1>12. ASSUME NEW j \in 1..k
       PROVE  deps[v][j] \in Met(V, r) /\ (deps[v][j] \in OnStack(st) => st.index[deps[v][j]] >= r.low[v])
    <2>1. CASE j = k
        <3>1. w \in Met(V, r)
            BY <1>1, <1>4 DEF Within
        <3>2. w \in OnStack(st) => st.index[w] = n
            BY <1>1 DEF Within, n
        <3> QED
            BY <1>2, <1>7, <2>1, <3>1, <3>2
    <2>2. CASE j # k
        <3>1. j \in 1..(k - 1)
            BY <1>2, <2>2
        <3>2. deps[v][j] \in Met(V, s) /\ (deps[v][j] \in OnStack(st) => st.index[deps[v][j]] >= s.low[v])
            BY <1>8, <3>1
        <3>3. deps[v][j] \in OnStack(st) => st.index[deps[v][j]] \in Nat
            BY <1>1 DEF Within
        <3> QED
            BY <1>4, <1>7, <3>2, <3>3
    <2> QED
        BY <2>1, <2>2
<1>13. ASSUME NEW x \in OnStack(r) \ (OnStack(st) \cup {v}), NEW b \in OnStack(st), b \in Range(deps[x])
       PROVE  st.index[b] >= r.low[v]
    <2>1. st.index[b] \in Nat
        BY <1>1 DEF Within
    <2>2. st.index[b] >= s.low[v]
        BY <1>4, <1>8, <1>13
    <2> QED
        BY <1>7, <2>1, <2>2
<1>14. Len(st.stack) < Len(r.stack) /\ r.stack[Len(st.stack) + 1] = v
    BY <1>6, <1>8
<1> QED
    BY <1>4, <1>10, <1>11, <1>12, <1>13, <1>14 DEF Looping, H, n, r

\* The table's component is already found: nothing changes.
LEMMA VisitingFinished ==
    ASSUME NEW V, NEW deps \in [V -> Seq(V)], NEW G, NEW v, NEW st, MayCall(V, deps, G, v, st),
           NEW k \in 1..Len(deps[v]), NEW s, Looping(V, deps, G, v, st, k - 1, s),
           deps[v][k] \in Met(V, s) \ OnStack(s)
    PROVE  Looping(V, deps, G, v, st, k, s)
<1>1. Within(V, v, st, s)
    <2> DEFINE i == k - 1
    <2>1. Looping(V, deps, G, v, st, i, s)
        OBVIOUS
    <2> HIDE DEF i
    <2> QED
        BY <2>1, LoopingKnown
<1>2. \A j \in 1..k : j \in 1..(k - 1) \/ j = k
    <2>1. v \in V /\ deps[v] \in Seq(V) /\ Len(deps[v]) \in Nat
        BY <1>1 DEF Within
    <2> QED
        BY <2>1
<1>3. deps[v][k] \notin OnStack(st)
    BY <1>1 DEF Within
<1>4. \A j \in 1..k : deps[v][j] \in Met(V, s)
                      /\ (deps[v][j] \in OnStack(st) => st.index[deps[v][j]] >= s.low[v])
    <2>1. \A j \in 1..(k - 1) : deps[v][j] \in Met(V, s)
                                /\ (deps[v][j] \in OnStack(st) => st.index[deps[v][j]] >= s.low[v])
        BY DEF Looping
    <2> QED
        BY <1>2, <1>3, <2>1
<1> QED
    BY <1>4 DEF Looping

\* Every call of connect with at most n tables not yet met does what it should.
Serves(V, deps, connect, n) ==
    \A G \in SUBSET V, v \in V, st \in Searches(V) :
        MayCall(V, deps, G, v, st) /\ Cardinality(V \ Met(V, st)) <= n
        => Returned(V, deps, G, v, st, connect[<<v, st>>])

LEMMA Visiting ==
    ASSUME NEW V, IsFiniteSet(V), NEW deps \in [V -> Seq(V)], NEW G \in SUBSET V, NEW v, NEW st,
           MayCall(V, deps, G, v, st),
           NEW connect, NEW n \in Nat, Serves(V, deps, connect, n), Cardinality(V \ Met(V, st)) <= n + 1,
           NEW k \in 1..Len(deps[v]), NEW s, Looping(V, deps, G, v, st, k - 1, s)
    PROVE  Looping(V, deps, G, v, st, k, Visited(v, deps[v][k], s, connect))
<1> DEFINE w == deps[v][k]
<1>1. Within(V, v, st, s)
    <2> DEFINE i == k - 1
    <2>1. Looping(V, deps, G, v, st, i, s)
        OBVIOUS
    <2> HIDE DEF i, w
    <2> QED
        BY <2>1, LoopingKnown
<1>2. v \in V /\ w \in V /\ w \in Range(deps[v])
    <2>1. v \in V /\ deps[v] \in Seq(V)
        BY <1>1 DEF Within
    <2> QED
        BY <2>1 DEF Range
<1> HIDE DEF w
<1>3. CASE s.index[w] = 0
    <2> DEFINE H == G \cup {v}
    <2>1. w \in V \ Met(V, s)
        BY <1>2, <1>3 DEF Met
    <2>2. MayCall(V, deps, H, w, s)
        <3>1. SearchInv(V, deps, H, s)
            BY DEF Looping
        <3>2. \A g \in H : Reach(V, deps, g, v)
            BY <1>2, ReachSelf DEF MayCall
        <3>3. \A g \in H : Reach(V, deps, g, w)
            BY <1>2, <3>2, ReachNext
        <3> QED
            BY <2>1, <3>1, <3>3 DEF MayCall
    <2>3. Cardinality(V \ Met(V, s)) <= n
        <3> DEFINE A == V \ Met(V, st)
        <3>1. IsFiniteSet(A) /\ v \in A
            BY <1>1, FS_Subset DEF Within
        <3> HIDE DEF A
        <3>2. IsFiniteSet(A \ {v}) /\ Cardinality(A \ {v}) = Cardinality(A) - 1 /\ Cardinality(A) \in Nat
            BY <3>1, FS_RemoveElement, FS_CardinalityType
        <3>3. V \ Met(V, s) \subseteq A \ {v}
            BY <1>1 DEF Within, A
        <3>4. IsFiniteSet(V \ Met(V, s)) /\ Cardinality(V \ Met(V, s)) <= Cardinality(A \ {v})
            BY <3>2, <3>3, FS_Subset
        <3>5. Cardinality(V \ Met(V, s)) \in Nat /\ Cardinality(A \ {v}) \in Nat
            BY <3>2, <3>4, FS_CardinalityType
        <3>6. Cardinality(A) <= n + 1
            BY DEF A
        <3> QED
            BY <3>2, <3>4, <3>5, <3>6
    <2>4. H \in SUBSET V /\ s \in Searches(V)
        BY <1>1, <1>2 DEF Within
    <2> DEFINE after == connect[<<w, s>>]
    <2> HIDE DEF H
    <2>5. Returned(V, deps, H, w, s, after)
        BY <1>2, <2>2, <2>3, <2>4 DEF Serves
    <2>6. Visited(v, w, s, connect) = Lowered(after, v, after.low[w])
        BY <1>3 DEF Visited
    <2> HIDE DEF after
    <2>7. Looping(V, deps, G, v, st, k, Lowered(after, v, after.low[w]))
        BY <2>1, <2>5, VisitingNew DEF w, H
    <2> QED
        BY <2>6, <2>7 DEF w
<1>4. CASE s.index[w] # 0 /\ w \in OnStack(s)
    <2>1. Visited(v, w, s, connect) = Lowered(s, v, s.index[w])
        BY <1>4 DEF Visited, OnStack, Range
    <2>2. Looping(V, deps, G, v, st, k, Lowered(s, v, s.index[w]))
        BY <1>4, VisitingOnStack DEF w
    <2> QED
        BY <2>1, <2>2 DEF w
<1>5. CASE s.index[w] # 0 /\ w \notin OnStack(s)
    <2>1. Visited(v, w, s, connect) = s
        BY <1>5 DEF Visited, OnStack, Range
    <2>2. w \in Met(V, s) \ OnStack(s)
        BY <1>2, <1>5 DEF Met
    <2>3. Looping(V, deps, G, v, st, k, s)
        BY <2>2, VisitingFinished DEF w
    <2> QED
        BY <2>1, <2>3 DEF w
<1> QED
    BY <1>3, <1>4, <1>5

\* The whole loop of strongConnect(v).
LEMMA AllVisiting ==
    ASSUME NEW V, IsFiniteSet(V), NEW deps \in [V -> Seq(V)], NEW G \in SUBSET V, NEW v, NEW st,
           MayCall(V, deps, G, v, st),
           NEW connect \in Calls(V), NEW n \in Nat, Serves(V, deps, connect, n), Cardinality(V \ Met(V, st)) <= n + 1
    PROVE  Looping(V, deps, G, v, st, Len(deps[v]), AllVisited(v, deps[v], Entered(v, st), connect))
<1> DEFINE N == Len(deps[v])
           first == Entered(v, st)
<1>1. v \in V /\ st \in Searches(V)
    BY MetKnown DEF MayCall
<1>2. N \in Nat /\ deps[v] \in Seq(V)
    BY <1>1
<1>3. first \in Searches(V)
    BY <1>1, EnteredFacts
<1>4. Looping(V, deps, G, v, st, 0, first)
    BY Entering
<1> HIDE DEF first
<1>5. PICK f : LoopSteps(V, v, deps[v], first, connect, f) /\ AllVisited(v, deps[v], first, connect) = f[Len(deps[v])]
    BY <1>1, <1>2, <1>3, AllVisitedSteps
<1> DEFINE S == {k \in 0..N : Looping(V, deps, G, v, st, k, f[k])}
<1>6. 0 \in S
    BY <1>2, <1>4, <1>5 DEF LoopSteps
<1>7. ASSUME NEW k \in 0..N, k \in S /\ k < N PROVE k + 1 \in S
    <2> DEFINE j == k + 1
               s == f[k]
    <2>1. j \in 1..Len(deps[v]) /\ j - 1 = k /\ j \in 0..N
        BY <1>2, <1>7
    <2>2. Looping(V, deps, G, v, st, j - 1, s)
        BY <1>7, <2>1
    <2>3. f[j] = Visited(v, deps[v][j], s, connect)
        BY <1>5, <2>1 DEF LoopSteps
    <2> HIDE DEF j, s, N, S
    <2>4. Looping(V, deps, G, v, st, j, Visited(v, deps[v][j], s, connect))
        BY <2>1, <2>2, Visiting
    <2> QED
        BY <2>1, <2>3, <2>4 DEF S, j
<1>8. 0..N \subseteq S
    <2> HIDE DEF S
    <2> QED
        BY <1>2, <1>6, <1>7, Counting
<1>9. N \in S
    <2> HIDE DEF S, N
    <2>1. N \in 0..N
        BY <1>2
    <2> QED
        BY <1>8, <2>1
<1> QED
    BY <1>5, <1>9 DEF first

\* What strongConnect(v) has pushed since it was called.
Pushed(st, s) == {s.stack[n] : n \in (Len(st.stack) + 1)..Len(s.stack)}

LEMMA PushedFacts ==
    ASSUME NEW V, NEW deps, NEW G, NEW v, NEW st, MayCall(V, deps, G, v, st),
           NEW k, NEW s, Looping(V, deps, G, v, st, k, s)
    PROVE  /\ OnStack(s) = OnStack(st) \cup Pushed(st, s) /\ v \in Pushed(st, s)
           /\ \A x \in Pushed(st, s) : s.index[v] <= s.index[x]
           /\ \A x \in OnStack(st) : s.index[x] < s.index[v]
           /\ \A n \in 1..Len(st.stack) : s.stack[n] = st.stack[n] /\ s.stack[n] # v
<1> DEFINE m == Len(st.stack)
<1>1. Within(V, v, st, s)
    BY LoopingKnown
<1>2. st.stack \in Seq(V) /\ s.stack \in Seq(V)
    BY <1>1, SearchFields DEF Within
<1>3. m \in Nat /\ Len(s.stack) \in Nat /\ DOMAIN st.stack = 1..m /\ DOMAIN s.stack = 1..Len(s.stack)
    BY <1>2
<1>4. m < Len(s.stack) /\ s.stack[m + 1] = v /\ (\A n \in DOMAIN st.stack : s.stack[n] = st.stack[n])
    BY DEF Looping, Kept
<1>5. \A i, j \in DOMAIN s.stack : i < j => s.index[s.stack[i]] < s.index[s.stack[j]]
    BY DEF Looping, SearchInv, Numbered
<1> HIDE DEF m
<1>6. 1..Len(s.stack) = (1..m) \cup ((m + 1)..Len(s.stack)) /\ m + 1 \in (m + 1)..Len(s.stack) /\ m + 1 \in DOMAIN s.stack
    BY <1>3, <1>4
<1>7. Pushed(st, s) = {s.stack[n] : n \in (m + 1)..Len(s.stack)}
    BY DEF Pushed, m
<1>8. OnStack(s) = OnStack(st) \cup Pushed(st, s)
    BY <1>3, <1>4, <1>6, <1>7 DEF OnStack
<1>9. v \in Pushed(st, s)
    BY <1>4, <1>6, <1>7
<1>10. ASSUME NEW n \in 1..m PROVE s.stack[n] = st.stack[n] /\ s.stack[n] # v /\ s.index[s.stack[n]] < s.index[v]
    <2>1. n \in DOMAIN s.stack /\ n < m + 1 /\ n \in DOMAIN st.stack
        BY <1>3, <1>4
    <2>2. s.index[s.stack[n]] < s.index[v]
        BY <1>4, <1>5, <1>6, <2>1
    <2>3. s.index[v] \in Nat
        BY <1>1 DEF Within
    <2> QED
        BY <1>4, <2>1, <2>2, <2>3
<1>11. \A x \in OnStack(st) : s.index[x] < s.index[v]
    BY <1>3, <1>10 DEF OnStack
<1>12. ASSUME NEW x \in Pushed(st, s) PROVE s.index[v] <= s.index[x]
    <2>1. PICK n \in (m + 1)..Len(s.stack) : x = s.stack[n]
        BY <1>7
    <2>2. s.index[v] \in Nat
        BY <1>1 DEF Within
    <2>3. CASE n = m + 1
        BY <1>4, <2>1, <2>2, <2>3
    <2>4. CASE n # m + 1
        <3>1. n \in DOMAIN s.stack /\ m + 1 < n
            BY <1>3, <2>1, <2>4
        <3>2. s.index[v] < s.index[x]
            BY <1>4, <1>5, <1>6, <2>1, <3>1
        <3>3. s.index[x] \in Nat
            BY <1>1, <1>8 DEF Within
        <3> QED
            BY <2>2, <3>2, <3>3
    <2> QED
        BY <2>3, <2>4
<1> QED
    BY <1>8, <1>9, <1>10, <1>11, <1>12 DEF m

\* Once the loop of strongConnect(v) is over, no table pushed refers to one below low.
LEMMA LoopBounds ==
    ASSUME NEW V, NEW deps \in [V -> Seq(V)], NEW G, NEW v, NEW st, MayCall(V, deps, G, v, st),
           NEW s, Looping(V, deps, G, v, st, Len(deps[v]), s)
    PROVE  /\ Bounded(deps, st, s, s.low[v])
           /\ \A x \in Met(V, s) \ G : Range(deps[x]) \subseteq Met(V, s)
<1>1. Within(V, v, st, s)
    <2> DEFINE k == Len(deps[v])
    <2>1. Looping(V, deps, G, v, st, k, s)
        OBVIOUS
    <2> HIDE DEF k
    <2> QED
        BY <2>1, LoopingKnown
<1>2. \A b \in Range(deps[v]) : b \in Met(V, s) /\ (b \in OnStack(st) => st.index[b] >= s.low[v])
    <2>1. deps[v] \in Seq(V)
        BY <1>1 DEF Within
    <2>2. \A j \in 1..Len(deps[v]) : deps[v][j] \in Met(V, s)
                       /\ (deps[v][j] \in OnStack(st) => st.index[deps[v][j]] >= s.low[v])
        BY DEF Looping
    <2>3. ASSUME NEW b \in Range(deps[v]) PROVE \E j \in 1..Len(deps[v]) : b = deps[v][j]
        <3>1. DOMAIN deps[v] = 1..Len(deps[v])
            BY <2>1
        <3> QED
            BY <3>1, <2>3 DEF Range
    <2> QED
        BY <2>2, <2>3
<1>3. Bounded(deps, st, s, s.low[v])
    BY <1>2 DEF Bounded, Looping
<1>4. \A x \in Met(V, s) \ G : Range(deps[x]) \subseteq Met(V, s)
    <2>1. \A x \in Met(V, s) \ (G \cup {v}) : Range(deps[x]) \subseteq Met(V, s)
        BY DEF Looping, SearchInv, Explored
    <2> QED
        BY <1>2, <2>1
<1> QED
    BY <1>3, <1>4

\* strongConnect(v) leaves v on the stack: one below it is reached.
LEMMA LeavingOpen ==
    ASSUME NEW V, NEW deps \in [V -> Seq(V)], NEW G \in SUBSET V, NEW v, NEW st, MayCall(V, deps, G, v, st),
           NEW s, Looping(V, deps, G, v, st, Len(deps[v]), s), s.low[v] # s.index[v]
    PROVE  Returned(V, deps, G, v, st, s)
<1> DEFINE H == G \cup {v}
           k == Len(deps[v])
<1>0. Looping(V, deps, G, v, st, k, s)
    OBVIOUS
<1> HIDE DEF k
<1>1. Within(V, v, st, s)
    BY <1>0, LoopingKnown
<1>2. /\ OnStack(s) = OnStack(st) \cup Pushed(st, s)
      /\ \A x \in Pushed(st, s) : s.index[v] <= s.index[x]
    BY <1>0, PushedFacts
<1>3. Bounded(deps, st, s, s.low[v]) /\ \A x \in Met(V, s) \ G : Range(deps[x]) \subseteq Met(V, s)
    BY LoopBounds
<1>4. SearchInv(V, deps, H, s) /\ Kept(V, st, s)
    BY DEF Looping
<1>5. PICK y \in OnStack(s) : s.low[v] = s.index[y] /\ s.low[v] <= s.index[v] /\ Reach(V, deps, v, y)
    BY DEF Looping
<1>6. s.index[y] \in Nat /\ s.index[v] \in Nat /\ s.index[y] < s.index[v]
    <2>1. s.index[y] \in Nat /\ s.index[v] \in Nat
        BY <1>1 DEF Within
    <2> QED
        BY <1>5, <2>1
<1>7. PICK h \in G : s.index[h] <= s.index[y] /\ Reach(V, deps, y, h)
    <2>1. PICK h \in H : s.index[h] <= s.index[y] /\ Reach(V, deps, y, h)
        BY <1>4 DEF SearchInv, Connected
    <2>2. h # v
        BY <1>6, <2>1
    <2> QED
        BY <2>1, <2>2
<1>8. s.index[h] \in Nat /\ Reach(V, deps, v, h)
    <2>1. h \in V
        OBVIOUS
    <2> QED
        BY <1>1, <1>5, <1>7, <2>1, ReachThrough DEF Within
<1>9. Connected(V, deps, G, s)
    <2>1. ASSUME NEW x \in OnStack(s) PROVE \E g \in G : s.index[g] <= s.index[x] /\ Reach(V, deps, x, g)
        <3>1. PICK g \in H : s.index[g] <= s.index[x] /\ Reach(V, deps, x, g)
            BY <1>4 DEF SearchInv, Connected
        <3>2. CASE g \in G
            BY <3>1, <3>2
        <3>3. CASE g = v
            <4>1. Reach(V, deps, x, h)
                BY <1>8, <3>1, <3>3, ReachThrough
            <4>2. s.index[x] \in Nat
                BY <1>1 DEF Within
            <4>3. s.index[h] <= s.index[x]
                BY <1>6, <1>7, <1>8, <3>1, <3>3, <4>2
            <4> QED
                BY <4>1, <4>3
        <3> QED
            BY <3>2, <3>3
    <2>2. \A g \in G, x \in OnStack(s) : s.index[g] <= s.index[x] => Reach(V, deps, g, x)
        BY <1>4 DEF SearchInv, Connected
    <2> QED
        BY <2>1, <2>2 DEF Connected
<1>10. Explored(V, deps, G, s)
    BY <1>3, <1>4 DEF SearchInv, Explored
<1>11. Numbered(V, G, s)
    BY <1>4 DEF SearchInv, Numbered
<1>12. SearchInv(V, deps, G, s)
    BY <1>4, <1>9, <1>10, <1>11 DEF SearchInv
<1>13. y \in OnStack(st) /\ s.low[v] = st.index[y]
    <2>1. y \notin Pushed(st, s)
        BY <1>2, <1>6
    <2>2. y \in OnStack(st)
        BY <1>2, <2>1
    <2> QED
        BY <1>1, <1>5, <2>2 DEF Within
<1>14. v \in Met(V, s)
    BY <1>1 DEF Within
<1> QED
    BY <1>3, <1>4, <1>5, <1>12, <1>13, <1>14 DEF Returned

\* strongConnect(v) pops the tables that refer to each other with v.
LEMMA LeavingDone ==
    ASSUME NEW V, NEW deps \in [V -> Seq(V)], NEW G \in SUBSET V, NEW v, NEW st, MayCall(V, deps, G, v, st),
           NEW s, Looping(V, deps, G, v, st, Len(deps[v]), s), s.low[v] = s.index[v]
    PROVE  Returned(V, deps, G, v, st, Left(v, s))
<1> DEFINE H == G \cup {v}
           k == Len(deps[v])
           m == Len(st.stack)
           C == Pushed(st, s)
           r == Left(v, s)
<1> HIDE DEF C, r
<1>0. Looping(V, deps, G, v, st, k, s)
    OBVIOUS
<1> HIDE DEF k
<1>1. Within(V, v, st, s)
    BY <1>0, LoopingKnown
<1>2. /\ OnStack(s) = OnStack(st) \cup C /\ v \in C
      /\ \A x \in C : s.index[v] <= s.index[x]
      /\ \A x \in OnStack(st) : s.index[x] < s.index[v]
      /\ \A n \in 1..m : s.stack[n] = st.stack[n] /\ s.stack[n] # v
    BY <1>0, PushedFacts DEF C
<1>3. Bounded(deps, st, s, s.low[v]) /\ \A x \in Met(V, s) \ G : Range(deps[x]) \subseteq Met(V, s)
    BY LoopBounds
<1>4. SearchInv(V, deps, H, s) /\ Kept(V, st, s) /\ s.index[v] = st.count
    BY DEF Looping
<1>5. SearchInv(V, deps, G, st) /\ \A g \in G : Reach(V, deps, g, v)
    BY DEF MayCall
<1>6. /\ st \in Searches(V) /\ s \in Searches(V) /\ v \in V /\ Met(V, s) \subseteq V /\ OnStack(s) \subseteq Met(V, s)
      /\ st.count \in Nat /\ s.index \in [V -> Nat] /\ G \subseteq OnStack(st)
    BY <1>1, <1>5 DEF Within, SearchInv, Numbered
<1>7. \A x \in C : x \notin OnStack(st) /\ x \in V /\ s.index[x] \in Nat
    BY <1>1, <1>2 DEF Within
<1>8. /\ r \in Searches(V) /\ r.index = s.index /\ r.low = s.low /\ r.count = s.count
      /\ r.stack = [n \in 1..m |-> s.stack[n]]
      /\ r.cycles = IF Cardinality(C) > 1 THEN s.cycles \cup {C} ELSE s.cycles
    <2>1. m \in Nat /\ m <= Len(s.stack) /\ s.stack[m + 1] = v /\ \A n \in 1..m : s.stack[n] # v
        <3>1. st.stack \in Seq(V) /\ s.stack \in Seq(V)
            BY <1>6, SearchFields
        <3>2. m < Len(s.stack) /\ s.stack[m + 1] = v
            BY DEF Looping
        <3>3. m \in Nat /\ Len(s.stack) \in Nat
            BY <3>1
        <3> QED
            BY <1>2, <3>2, <3>3
    <2> HIDE DEF m
    <2>2. C = {s.stack[n] : n \in (m + 1)..Len(s.stack)}
        BY DEF C, Pushed, m
    <2>3. Popped(V, s, m, r)
        BY <1>6, <2>1, LeftPops DEF r
    <2> QED
        BY <2>2, <2>3 DEF Popped
<1>9. r.stack = st.stack
    <2>1. st.stack \in Seq(V)
        BY <1>6, SearchFields
    <2>2. st.stack = [n \in 1..m |-> st.stack[n]]
        BY <2>1
    <2> HIDE DEF m
    <2> QED
        BY <1>2, <1>8, <2>2
<1>10. OnStack(r) = OnStack(st) /\ Met(V, r) = Met(V, s)
    <2>1. r.stack = st.stack /\ r.index = s.index
        BY <1>8, <1>9
    <2> QED
        BY <2>1 DEF OnStack, Met
<1>11. Finished(V, r) = Finished(V, s) \cup C
    BY <1>2, <1>6, <1>7, <1>10 DEF Finished
<1>12. ASSUME NEW x \in C PROVE Range(deps[x]) \subseteq Finished(V, r)
    <2>1. x \in Met(V, s) \ G
        BY <1>2, <1>6, <1>7
    <2>2. x \in OnStack(s) \ OnStack(st)
        BY <1>2, <1>7
    <2>3. ASSUME NEW b \in Range(deps[x]), b \in OnStack(st) PROVE FALSE
        <3>1. st.index[b] >= st.count
            BY <1>3, <1>4, <2>2, <2>3 DEF Bounded
        <3>2. b \in V /\ st.index[b] < st.count /\ st.index[b] \in Nat
            BY <1>1, <1>2, <1>4, <2>3 DEF Within
        <3> QED
            BY <1>6, <3>1, <3>2
    <2> QED
        BY <1>3, <1>10, <2>1, <2>3 DEF Finished
<1>13. \A x \in Finished(V, s) : Range(deps[x]) \subseteq Finished(V, s)
    BY <1>4 DEF SearchInv, Explored
<1>14. \A x \in Finished(V, r) : Range(deps[x]) \subseteq Finished(V, r)
    BY <1>11, <1>12, <1>13
<1>15. C = Scc(V, deps, v)
    <2>1. ASSUME NEW x \in C PROVE x \in Scc(V, deps, v)
        <3>1. Reach(V, deps, v, x)
            BY <1>2, <1>4 DEF SearchInv, Connected
        <3>2. PICK g \in H : Reach(V, deps, x, g)
            BY <1>2, <1>4 DEF SearchInv, Connected
        <3>3. Reach(V, deps, g, v)
            BY <1>5, <1>6, ReachSelf
        <3>4. Reach(V, deps, x, v)
            BY <3>2, <3>3, ReachThrough
        <3> QED
            BY <1>7, <3>1, <3>4 DEF Scc
    <2>2. ASSUME NEW u \in Scc(V, deps, v) PROVE u \in C
        <3>1. Finished(V, r) \in SUBSET V /\ Finished(V, s) \in SUBSET V
            BY <1>6, <1>10 DEF Finished
        <3>2. u \in V /\ Reach(V, deps, v, u) /\ Reach(V, deps, u, v)
            BY DEF Scc
        <3>3. v \in Finished(V, r)
            BY <1>2, <1>11
        <3>4. u \in Finished(V, r)
            BY <1>14, <3>1, <3>2, <3>3, ReachStays
        <3>5. CASE u \in Finished(V, s)
            <4>1. v \in Finished(V, s)
                BY <1>13, <3>1, <3>2, <3>5, ReachStays
            <4> QED
                BY <1>2, <4>1 DEF Finished
        <3> QED
            BY <1>11, <3>4, <3>5
    <2> QED
        BY <2>1, <2>2
<1>16. r.cycles = Components(V, deps, Finished(V, r))
    <2>1. s.cycles = Components(V, deps, Finished(V, s))
        BY <1>4 DEF SearchInv
    <2>2. \A x \in C : Scc(V, deps, x) = C
        BY <1>6, <1>15, SccSame
    <2>3. Components(V, deps, Finished(V, s) \cup C)
          = Components(V, deps, Finished(V, s)) \cup {Scc(V, deps, x) : x \in {u \in C : Cardinality(Scc(V, deps, u)) > 1}}
        BY DEF Components
    <2>4. {Scc(V, deps, x) : x \in {u \in C : Cardinality(Scc(V, deps, u)) > 1}} = IF Cardinality(C) > 1 THEN {C} ELSE {}
        BY <1>2, <2>2
    <2> QED
        BY <1>8, <1>11, <2>1, <2>3, <2>4
<1>17. Numbered(V, G, r)
    <2>1. Numbered(V, G, st) /\ Numbered(V, H, s)
        BY <1>4, <1>5 DEF SearchInv
    <2>2. OnStack(st) \subseteq Met(V, s)
        BY <1>2, <1>6
    <2>3. \A x \in OnStack(st) : s.index[x] = st.index[x]
        BY <1>1 DEF Within
    <2>4. \A i \in DOMAIN st.stack : st.stack[i] \in OnStack(st)
        BY DEF OnStack
    <2>5. \A i, j \in DOMAIN r.stack : i < j => r.index[r.stack[i]] < r.index[r.stack[j]]
        <3>1. \A i, j \in DOMAIN st.stack : i < j => st.index[st.stack[i]] < st.index[st.stack[j]]
            BY <2>1 DEF Numbered
        <3>2. \A i, j \in DOMAIN st.stack : i < j => s.index[st.stack[i]] < s.index[st.stack[j]]
            BY <2>3, <2>4, <3>1
        <3>3. r.stack = st.stack /\ r.index = s.index
            BY <1>8, <1>9
        <3> QED
            BY <3>2, <3>3
    <2> QED
        BY <1>6, <1>8, <1>10, <2>1, <2>2, <2>5 DEF Numbered
<1>18. Explored(V, deps, G, r)
    BY <1>3, <1>10, <1>14 DEF Explored
<1>19. Connected(V, deps, G, r)
    <2>1. Connected(V, deps, G, st)
        BY <1>5 DEF SearchInv
    <2>2. \A x \in OnStack(st) : s.index[x] = st.index[x]
        BY <1>1 DEF Within
    <2> QED
        BY <1>6, <1>8, <1>10, <2>1, <2>2 DEF Connected
<1>20. SearchInv(V, deps, G, r)
    BY <1>8, <1>16, <1>17, <1>18, <1>19 DEF SearchInv
<1>21. Kept(V, st, r)
    <2>1. Len(st.stack) <= Len(r.stack) /\ \A n \in DOMAIN st.stack : r.stack[n] = st.stack[n]
        <3>1. st.stack \in Seq(V)
            BY <1>6, SearchFields
        <3> QED
            BY <1>9, <3>1
    <2> QED
        BY <1>4, <1>8, <2>1 DEF Kept
<1>22. Len(r.stack) = Len(st.stack) /\ r.low[v] >= st.count
    <2>1. r.low[v] = st.count
        BY <1>4, <1>8
    <2> QED
        BY <1>6, <1>9, <2>1
<1>23. v \in Met(V, r) /\ Bounded(deps, st, r, r.low[v])
    BY <1>2, <1>6, <1>10 DEF Bounded
<1> QED
    BY <1>20, <1>21, <1>22, <1>23 DEF Returned, r

LEMMA Leaving ==
    ASSUME NEW V, NEW deps \in [V -> Seq(V)], NEW G \in SUBSET V, NEW v, NEW st, MayCall(V, deps, G, v, st),
           NEW s, Looping(V, deps, G, v, st, Len(deps[v]), s)
    PROVE  Returned(V, deps, G, v, st, Left(v, s))
<1>1. CASE s.low[v] = s.index[v]
    BY <1>1, LeavingDone
<1>2. CASE s.low[v] # s.index[v]
    <2>1. Returned(V, deps, G, v, st, s)
        BY <1>2, LeavingOpen
    <2> QED
        BY <1>2, <2>1, LeftStays
<1> QED
    BY <1>1, <1>2

\* However deep the calls may nest, that is deep enough for the tables there are.
LEMMA Serving ==
    ASSUME NEW V, IsFiniteSet(V), NEW deps \in [V -> Seq(V)], NEW f, ConnectSteps(V, deps, f)
    PROVE  Serves(V, deps, f[Cardinality(V)], Cardinality(V))
<1> DEFINE N == Cardinality(V)
           S == {n \in 0..N : Serves(V, deps, f[n], n)}
<1>1. N \in Nat
    BY FS_CardinalityType
<1>2. 0 \in S
    <2> SUFFICES ASSUME NEW G \in SUBSET V, NEW v \in V, NEW st \in Searches(V),
                        MayCall(V, deps, G, v, st), Cardinality(V \ Met(V, st)) <= 0
                 PROVE  FALSE
        BY <1>1 DEF Serves
    <2> DEFINE A == V \ Met(V, st)
    <2>1. v \in A /\ IsFiniteSet(A)
        BY FS_Subset DEF MayCall
    <2> HIDE DEF A
    <2>2. Cardinality(A) \in Nat /\ Cardinality(A) # 0
        BY <2>1, FS_CardinalityType, FS_EmptySet
    <2>3. Cardinality(A) <= 0
        BY DEF A
    <2> QED
        BY <2>2, <2>3
<1>3. ASSUME NEW n \in 0..N, n \in S /\ n < N PROVE n + 1 \in S
    <2> DEFINE connect == f[n]
    <2>1. n \in Nat /\ n + 1 \in 1..N /\ n + 1 \in 0..N /\ (n + 1) - 1 = n
        BY <1>1, <1>3
    <2>2. connect \in Calls(V) /\ Serves(V, deps, connect, n)
        BY <1>3 DEF ConnectSteps
    <2>3. f[n + 1] = Deeper(V, deps, connect)
        BY <2>1 DEF ConnectSteps
    <2> HIDE DEF connect, N, S
    <2>4. ASSUME NEW G \in SUBSET V, NEW v \in V, NEW st \in Searches(V),
                 MayCall(V, deps, G, v, st), Cardinality(V \ Met(V, st)) <= n + 1
          PROVE  Returned(V, deps, G, v, st, f[n + 1][<<v, st>>])
        <3> DEFINE s == AllVisited(v, deps[v], Entered(v, st), connect)
        <3>1. Looping(V, deps, G, v, st, Len(deps[v]), s)
            BY <2>1, <2>2, <2>4, AllVisiting
        <3>2. f[n + 1][<<v, st>>] = Left(v, s)
            BY <2>3 DEF Deeper
        <3> HIDE DEF s
        <3>3. Returned(V, deps, G, v, st, Left(v, s))
            BY <2>4, <3>1, Leaving
        <3> QED
            BY <3>2, <3>3
    <2>5. Serves(V, deps, f[n + 1], n + 1)
        BY <2>4 DEF Serves
    <2> QED
        BY <2>1, <2>5 DEF S
<1>4. 0..N \subseteq S
    <2> HIDE DEF S, N
    <2> QED
        BY <1>1, <1>2, <1>3, Counting
<1>5. N \in S
    <2>1. N \in 0..N
        BY <1>1
    <2> HIDE DEF N, S
    <2> QED
        BY <1>4, <2>1
<1> QED
    BY <1>5

\* A call between two tables of findCycles meets the table, and nothing is left on the stack.
LEMMA CallsComplete ==
    ASSUME NEW V, IsFiniteSet(V), NEW deps \in [V -> Seq(V)], NEW connect \in Calls(V),
           Serves(V, deps, connect, Cardinality(V)),
           NEW st, SearchInv(V, deps, {}, st), NEW v \in V, st.index[v] = 0
    PROVE  LET after == connect[<<v, st>>]
           IN SearchInv(V, deps, {}, after) /\ Met(V, st) \cup {v} \subseteq Met(V, after)
<1> DEFINE after == connect[<<v, st>>]
           none == {}
<1>1. st \in Searches(V)
    BY DEF SearchInv
<1>2. MayCall(V, deps, none, v, st)
    BY DEF MayCall, Met
<1>3. Cardinality(V \ Met(V, st)) <= Cardinality(V)
    BY FS_Subset
<1>4. none \in SUBSET V
    OBVIOUS
<1> HIDE DEF none
<1>5. Returned(V, deps, none, v, st, after)
    BY <1>1, <1>2, <1>3, <1>4 DEF Serves
<1> HIDE DEF after
<1>6. SearchInv(V, deps, none, after) /\ v \in Met(V, after) /\ Kept(V, st, after)
    BY <1>5 DEF Returned
<1>7. after \in Searches(V)
    BY <1>6 DEF SearchInv
<1>8. Met(V, st) \subseteq Met(V, after)
    BY <1>1, <1>6, <1>7, KeptSets
<1> QED
    BY <1>6, <1>8 DEF after, none

\* The states of the loop of findCycles.
Fresh(V) == [index |-> [v \in V |-> 0], low |-> [v \in V |-> 0], count |-> 1, stack |-> <<>>, cycles |-> {}]
FoundSteps(V, nodes, connect, f) ==
    /\ f \in [0..Len(nodes) -> Searches(V)]
    /\ f[0] = Fresh(V)
    /\ \A k \in 1..Len(nodes) :
          f[k] = IF f[k - 1].index[nodes[k]] # 0 THEN f[k - 1] ELSE connect[<<nodes[k], f[k - 1]>>]
Refs(nodes, fks) == [v \in Range(nodes) |-> Filter(nodes, Deps(v, nodes, fks))]

LEMMA FreshInv ==
    ASSUME NEW V, NEW deps
    PROVE  SearchInv(V, deps, {}, Fresh(V)) /\ Fresh(V) \in Searches(V)
<1> DEFINE st == Fresh(V)
<1>1. st.index = [v \in V |-> 0] /\ st.count = 1 /\ st.stack = <<>> /\ st.cycles = {} /\ st.low = [v \in V |-> 0]
    BY DEF Fresh
<1>2. st \in Searches(V)
    <2>1. <<>> \in Seq(V) /\ {} \in SUBSET SUBSET V /\ [v \in V |-> 0] \in [V -> Nat]
        OBVIOUS
    <2> QED
        BY <2>1 DEF Fresh, Searches
<1> HIDE DEF st
<1>3. Met(V, st) = {} /\ OnStack(st) = {} /\ Finished(V, st) = {} /\ DOMAIN st.stack = {}
    BY <1>1 DEF Met, OnStack, Finished
<1>4. Numbered(V, {}, st)
    BY <1>1, <1>3 DEF Numbered
<1>5. Explored(V, deps, {}, st) /\ Connected(V, deps, {}, st)
    BY <1>3 DEF Explored, Connected
<1>6. Components(V, deps, {}) = {}
    BY DEF Components
<1> QED
    BY <1>1, <1>2, <1>3, <1>4, <1>5, <1>6 DEF SearchInv, st

LEMMA FoundStepsExist ==
    ASSUME NEW U, NEW nodes \in Seq(U), NEW fks, StrongConnect(Range(nodes), Refs(nodes, fks)) \in Calls(Range(nodes))
    PROVE  LET V == Range(nodes)
               connect == StrongConnect(V, Refs(nodes, fks))
           IN \E f : FoundSteps(V, nodes, connect, f) /\ FindCycles(nodes, fks) = f[Len(nodes)].cycles
<1> DEFINE V == Range(nodes)
           connect == StrongConnect(V, Refs(nodes, fks))
           N == Len(nodes)
           T == Searches(V)
           a == Fresh(V)
           B(n, q) == IF q.index[nodes[n]] # 0 THEN q ELSE connect[<<nodes[n], q>>]
           Steps(f) == [k \in 0..N |-> IF k = 0 THEN a ELSE B(k, f[k - 1])]
           G == [n \in Nat |-> [q \in T |-> IF n \in 1..N THEN B(n, q) ELSE q]]
           c == CHOOSE f : f = Steps(f)
<1>1. N \in Nat /\ a \in T
    BY FreshInv
<1>2. FindCycles(nodes, fks) = c[N].cycles
    BY DEF FindCycles, Refs, Fresh
<1>3. \A n \in 1..N, q \in T : B(n, q) \in T
    <2> TAKE n \in 1..N, q \in T
    <2>1. nodes[n] \in V
        BY DEF Range
    <2>2. connect[<<nodes[n], q>>] \in T
        BY <2>1 DEF Calls
    <2> QED
        BY <2>2
<1> HIDE DEF N, T, B, a, V, connect
<1>4. G \in [Nat -> [T -> T]]
    BY <1>3
<1>5. PICK f \in [0..N -> T] : f[0] = a /\ \A n \in 1..N : f[n] = G[n][f[n - 1]]
    <2> HIDE DEF G
    <2>1. Iterates(N, T, a, G)
        BY <1>1, <1>4, Iteration
    <2> QED
        BY <2>1 DEF Iterates
<1>6. \A n \in 1..N : f[n] = B(n, f[n - 1])
    <2> TAKE n \in 1..N
    <2>1. n \in Nat /\ f[n - 1] \in T
        BY <1>1, <1>5
    <2> QED
        BY <1>5, <2>1
<1>7. f = Steps(f)
    BY <1>1, <1>5, <1>6
<1>8. c = Steps(c)
    <2> HIDE DEF Steps
    <2> QED
        BY <1>7
<1> HIDE DEF c, G
<1>9. c = [k \in 0..N |-> c[k]] /\ c[0] = a /\ \A n \in 1..N : c[n] = B(n, c[n - 1])
    <2>1. c = [k \in 0..N |-> IF k = 0 THEN a ELSE B(k, c[k - 1])]
        BY <1>8
    <2>2. 0 \in 0..N /\ \A n \in 1..N : n \in 0..N /\ n # 0
        BY <1>1
    <2> HIDE DEF Steps
    <2> QED
        BY <2>1, <2>2
<1> DEFINE S == {n \in 0..N : c[n] \in T}
<1>10. 0 \in S
    BY <1>1, <1>9
<1>11. ASSUME NEW n \in 0..N, n \in S /\ n < N PROVE n + 1 \in S
    <2>1. n + 1 \in 1..N /\ (n + 1) - 1 = n /\ c[n] \in T
        BY <1>1, <1>11
    <2>2. c[n + 1] \in T
        BY <1>3, <1>9, <2>1
    <2> QED
        BY <2>1, <2>2
<1>12. 0..N \subseteq S
    <2> HIDE DEF S
    <2> QED
        BY <1>1, <1>10, <1>11, Counting
<1>13. c \in [0..N -> T]
    BY <1>9, <1>12
<1>14. FoundSteps(V, nodes, connect, c)
    BY <1>9, <1>13 DEF FoundSteps, N, T, B, a
<1> QED
    BY <1>2, <1>14 DEF N, V, connect

\* findCycles, a search by Tarjan's algorithm, finds exactly the groups of several tables that refer
\* to each other, directly or by way of others: for any tables and any references between them.
THEOREM FoundCycles ==
    ASSUME NEW U, NEW nodes \in Seq(U), IsInjective(nodes), NEW fks
    PROVE  FindCycles(nodes, fks) = Components(Range(nodes), Refs(nodes, fks), Range(nodes))
<1> DEFINE V == Range(nodes)
           deps == Refs(nodes, fks)
           connect == StrongConnect(V, deps)
           N == Len(nodes)
<1>1. IsFiniteSet(V)
    BY AsLong
<1>2. deps \in [V -> Seq(V)]
    <2>1. nodes \in Seq(V)
        BY DEF Range
    <2>2. \A v \in V : Filter(nodes, Deps(v, nodes, fks)) \in Seq(V)
        BY <2>1, FilterFacts
    <2> QED
        BY <2>2 DEF Refs
<1> HIDE DEF V, deps
<1>3. PICK calls : ConnectSteps(V, deps, calls) /\ connect = calls[Cardinality(V)]
    BY <1>1, <1>2, ConnectExists
<1>4. connect \in Calls(V) /\ Serves(V, deps, connect, Cardinality(V))
    <2>1. Cardinality(V) \in 0..Cardinality(V)
        BY <1>1, FS_CardinalityType
    <2>2. connect \in Calls(V)
        BY <1>3, <2>1 DEF ConnectSteps
    <2>3. Serves(V, deps, calls[Cardinality(V)], Cardinality(V))
        BY <1>1, <1>2, <1>3, Serving
    <2> QED
        BY <1>3, <2>2, <2>3
<1>5. PICK f : FoundSteps(V, nodes, connect, f) /\ FindCycles(nodes, fks) = f[Len(nodes)].cycles
    BY <1>4, FoundStepsExist DEF V, deps
<1> HIDE DEF connect
<1> DEFINE S == {k \in 0..N : SearchInv(V, deps, {}, f[k]) /\ \A j \in 1..k : nodes[j] \in Met(V, f[k])}
<1>6. N \in Nat /\ \A j \in 1..N : nodes[j] \in V
    BY DEF V, Range
<1>7. 0 \in S
    BY <1>5, <1>6, FreshInv DEF FoundSteps
<1>8. ASSUME NEW k \in 0..N, k \in S /\ k < N PROVE k + 1 \in S
    <2> DEFINE st == f[k]
               after == f[k + 1]
               v == nodes[k + 1]
    <2>1. k + 1 \in 1..N /\ (k + 1) - 1 = k /\ k \in Nat /\ k + 1 \in 0..N
        BY <1>6, <1>8
    <2>2. after = IF st.index[v] # 0 THEN st ELSE connect[<<v, st>>]
        BY <1>5, <2>1 DEF FoundSteps
    <2>3. SearchInv(V, deps, {}, st) /\ \A j \in 1..k : nodes[j] \in Met(V, st)
        BY <1>8
    <2>4. v \in V
        BY <1>6, <2>1
    <2>5. \A j \in 1..(k + 1) : j \in 1..k \/ j = k + 1
        BY <2>1
    <2> HIDE DEF st, after, S, N
    <2>6. CASE st.index[v] # 0
        <3>1. after = st /\ v \in Met(V, st)
            BY <2>2, <2>4, <2>6 DEF Met
        <3> QED
            BY <2>1, <2>3, <2>5, <3>1 DEF S, after
    <2>7. CASE st.index[v] = 0
        <3>1. after = connect[<<v, st>>]
            BY <2>2, <2>7
        <3> HIDE DEF v
        <3>2. SearchInv(V, deps, {}, after) /\ Met(V, st) \cup {v} \subseteq Met(V, after)
            BY <1>1, <1>2, <1>4, <2>3, <2>4, <2>7, <3>1, CallsComplete
        <3> QED
            BY <2>1, <2>3, <2>5, <3>2 DEF S, after, v
    <2> QED
        BY <2>6, <2>7
<1>9. 0..N \subseteq S
    <2> HIDE DEF S, N
    <2> QED
        BY <1>6, <1>7, <1>8, Counting
<1> DEFINE last == f[N]
<1>10. SearchInv(V, deps, {}, last) /\ \A j \in 1..N : nodes[j] \in Met(V, last)
    <2>1. N \in S
        <3>1. N \in 0..N
            BY <1>6
        <3> HIDE DEF N, S
        <3> QED
            BY <1>9, <3>1
    <2> QED
        BY <2>1
<1> HIDE DEF last
<1>11. Met(V, last) = V
    <2>1. \A v \in V : \E j \in 1..N : v = nodes[j]
        BY DEF V, Range
    <2> QED
        BY <1>10, <2>1 DEF Met
<1>12. OnStack(last) = {}
    BY <1>10 DEF SearchInv, Connected
<1>13. last.cycles = Components(V, deps, V)
    BY <1>10, <1>11, <1>12 DEF SearchInv, Finished
<1> QED
    BY <1>5, <1>13 DEF V, deps, last

-----------------------------------------------------------------------------
(* Kahn's loop                                                             *)

\* Whether t is next when those of q are done.
Free(t, tables, fks, q) == t \notin Range(q) /\ Deps(t, tables, fks) \subseteq Range(q)

\* The states of one pass, and of the passes.
PassSteps(U, tables, fks, order, f) ==
    /\ f \in [0..Len(tables) -> Seq(U)]
    /\ f[0] = order
    /\ \A n \in 1..Len(tables) :
          f[n] = IF Free(tables[n], tables, fks, f[n - 1]) THEN Append(f[n - 1], tables[n]) ELSE f[n - 1]
SortSteps(U, tables, fks, f) ==
    /\ f \in [0..Len(tables) -> Seq(U)]
    /\ f[0] = <<>>
    /\ \A n \in 1..Len(tables) : f[n] = Pass(tables, fks, f[n - 1])

LEMMA PassStepsExist ==
    ASSUME NEW U, NEW tables \in Seq(U), NEW fks, NEW order \in Seq(U)
    PROVE  \E f : PassSteps(U, tables, fks, order, f) /\ Pass(tables, fks, order) = f[Len(tables)]
<1> DEFINE N == Len(tables)
           T == Seq(U)
           a == order
           B(n, q) == IF Free(tables[n], tables, fks, q) THEN Append(q, tables[n]) ELSE q
           Steps(f) == [k \in 0..N |-> IF k = 0 THEN a ELSE B(k, f[k - 1])]
           G == [n \in Nat |-> [q \in T |-> IF n \in 1..N THEN B(n, q) ELSE q]]
           c == CHOOSE f : f = Steps(f)
<1>1. N \in Nat /\ a \in T
    OBVIOUS
<1>2. Pass(tables, fks, order) = c[N]
    BY DEF Pass, Free
<1>3. \A n \in 1..N, q \in T : B(n, q) \in T
    <2> TAKE n \in 1..N, q \in T
    <2>1. tables[n] \in U
        OBVIOUS
    <2> QED
        BY <2>1
<1> HIDE DEF N, T, B, a
<1>4. G \in [Nat -> [T -> T]]
    BY <1>3
<1>5. PICK f \in [0..N -> T] : f[0] = a /\ \A n \in 1..N : f[n] = G[n][f[n - 1]]
    <2> HIDE DEF G
    <2>1. Iterates(N, T, a, G)
        BY <1>1, <1>4, Iteration
    <2> QED
        BY <2>1 DEF Iterates
<1>6. \A n \in 1..N : f[n] = B(n, f[n - 1])
    <2> TAKE n \in 1..N
    <2>1. n \in Nat /\ f[n - 1] \in T
        BY <1>1, <1>5
    <2> QED
        BY <1>5, <2>1
<1>7. f = Steps(f)
    BY <1>1, <1>5, <1>6
<1>8. c = Steps(c)
    <2> HIDE DEF Steps
    <2> QED
        BY <1>7
<1> HIDE DEF c, G
<1>9. c = [k \in 0..N |-> c[k]] /\ c[0] = a /\ \A n \in 1..N : c[n] = B(n, c[n - 1])
    <2>1. c = [k \in 0..N |-> IF k = 0 THEN a ELSE B(k, c[k - 1])]
        BY <1>8
    <2>2. 0 \in 0..N /\ \A n \in 1..N : n \in 0..N /\ n # 0
        BY <1>1
    <2> HIDE DEF Steps
    <2> QED
        BY <2>1, <2>2
<1> DEFINE S == {n \in 0..N : c[n] \in T}
<1>10. 0 \in S
    BY <1>1, <1>9
<1>11. ASSUME NEW n \in 0..N, n \in S /\ n < N PROVE n + 1 \in S
    <2>1. n + 1 \in 1..N /\ (n + 1) - 1 = n /\ c[n] \in T
        BY <1>1, <1>11
    <2>2. c[n + 1] \in T
        BY <1>3, <1>9, <2>1
    <2> QED
        BY <2>1, <2>2
<1>12. 0..N \subseteq S
    <2> HIDE DEF S
    <2> QED
        BY <1>1, <1>10, <1>11, Counting
<1>13. c \in [0..N -> T]
    BY <1>9, <1>12
<1>14. PassSteps(U, tables, fks, order, c)
    BY <1>9, <1>13 DEF PassSteps, N, T, B, a
<1> QED
    BY <1>2, <1>14 DEF N

\* One pass adds a table, unless none is ready.
LEMMA OnePass ==
    ASSUME NEW U, NEW tables \in Seq(U), NEW fks, IsInjective(tables),
           NEW m \in Nat, NEW order \in Seq(U), RoundInv(m, order, tables, fks)
    PROVE  Pass(tables, fks, order) \in Seq(U) /\ RoundInv(m + 1, Pass(tables, fks, order), tables, fks)
<1> DEFINE N == Len(tables)
           Grown(n, q) == (q = order /\ \A j \in 1..n : ~Free(tables[j], tables, fks, order)) \/ Len(q) > Len(order)
           Good(n, q) == /\ Range(q) \subseteq Range(tables) /\ IsInjective(q) /\ Closed(q, tables, fks)
                         /\ Grown(n, q)
<1>1. PICK f : PassSteps(U, tables, fks, order, f) /\ Pass(tables, fks, order) = f[N]
    BY PassStepsExist
<1> DEFINE S == {n \in 0..N : Good(n, f[n])}
<1>2. N \in Nat /\ Len(order) \in Nat /\ \A n \in 1..N : tables[n] \in Range(tables) /\ tables[n] \in U
    BY DEF Range
<1>3. 0 \in S
    BY <1>1, <1>2 DEF PassSteps, RoundInv
<1>4. ASSUME NEW n \in 0..N, n \in S /\ n < N PROVE n + 1 \in S
    <2> DEFINE q == f[n]
               r == f[n + 1]
               t == tables[n + 1]
    <2>1. n + 1 \in 1..N /\ (n + 1) - 1 = n /\ n \in Nat /\ n + 1 \in 0..N
        BY <1>2, <1>4
    <2>2. r = IF Free(t, tables, fks, q) THEN Append(q, t) ELSE q
        BY <1>1, <2>1 DEF PassSteps
    <2>3. q \in Seq(U) /\ t \in Range(tables) /\ t \in U
        BY <1>1, <1>2, <2>1 DEF PassSteps
    <2>4. Good(n, q)
        BY <1>4
    <2>5. \A j \in 1..(n + 1) : j \in 1..n \/ j = n + 1
        BY <2>1
    <2>6. CASE ~Free(t, tables, fks, q)
        <3>1. r = q
            BY <2>2, <2>6
        <3>2. Grown(n + 1, q)
            BY <2>4, <2>5, <2>6
        <3> HIDE DEF Grown
        <3> QED
            BY <2>1, <2>4, <3>1, <3>2
    <2>7. CASE Free(t, tables, fks, q)
        <3> HIDE DEF t, q, r
        <3>1. r = Append(q, t)
            BY <2>2, <2>7
        <3>2. DOMAIN r = DOMAIN q \cup {Len(q) + 1} /\ Len(q) + 1 \notin DOMAIN q /\ DOMAIN q = 1..Len(q) /\ Len(q) \in Nat
              /\ Len(r) = Len(q) + 1
            BY <2>3, <3>1
        <3>3. r[Len(q) + 1] = t /\ \A i \in DOMAIN q : r[i] = q[i]
            BY <2>3, <3>1
        <3>4. Range(r) = Range(q) \cup {t}
            BY <3>2, <3>3 DEF Range
        <3>5. IsInjective(r)
            BY <2>4, <2>7, <3>2, <3>3 DEF IsInjective, Range, Free
        <3>6. ASSUME NEW i \in DOMAIN r, NEW p \in Deps(r[i], tables, fks)
              PROVE  \E j \in DOMAIN r : j < i /\ r[j] = p
            <4>1. CASE i \in DOMAIN q
                BY <2>4, <3>2, <3>3, <3>6, <4>1 DEF Closed
            <4>2. CASE i = Len(q) + 1
                <5>1. p \in Range(q)
                    BY <2>7, <3>3, <3>6, <4>2 DEF Free
                <5>2. PICK j \in DOMAIN q : q[j] = p
                    BY <5>1 DEF Range
                <5> QED
                    BY <3>2, <3>3, <4>2, <5>2
            <4> QED
                BY <3>2, <4>1, <4>2
        <3>7. Len(r) > Len(order)
            BY <1>2, <2>4, <3>2
        <3>8. Range(r) \subseteq Range(tables)
            BY <2>3, <2>4, <3>4
        <3>9. Closed(r, tables, fks)
            BY <3>6 DEF Closed
        <3>10. Good(n + 1, r)
            BY <3>5, <3>7, <3>8, <3>9
        <3> QED
            BY <2>1, <3>10 DEF r
    <2> QED
        BY <2>6, <2>7
<1>5. 0..N \subseteq S
    <2> HIDE DEF S, N
    <2> QED
        BY <1>2, <1>3, <1>4, Counting
<1> DEFINE last == f[N]
<1>6. last \in Seq(U) /\ Good(N, last)
    <2>1. N \in 0..N
        BY <1>2
    <2>2. N \in S
        <3> HIDE DEF S, N
        <3> QED
            BY <1>5, <2>1
    <2>3. last \in Seq(U)
        BY <1>1, <2>1 DEF PassSteps
    <2> QED
        BY <2>2, <2>3
<1> HIDE DEF last
<1>7. Len(last) >= m + 1 \/ Ready(tables, fks, last) = <<>>
    <2>1. Len(last) \in Nat /\ Len(order) \in Nat
        BY <1>6
    <2>2. CASE Len(last) > Len(order)
        <3>1. CASE Len(order) >= m
            BY <2>1, <2>2, <3>1
        <3>2. CASE Ready(tables, fks, order) = <<>>
            <4>1. {t \in Range(tables) \ Range(order) : Deps(t, tables, fks) \subseteq Range(order)} = {}
                <5>1. Range(<<>>) = {}
                    BY DEF Range
                <5> QED
                    BY <3>2, <5>1, ReadyFacts
            <4> QED
                <5>1. \A n \in 1..N : ~Free(tables[n], tables, fks, order)
                    BY <1>2, <4>1 DEF Free
                <5> DEFINE P == {n \in 0..N : f[n] = order}
                <5>2. 0 \in P
                    BY <1>1, <1>2 DEF PassSteps
                <5>3. ASSUME NEW n \in 0..N, n \in P /\ n < N PROVE n + 1 \in P
                    <6>1. n + 1 \in 1..N /\ (n + 1) - 1 = n /\ n + 1 \in 0..N
                        BY <1>2, <5>3
                    <6> QED
                        BY <1>1, <5>1, <5>3, <6>1 DEF PassSteps
                <5>4. 0..N \subseteq P
                    <6> HIDE DEF P, N
                    <6> QED
                        BY <1>2, <5>2, <5>3, Counting
                <5>5. last = order
                    <6>1. N \in 0..N
                        BY <1>2
                    <6> QED
                        BY <5>4, <6>1 DEF last
                <5> QED
                    BY <2>1, <2>2, <5>5
        <3> QED
            BY <3>1, <3>2 DEF RoundInv
    <2>3. CASE last = order /\ \A j \in 1..N : ~Free(tables[j], tables, fks, order)
        <3>1. {t \in Range(tables) \ Range(order) : Deps(t, tables, fks) \subseteq Range(order)} = {}
            <4>1. \A t \in Range(tables) : \E j \in 1..N : t = tables[j]
                BY DEF Range
            <4> QED
                BY <2>3, <4>1 DEF Free
        <3>2. Ready(tables, fks, order) \in Seq(U) /\ Range(Ready(tables, fks, order)) = {}
            BY <3>1, ReadyFacts
        <3>3. Ready(tables, fks, order) = <<>>
            <4> DEFINE e == Ready(tables, fks, order)
            <4>1. e \in Seq(U) /\ Range(e) = {}
                BY <3>2
            <4> HIDE DEF e
            <4>2. DOMAIN e = {}
                BY <4>1 DEF Range
            <4> QED
                BY <4>1, <4>2 DEF e
        <3> QED
            BY <2>3, <3>3
    <2> QED
        BY <1>6, <2>2, <2>3
<1> QED
    BY <1>1, <1>6, <1>7 DEF RoundInv, last

LEMMA SortStepsExist ==
    ASSUME NEW U, NEW tables \in Seq(U), NEW fks
    PROVE  \E f : SortSteps(U, tables, fks, f) /\ Sorted(tables, fks) = f[Len(tables)]
<1> DEFINE N == Len(tables)
           T == Seq(U)
           a == <<>>
           B(n, q) == Pass(tables, fks, q)
           Steps(f) == [k \in 0..N |-> IF k = 0 THEN a ELSE B(k, f[k - 1])]
           G == [n \in Nat |-> [q \in T |-> IF n \in 1..N THEN B(n, q) ELSE q]]
           c == CHOOSE f : f = Steps(f)
<1>1. N \in Nat /\ a \in T
    OBVIOUS
<1>2. Sorted(tables, fks) = c[N]
    BY DEF Sorted
<1>3. \A n \in 1..N, q \in T : B(n, q) \in T
    <2> TAKE n \in 1..N, q \in T
    <2>1. PICK f : PassSteps(U, tables, fks, q, f) /\ Pass(tables, fks, q) = f[N]
        BY PassStepsExist
    <2>2. N \in 0..N
        OBVIOUS
    <2> QED
        BY <2>1, <2>2 DEF PassSteps
<1> HIDE DEF N, T, B, a
<1>4. G \in [Nat -> [T -> T]]
    BY <1>3
<1>5. PICK f \in [0..N -> T] : f[0] = a /\ \A n \in 1..N : f[n] = G[n][f[n - 1]]
    <2> HIDE DEF G
    <2>1. Iterates(N, T, a, G)
        BY <1>1, <1>4, Iteration
    <2> QED
        BY <2>1 DEF Iterates
<1>6. \A n \in 1..N : f[n] = B(n, f[n - 1])
    <2> TAKE n \in 1..N
    <2>1. n \in Nat /\ f[n - 1] \in T
        BY <1>1, <1>5
    <2> QED
        BY <1>5, <2>1
<1>7. f = Steps(f)
    BY <1>1, <1>5, <1>6
<1>8. c = Steps(c)
    <2> HIDE DEF Steps
    <2> QED
        BY <1>7
<1> HIDE DEF c, G
<1>9. c = [k \in 0..N |-> c[k]] /\ c[0] = a /\ \A n \in 1..N : c[n] = B(n, c[n - 1])
    <2>1. c = [k \in 0..N |-> IF k = 0 THEN a ELSE B(k, c[k - 1])]
        BY <1>8
    <2>2. 0 \in 0..N /\ \A n \in 1..N : n \in 0..N /\ n # 0
        BY <1>1
    <2> HIDE DEF Steps
    <2> QED
        BY <2>1, <2>2
<1> DEFINE S == {n \in 0..N : c[n] \in T}
<1>10. 0 \in S
    BY <1>1, <1>9
<1>11. ASSUME NEW n \in 0..N, n \in S /\ n < N PROVE n + 1 \in S
    <2>1. n + 1 \in 1..N /\ (n + 1) - 1 = n /\ c[n] \in T
        BY <1>1, <1>11
    <2>2. c[n + 1] \in T
        BY <1>3, <1>9, <2>1
    <2> QED
        BY <2>1, <2>2
<1>12. 0..N \subseteq S
    <2> HIDE DEF S
    <2> QED
        BY <1>1, <1>10, <1>11, Counting
<1>13. c \in [0..N -> T]
    BY <1>9, <1>12
<1>14. SortSteps(U, tables, fks, c)
    BY <1>9, <1>13 DEF SortSteps, N, T, B, a
<1> QED
    BY <1>2, <1>14 DEF N

\* Kahn's loop orders all tables that it can.
LEMMA SortedInv ==
    ASSUME NEW U, NEW tables \in Seq(U), NEW fks, IsInjective(tables)
    PROVE  Sorted(tables, fks) \in Seq(U) /\ RoundInv(Len(tables), Sorted(tables, fks), tables, fks)
<1> DEFINE N == Len(tables)
<1>1. PICK f : SortSteps(U, tables, fks, f) /\ Sorted(tables, fks) = f[N]
    BY SortStepsExist
<1> DEFINE S == {n \in 0..N : RoundInv(n, f[n], tables, fks)}
<1>2. N \in Nat
    OBVIOUS
<1>3. 0 \in S
    <2>1. Range(<<>>) = {} /\ IsInjective(<<>>) /\ DOMAIN <<>> = {} /\ Len(<<>>) = 0
        BY DEF Range, IsInjective
    <2>2. RoundInv(0, <<>>, tables, fks)
        BY <2>1 DEF RoundInv, Closed
    <2> QED
        BY <1>1, <1>2, <2>2 DEF SortSteps
<1>4. ASSUME NEW n \in 0..N, n \in S /\ n < N PROVE n + 1 \in S
    <2>1. n \in Nat /\ n + 1 \in 1..N /\ (n + 1) - 1 = n /\ n + 1 \in 0..N
        BY <1>2, <1>4
    <2>2. f[n] \in Seq(U) /\ f[n + 1] = Pass(tables, fks, f[n])
        BY <1>1, <2>1 DEF SortSteps
    <2>3. RoundInv(n, f[n], tables, fks)
        BY <1>4
    <2>4. RoundInv(n + 1, f[n + 1], tables, fks)
        BY <2>1, <2>2, <2>3, OnePass
    <2> QED
        BY <2>1, <2>4
<1>5. 0..N \subseteq S
    <2> HIDE DEF S, N
    <2> QED
        BY <1>2, <1>3, <1>4, Counting
<1>6. N \in 0..N
    BY <1>2
<1>7. RoundInv(N, f[N], tables, fks)
    BY <1>5, <1>6
<1>8. f[N] \in Seq(U)
    BY <1>1, <1>6 DEF SortSteps
<1> QED
    BY <1>1, <1>7, <1>8

-----------------------------------------------------------------------------
(* The groups reported as circular                                         *)

LEMMA RefsFacts ==
    ASSUME NEW U, NEW tables \in Seq(U), NEW fks
    PROVE  /\ Refs(tables, fks) \in [Range(tables) -> Seq(Range(tables))]
           /\ \A v \in Range(tables) : Range(Refs(tables, fks)[v]) = Deps(v, tables, fks)
<1> DEFINE V == Range(tables)
<1>1. tables \in Seq(V)
    BY DEF Range
<1>2. \A v \in V : Deps(v, tables, fks) \subseteq V
    BY DEF Deps
<1> HIDE DEF V
<1>3. \A v \in V : Filter(tables, Deps(v, tables, fks)) \in Seq(V)
                   /\ Range(Filter(tables, Deps(v, tables, fks))) = Range(tables) \cap Deps(v, tables, fks)
    BY <1>1, FilterFacts
<1> QED
    BY <1>2, <1>3 DEF Refs, V

LEMMA ClosedRange ==
    ASSUME NEW U, NEW tables, NEW fks, NEW order \in Seq(U), Closed(order, tables, fks), NEW w \in Range(order)
    PROVE  Deps(w, tables, fks) \subseteq Range(order)
<1>1. PICK i \in DOMAIN order : w = order[i]
    BY DEF Range
<1>2. \A p \in Deps(order[i], tables, fks) : \E j \in DOMAIN order : order[j] = p
    BY DEF Closed
<1> QED
    BY <1>1, <1>2 DEF Range

\* A group of several tables has none that Kahn's loop ordered.
LEMMA GroupsAreLeft ==
    ASSUME NEW U, NEW tables \in Seq(U), NEW fks,
           NEW order \in Seq(U), Range(order) \subseteq Range(tables), Closed(order, tables, fks),
           NEW v \in Range(tables), Cardinality(Scc(Range(tables), Refs(tables, fks), v)) > 1
    PROVE  v \notin Range(order)
<1> DEFINE W == Range(tables)
           D == Refs(tables, fks)
           O == Range(order)
           C == Scc(W, D, v)
<1> SUFFICES ASSUME v \in O PROVE FALSE
    OBVIOUS
<1>1. \A w \in W : Range(D[w]) = Deps(w, tables, fks) /\ Deps(w, tables, fks) \subseteq W
    BY RefsFacts DEF Deps
<1>2. DOMAIN order = 1..Len(order) /\ Len(order) \in Nat
    OBVIOUS
<1>0. Cardinality(C) > 1
    OBVIOUS
<1>3. \A w \in O : Range(D[w]) \subseteq O
    BY <1>1, ClosedRange
<1> HIDE DEF D
<1>4. C \subseteq O
    <2> HIDE DEF O, W
    <2>1. O \in SUBSET W
        BY DEF O, W
    <2> QED
        BY <1>3, <2>1, ReachStays DEF Scc
<1> DEFINE at == {i \in DOMAIN order : order[i] \in C}
<1>5. at \subseteq Nat /\ at # {}
    <2>1. v \in C
        BY ReachSelf DEF Scc
    <2>2. \E i \in DOMAIN order : order[i] = v
        BY DEF Range
    <2> HIDE DEF C
    <2> QED
        BY <1>2, <2>1, <2>2
<1>6. PICK i \in at : \A j \in at : i <= j
    <2> HIDE DEF at
    <2> QED
        BY <1>5, LeastOf
<1> DEFINE x == order[i]
<1>7. x \in C /\ x \in W /\ i \in DOMAIN order
    BY DEF Scc
<1>8. PICK y \in C : y # x
    <2> SUFFICES ASSUME C \subseteq {x} PROVE FALSE
        OBVIOUS
    <2>1. C = {x}
        BY <1>7
    <2>2. Cardinality({x}) = 1
        BY FS_Singleton
    <2> HIDE DEF C, x
    <2> QED
        BY <1>0, <2>1, <2>2
<1>9. y \in W /\ Reach(W, D, x, y) /\ Reach(W, D, y, x)
    <2>1. x \in W /\ y \in W /\ Reach(W, D, v, x) /\ Reach(W, D, x, v) /\ Reach(W, D, v, y) /\ Reach(W, D, y, v)
        BY <1>7, <1>8 DEF Scc
    <2> HIDE DEF x
    <2> QED
        BY <2>1, ReachThrough
<1>10. PICK b \in W : b \in Range(D[x]) /\ Reach(W, D, b, y)
    <2> DEFINE A == {x}
    <2>1. A \in SUBSET W /\ x \in A /\ y \in W \ A /\ \A w \in W : Range(D[w]) \subseteq W
        BY <1>1, <1>7, <1>8, <1>9
    <2>2. \A z \in A : z = x
        OBVIOUS
    <2> HIDE DEF A, W, x
    <2>3. \E a \in A, b \in W \ A : b \in Range(D[a]) /\ Reach(W, D, x, a) /\ Reach(W, D, b, y)
        BY <1>9, <2>1, ReachLeaves
    <2> QED
        BY <2>2, <2>3
<1>11. b \in C
    <2> HIDE DEF W, x
    <2>1. Reach(W, D, x, b)
        BY <1>7, <1>10, ReachSelf, ReachNext
    <2>2. Reach(W, D, v, x) /\ Reach(W, D, x, v)
        BY <1>7 DEF Scc
    <2>3. Reach(W, D, v, b)
        BY <2>1, <2>2, ReachThrough
    <2>4. Reach(W, D, b, x)
        BY <1>9, <1>10, ReachThrough
    <2>5. Reach(W, D, b, v)
        BY <2>2, <2>4, ReachThrough
    <2> QED
        BY <1>10, <2>3, <2>5 DEF Scc
<1>12. b \in Deps(x, tables, fks)
    BY <1>1, <1>7, <1>10
<1>13. PICK j \in DOMAIN order : j < i /\ order[j] = b
    BY <1>7, <1>12 DEF Closed
<1>14. j \in at
    BY <1>11, <1>13
<1> HIDE DEF at
<1> QED
    BY <1>2, <1>6, <1>7, <1>13, <1>14

\* What is reached among the tables left is what is reached among all.
LEMMA ReachLeft ==
    ASSUME NEW U, NEW tables \in Seq(U), NEW fks,
           NEW order \in Seq(U), Range(order) \subseteq Range(tables), Closed(order, tables, fks),
           NEW rest \in Seq(U), Range(rest) = Range(tables) \ Range(order),
           NEW x \in Range(rest), NEW y \in Range(rest)
    PROVE  Reach(Range(rest), Refs(rest, fks), x, y) <=> Reach(Range(tables), Refs(tables, fks), x, y)
<1> DEFINE W == Range(tables)
           D == Refs(tables, fks)
           O == Range(order)
           R == Range(rest)
           E == Refs(rest, fks)
<1>1. \A w \in W : Range(D[w]) = Deps(w, tables, fks) /\ Deps(w, tables, fks) \subseteq W
    BY RefsFacts DEF Deps
<1>2. \A w \in R : Range(E[w]) = Deps(w, rest, fks)
    BY RefsFacts
<1>3. \A w \in O : Range(D[w]) \subseteq O
    BY <1>1, ClosedRange
<1> HIDE DEF D, E
<1>4. \A w \in R : Range(E[w]) = Range(D[w]) \cap R
    BY <1>1, <1>2 DEF Deps
<1>5. R = W \ O /\ x \in R /\ y \in R /\ O \in SUBSET W
    OBVIOUS
<1>6. \A w \in W : Range(D[w]) \subseteq W
    BY <1>1
<1> HIDE DEF W, O, R
<1>7. ASSUME Reach(R, E, x, y), NEW S \in SUBSET W, x \in S, \A s \in S : Range(D[s]) \subseteq S PROVE y \in S
    <2> DEFINE T == S \cap R
    <2>1. T \in SUBSET R /\ x \in T
        BY <1>5, <1>7
    <2>2. \A s \in T : Range(E[s]) \subseteq T
        BY <1>4, <1>7
    <2> HIDE DEF T
    <2>3. y \in T
        BY <1>7, <2>1, <2>2 DEF Reach
    <2> QED
        BY <2>3 DEF T
<1>8. ASSUME Reach(W, D, x, y), NEW S \in SUBSET R, x \in S, \A s \in S : Range(E[s]) \subseteq S PROVE y \in S
    <2> DEFINE T == S \cup {z \in W : ~Reach(W, D, z, y)}
    <2>1. T \in SUBSET W /\ x \in T
        BY <1>5, <1>8
    <2>2. ASSUME NEW s \in T, NEW b \in Range(D[s]) PROVE b \in T
        <3>1. s \in W /\ b \in W
            BY <1>6, <2>1
        <3>2. CASE s \in S /\ b \in R
            BY <1>4, <1>8, <2>2, <3>2
        <3>3. CASE b \notin R
            <4>1. b \in O
                BY <1>5, <3>1, <3>3
            <4>2. ~Reach(W, D, b, y)
                BY <1>3, <1>5, <4>1, ReachStays
            <4> QED
                BY <3>1, <4>2
        <3>4. CASE ~Reach(W, D, s, y)
            <4>1. ASSUME Reach(W, D, b, y) PROVE FALSE
                <5>1. Reach(W, D, s, b)
                    BY <3>1, <2>2, ReachSelf, ReachNext
                <5> QED
                    BY <3>4, <4>1, <5>1, ReachThrough
            <4> QED
                BY <3>1, <4>1
        <3> QED
            BY <3>2, <3>3, <3>4
    <2> HIDE DEF T
    <2>3. y \in T
        BY <1>8, <2>1, <2>2, ReachStays
    <2>4. Reach(W, D, y, y)
        BY <1>5, ReachSelf
    <2> QED
        BY <2>3, <2>4 DEF T
<1>9. Reach(R, E, x, y) => Reach(W, D, x, y)
    BY <1>7 DEF Reach
<1>10. Reach(W, D, x, y) => Reach(R, E, x, y)
    BY <1>8 DEF Reach
<1> QED
    BY <1>9, <1>10 DEF W, D, R, E

\* The search among the tables left finds the groups among all.
Ordered(U, tables, fks, order, rest) ==
    /\ order \in Seq(U) /\ Range(order) \subseteq Range(tables) /\ Closed(order, tables, fks)
    /\ rest \in Seq(U) /\ Range(rest) = Range(tables) \ Range(order)

LEMMA GroupsLeft ==
    ASSUME NEW U, NEW tables \in Seq(U), NEW fks, NEW order, NEW rest, Ordered(U, tables, fks, order, rest)
    PROVE  Components(Range(rest), Refs(rest, fks), Range(rest))
           = Components(Range(tables), Refs(tables, fks), Range(tables))
<1> DEFINE W == Range(tables)
           D == Refs(tables, fks)
           O == Range(order)
           R == Range(rest)
           E == Refs(rest, fks)
<1>0. /\ order \in Seq(U) /\ O \subseteq W /\ Closed(order, tables, fks)
      /\ rest \in Seq(U) /\ R = W \ O
    BY DEF Ordered
<1>1. \A x, y \in R : Reach(R, E, x, y) <=> Reach(W, D, x, y)
    BY <1>0, ReachLeft
<1>2. \A w \in O : Range(D[w]) \subseteq O
    BY <1>0, RefsFacts, ClosedRange
<1>3. \A v \in W : Cardinality(Scc(W, D, v)) > 1 => v \in R
    BY <1>0, GroupsAreLeft
<1>4. R = W \ O /\ O \in SUBSET W
    BY <1>0
<1> HIDE DEF W, D, O, R, E
<1>5. \A v \in R : Scc(W, D, v) \subseteq R
    <2> SUFFICES ASSUME NEW v \in R, NEW u \in Scc(W, D, v), u \in O PROVE FALSE
        BY <1>4 DEF Scc
    <2>1. Reach(W, D, u, v)
        BY DEF Scc
    <2>2. v \in O
        BY <1>2, <1>4, <2>1, ReachStays
    <2> QED
        BY <1>4, <2>2
<1>6. \A v \in R : Scc(R, E, v) = Scc(W, D, v)
    BY <1>1, <1>4, <1>5 DEF Scc
<1>7. Components(R, E, R) = Components(W, D, W)
    <2>1. {u \in R : Cardinality(Scc(R, E, u)) > 1} = {u \in W : Cardinality(Scc(W, D, u)) > 1}
        BY <1>3, <1>4, <1>6
    <2> QED
        BY <1>6, <2>1 DEF Components
<1> QED
    BY <1>7 DEF W, D, R, E

\* analyzeDependencies: the order, and the groups reported as circular.
LEMMA AnalysisSound ==
    ASSUME NEW U, NEW tables \in Seq(U), NEW fks, IsInjective(tables)
    PROVE  LET dep == AnalyzeDependencies(tables, fks)
           IN /\ dep.order \in Seq(U) /\ IsInjective(dep.order) /\ ParentsFirstIn(dep.order, tables, fks)
              /\ dep.circular = Components(Range(tables), Refs(tables, fks), Range(tables))
              /\ dep.parents = [t \in Range(tables) |-> Deps(t, tables, fks)]
<1> DEFINE order == Sorted(tables, fks)
           rest == Filter(tables, Range(tables) \ Range(order))
           dep == AnalyzeDependencies(tables, fks)
<1>1. order \in Seq(U) /\ RoundInv(Len(tables), order, tables, fks)
    BY SortedInv
<1>2. dep.order = order \o rest /\ dep.circular = FindCycles(rest, fks)
      /\ dep.parents = [t \in Range(tables) |-> Deps(t, tables, fks)]
    BY DEF AnalyzeDependencies
<1> HIDE DEF order, dep
<1>3. rest \in Seq(U) /\ Range(rest) = Range(tables) \ Range(order) /\ IsInjective(rest)
    <2> DEFINE keep == Range(tables) \ Range(order)
    <2>1. Range(tables) \cap keep = keep
        OBVIOUS
    <2> HIDE DEF keep
    <2>2. Filter(tables, keep) \in Seq(U) /\ Range(Filter(tables, keep)) = Range(tables) \cap keep
          /\ IsInjective(Filter(tables, keep))
        BY FilterFacts
    <2> QED
        BY <2>1, <2>2 DEF keep
<1>4. order \o rest \in Seq(U) /\ IsInjective(order \o rest) /\ ParentsFirstIn(order \o rest, tables, fks)
    BY <1>1, RoundsThenRest
<1> HIDE DEF rest
<1>5. FindCycles(rest, fks) = Components(Range(rest), Refs(rest, fks), Range(rest))
    BY <1>3, FoundCycles
<1>6. Components(Range(rest), Refs(rest, fks), Range(rest))
      = Components(Range(tables), Refs(tables, fks), Range(tables))
    <2>1. Range(order) \subseteq Range(tables) /\ Closed(order, tables, fks)
        BY <1>1 DEF RoundInv
    <2>2. Ordered(U, tables, fks, order, rest)
        BY <1>1, <1>3, <2>1 DEF Ordered
    <2> QED
        BY <2>2, GroupsLeft
<1> QED
    BY <1>2, <1>4, <1>5, <1>6 DEF dep

-----------------------------------------------------------------------------
(* The plan                                                                *)

\* Filter keeps the order of what it keeps.
LEMMA FilterOrder ==
    ASSUME NEW U, NEW s \in Seq(U), NEW keep, NEW a \in DOMAIN s, NEW b \in DOMAIN s, a < b, s[a] \in keep, s[b] \in keep
    PROVE  \E i, j \in DOMAIN Filter(s, keep) : i < j /\ Filter(s, keep)[i] = s[a] /\ Filter(s, keep)[j] = s[b]
<1> DEFINE N == Len(s)
<1>1. PICK kept \in [0..N -> Seq(U)] :
        /\ Filter(s, keep) = kept[N]
        /\ kept[0] = <<>>
        /\ \A n \in 1..N : kept[n] = IF s[n] \in keep THEN Append(kept[n - 1], s[n]) ELSE kept[n - 1]
    BY FilterSteps
<1> DEFINE Holds(n) == /\ a <= n => \E i \in DOMAIN kept[n] : kept[n][i] = s[a]
                       /\ b <= n => \E i, j \in DOMAIN kept[n] : i < j /\ kept[n][i] = s[a] /\ kept[n][j] = s[b]
           S == {n \in 0..N : Holds(n)}
<1>2. N \in Nat /\ DOMAIN s = 1..N /\ a \in 1..N /\ b \in 1..N
    OBVIOUS
<1>3. 0 \in S
    BY <1>2
<1>4. ASSUME NEW n \in 0..N, n \in S /\ n < N PROVE n + 1 \in S
    <2> DEFINE q == kept[n]
               r == kept[n + 1]
               e == s[n + 1]
    <2>1. n \in Nat /\ n + 1 \in 1..N /\ (n + 1) - 1 = n /\ n + 1 \in 0..N /\ q \in Seq(U)
        <3> HIDE DEF S, N
        <3>1. n \in Nat /\ n + 1 \in 1..N /\ (n + 1) - 1 = n /\ n + 1 \in 0..N
            BY <1>2, <1>4
        <3>2. q \in Seq(U)
            BY <1>1
        <3> QED
            BY <3>1, <3>2
    <2>2. r = IF e \in keep THEN Append(q, e) ELSE q
        BY <1>1, <2>1
    <2>3. /\ a <= n => \E i \in DOMAIN q : q[i] = s[a]
          /\ b <= n => \E i, j \in DOMAIN q : i < j /\ q[i] = s[a] /\ q[j] = s[b]
        BY <1>4
    <2>4. /\ a <= n + 1 => a <= n \/ a = n + 1
          /\ b <= n + 1 => b <= n \/ b = n + 1
          /\ b = n + 1 => a <= n
        BY <1>2, <2>1
    <2>5. CASE e \notin keep
        <3>1. r = q /\ a # n + 1 /\ b # n + 1
            BY <2>2, <2>5
        <3>2. Holds(n + 1)
            BY <2>3, <2>4, <3>1
        <3> QED
            BY <2>1, <3>2
    <2>6. CASE e \in keep
        <3> HIDE DEF q, r
        <3>1. r = Append(q, e)
            BY <2>2, <2>6
        <3>2. DOMAIN r = DOMAIN q \cup {Len(q) + 1} /\ DOMAIN q = 1..Len(q) /\ Len(q) \in Nat
            BY <2>1, <3>1
        <3>3. r[Len(q) + 1] = e /\ \A i \in DOMAIN q : r[i] = q[i]
            BY <2>1, <3>1
        <3>4. a <= n + 1 => \E i \in DOMAIN r : r[i] = s[a]
            BY <2>3, <2>4, <3>2, <3>3
        <3>5. ASSUME b <= n + 1 PROVE \E i, j \in DOMAIN r : i < j /\ r[i] = s[a] /\ r[j] = s[b]
            <4>1. CASE b <= n
                BY <2>3, <3>2, <3>3, <4>1
            <4>2. CASE b = n + 1
                <5>1. PICK i \in DOMAIN q : q[i] = s[a]
                    BY <2>3, <2>4, <4>2
                <5>2. i \in DOMAIN r /\ Len(q) + 1 \in DOMAIN r /\ i < Len(q) + 1 /\ r[i] = s[a] /\ r[Len(q) + 1] = s[b]
                    BY <3>2, <3>3, <4>2, <5>1
                <5> QED
                    BY <5>2
            <4> QED
                BY <2>4, <3>5, <4>1, <4>2
        <3> QED
            BY <2>1, <3>4, <3>5 DEF r
    <2> QED
        BY <2>5, <2>6
<1>5. 0..N \subseteq S
    <2> HIDE DEF S, N
    <2> QED
        BY <1>2, <1>3, <1>4, Counting
<1>6. N \in S
    <2>1. N \in 0..N
        BY <1>2
    <2> HIDE DEF S, N
    <2> QED
        BY <1>5, <2>1
<1>7. b <= N
    BY <1>2
<1> QED
    BY <1>1, <1>6, <1>7

\* The function of FlattenSeq.
LEMMA FlattenSteps ==
    ASSUME NEW U, NEW s \in Seq(Seq(U))
    PROVE  \E f \in [0..Len(s) -> Seq(U)] :
              FlattenSeq(s) = f[Len(s)] /\ f[0] = <<>> /\ \A n \in 1..Len(s) : f[n] = f[n - 1] \o s[n]
<1> DEFINE N == Len(s)
           T == Seq(U)
           none == <<>>
           Steps(f) == [i \in 1..N |-> IF i = 1 THEN s[i] ELSE f[i - 1] \o s[i]]
           c == CHOOSE f : f = Steps(f)
           G == [n \in Nat |-> [q \in T |-> IF n \in 1..N THEN q \o s[n] ELSE q]]
<1>1. N \in Nat /\ none \in T /\ \A n \in 1..N : s[n] \in T
    OBVIOUS
<1>2. N # 0 => FlattenSeq(s) = c[N]
    BY DEF FlattenSeq
<1>3. N = 0 => FlattenSeq(s) = none
    BY DEF FlattenSeq
<1>4. \A n \in 1..N, q \in T : q \o s[n] \in T /\ none \o s[n] = s[n]
    <2> TAKE n \in 1..N, q \in T
    <2>1. s[n] \in Seq(U)
        OBVIOUS
    <2> QED
        BY <2>1
<1> HIDE DEF N, T, none
<1>5. G \in [Nat -> [T -> T]]
    BY <1>4
<1>6. PICK f \in [0..N -> T] : f[0] = none /\ \A n \in 1..N : f[n] = G[n][f[n - 1]]
    <2> HIDE DEF G
    <2>1. Iterates(N, T, none, G)
        BY <1>1, <1>5, Iteration
    <2> QED
        BY <2>1 DEF Iterates
<1>7. \A n \in 1..N : f[n] = f[n - 1] \o s[n]
    <2> TAKE n \in 1..N
    <2>1. n \in Nat /\ f[n - 1] \in T
        BY <1>1, <1>6
    <2> QED
        BY <1>6, <2>1
<1> DEFINE g == [i \in 1..N |-> f[i]]
<1>8. \A i \in 1..N : g[i] = IF i = 1 THEN s[i] ELSE g[i - 1] \o s[i]
    <2> TAKE i \in 1..N
    <2>1. CASE i = 1
        <3>1. f[1] = f[0] \o s[1]
            <4>1. 1 \in 1..N /\ 1 - 1 = 0
                BY <2>1
            <4>2. f[1] = f[1 - 1] \o s[1]
                BY <1>7, <4>1
            <4> QED
                BY <4>1, <4>2
        <3>2. none \o s[1] = s[1]
            BY <1>1, <1>4, <2>1
        <3> QED
            BY <1>6, <2>1, <3>1, <3>2
    <2>2. CASE i # 1
        <3>1. i - 1 \in 1..N
            BY <1>1, <2>2
        <3> QED
            BY <1>7, <2>2, <3>1
    <2> QED
        BY <2>1, <2>2
<1>9. g = [i \in 1..N |-> g[i]]
    OBVIOUS
<1>10. g = Steps(g)
    <2> HIDE DEF g
    <2> QED
        BY <1>8, <1>9
<1>11. c = Steps(c)
    <2> HIDE DEF Steps, g
    <2> QED
        BY <1>10
<1> HIDE DEF c
<1>12. \A i \in 1..N : c[i] = IF i = 1 THEN s[i] ELSE c[i - 1] \o s[i]
    BY <1>11
<1> DEFINE S == {n \in 0..N : n = 0 \/ c[n] = f[n]}
<1> HIDE DEF g, G
<1>13. 0 \in S
    BY <1>1
<1>14. ASSUME NEW n \in 0..N, n \in S /\ n < N PROVE n + 1 \in S
    <2>1. n + 1 \in 1..N /\ (n + 1) - 1 = n /\ n + 1 \in 0..N
        BY <1>1, <1>14
    <2>2. f[n + 1] = f[n] \o s[n + 1]
        BY <1>7, <2>1
    <2>3. CASE n = 0
        <3>1. c[n + 1] = s[n + 1]
            BY <1>12, <2>1, <2>3
        <3>2. f[n + 1] = s[n + 1]
            BY <1>1, <1>4, <1>6, <2>1, <2>2, <2>3
        <3> QED
            BY <2>1, <3>1, <3>2
    <2>4. CASE n # 0
        <3>1. n + 1 # 1 /\ c[n] = f[n]
            BY <1>14, <2>1, <2>4
        <3> QED
            BY <1>12, <2>1, <2>2, <3>1
    <2> QED
        BY <2>3, <2>4
<1>15. 0..N \subseteq S
    <2> HIDE DEF S
    <2> QED
        BY <1>1, <1>13, <1>14, Counting
<1>16. FlattenSeq(s) = f[N]
    <2>1. CASE N = 0
        BY <1>3, <1>6, <2>1
    <2>2. CASE N # 0
        <3>1. N \in S
            BY <1>1, <1>15
        <3> QED
            BY <1>2, <2>2, <3>1
    <2> QED
        BY <2>1, <2>2
<1> QED
    BY <1>6, <1>7, <1>16 DEF N, T, none

LEMMA FlattenAppend ==
    ASSUME NEW U, NEW s \in Seq(Seq(U)), NEW x \in Seq(U)
    PROVE  FlattenSeq(s) \in Seq(U) /\ FlattenSeq(Append(s, x)) = FlattenSeq(s) \o x
<1> DEFINE N == Len(s)
           r == Append(s, x)
<1>1. N \in Nat /\ r \in Seq(Seq(U)) /\ Len(r) = N + 1 /\ r[N + 1] = x /\ \A n \in 1..N : r[n] = s[n]
    OBVIOUS
<1>2. PICK f \in [0..N -> Seq(U)] :
        FlattenSeq(s) = f[N] /\ f[0] = <<>> /\ \A n \in 1..N : f[n] = f[n - 1] \o s[n]
    BY FlattenSteps
<1> HIDE DEF r
<1>3. PICK g \in [0..Len(r) -> Seq(U)] :
        FlattenSeq(r) = g[Len(r)] /\ g[0] = <<>> /\ \A n \in 1..Len(r) : g[n] = g[n - 1] \o r[n]
    BY <1>1, FlattenSteps
<1> DEFINE S == {n \in 0..N : g[n] = f[n]}
<1> HIDE DEF N
<1>4. 0 \in S
    BY <1>1, <1>2, <1>3
<1>5. ASSUME NEW n \in 0..N, n \in S /\ n < N PROVE n + 1 \in S
    <2>1. n + 1 \in 1..N /\ (n + 1) - 1 = n /\ n + 1 \in 0..N /\ n + 1 \in 1..Len(r)
        BY <1>1, <1>5
    <2> QED
        BY <1>1, <1>2, <1>3, <1>5, <2>1
<1>6. 0..N \subseteq S
    <2> HIDE DEF S
    <2> QED
        BY <1>1, <1>4, <1>5, Counting
<1>7. g[N] = f[N] /\ f[N] \in Seq(U)
    BY <1>1, <1>2, <1>6
<1>8. g[N + 1] = g[N] \o x
    <2>1. N + 1 \in 1..Len(r) /\ (N + 1) - 1 = N
        BY <1>1
    <2> QED
        BY <1>1, <1>3, <2>1
<1> QED
    BY <1>1, <1>2, <1>3, <1>7, <1>8 DEF r

\* What a plan migrates, in order.
Moved(step) == IF step.action = "migrate" THEN step.tables ELSE <<>>
Moves(plan) == FlattenSeq([i \in DOMAIN plan |-> Moved(plan[i])])

LEMMA MovesNone == Moves(<<>>) = <<>>
<1>1. [i \in DOMAIN <<>> |-> Moved(<<>>[i])] = <<>>
    OBVIOUS
<1> QED
    BY <1>1 DEF Moves, FlattenSeq

LEMMA MovesOne ==
    ASSUME NEW U, NEW T, \A x \in T : Moved(x) \in Seq(U), NEW plan \in Seq(T), NEW step \in T
    PROVE  Moves(plan) \in Seq(U) /\ Moves(Append(plan, step)) = Moves(plan) \o Moved(step)
<1> DEFINE s == [i \in DOMAIN plan |-> Moved(plan[i])]
           x == Moved(step)
           p == Append(plan, step)
<1>1. s \in Seq(Seq(U)) /\ x \in Seq(U)
    <2>1. DOMAIN plan = 1..Len(plan) /\ Len(plan) \in Nat /\ \A i \in 1..Len(plan) : plan[i] \in T
        OBVIOUS
    <2> QED
        BY <2>1
<1>2. [i \in DOMAIN p |-> Moved(p[i])] = Append(s, x)
    <2>1. p \in Seq(T) /\ Len(p) = Len(plan) + 1 /\ p[Len(plan) + 1] = step /\ \A i \in 1..Len(plan) : p[i] = plan[i]
        OBVIOUS
    <2>2. DOMAIN p = 1..(Len(plan) + 1) /\ DOMAIN plan = 1..Len(plan) /\ Len(plan) \in Nat
        BY <2>1
    <2>3. Len(s) = Len(plan) /\ \A i \in 1..Len(plan) : s[i] = Moved(plan[i])
        BY <2>2
    <2> HIDE DEF p, s, x
    <2>4. Append(s, x) = [i \in 1..(Len(plan) + 1) |-> IF i = Len(plan) + 1 THEN x ELSE s[i]]
        <3> DEFINE r == Append(s, x)
        <3>1. r \in Seq(Seq(U)) /\ Len(r) = Len(s) + 1 /\ r[Len(s) + 1] = x /\ \A i \in 1..Len(s) : r[i] = s[i]
            BY <1>1
        <3> HIDE DEF r
        <3>2. DOMAIN r = 1..(Len(plan) + 1)
            BY <2>3, <3>1
        <3>3. r = [i \in 1..(Len(plan) + 1) |-> r[i]]
            BY <3>1, <3>2
        <3>4. \A i \in 1..(Len(plan) + 1) : i = Len(plan) + 1 \/ i \in 1..Len(s)
            BY <2>2, <2>3
        <3>5. \A i \in 1..(Len(plan) + 1) : r[i] = IF i = Len(plan) + 1 THEN x ELSE s[i]
            <4>1. \A i \in 1..Len(s) : i # Len(plan) + 1
                BY <2>2, <2>3
            <4> QED
                BY <2>3, <3>1, <3>4, <4>1
        <3> QED
            BY <3>3, <3>5 DEF r
    <2>5. \A i \in 1..(Len(plan) + 1) : Moved(p[i]) = IF i = Len(plan) + 1 THEN x ELSE s[i]
        <3> TAKE i \in 1..(Len(plan) + 1)
        <3>1. CASE i = Len(plan) + 1
            BY <2>1, <3>1 DEF x
        <3>2. CASE i # Len(plan) + 1
            <4>1. i \in 1..Len(plan)
                BY <2>2, <3>2
            <4> QED
                BY <2>1, <2>2, <2>3, <3>2, <4>1
        <3> QED
            BY <3>1, <3>2
    <2> QED
        BY <2>2, <2>4, <2>5
<1> HIDE DEF s, x, p
<1>3. FlattenSeq(s) \in Seq(U) /\ FlattenSeq(Append(s, x)) = FlattenSeq(s) \o x
    BY <1>1, FlattenAppend
<1> QED
    BY <1>2, <1>3 DEF Moves, s, x, p

\* The tables that refer to none, then the others, as they are ordered.
LEMMA PartsSound ==
    ASSUME NEW U, NEW tables \in Seq(U), NEW fks, IsInjective(tables),
           NEW order \in Seq(U), IsInjective(order), ParentsFirstIn(order, tables, fks)
    PROVE  LET parents == Filter(order, {t \in Range(order) : Deps(t, tables, fks) = {}})
               children == Filter(order, {t \in Range(order) : Deps(t, tables, fks) # {}})
           IN parents \in Seq(U) /\ children \in Seq(U) /\ ParentsFirstIn(parents \o children, tables, fks)
<1> DEFINE none == {t \in Range(order) : Deps(t, tables, fks) = {}}
           some == {t \in Range(order) : Deps(t, tables, fks) # {}}
           parents == Filter(order, none)
           children == Filter(order, some)
           whole == parents \o children
<1>1. /\ none \cup some = Range(order) /\ none \cap some = {}
      /\ Range(order) \cap none = none /\ Range(order) \cap some = some
      /\ \A t \in Range(order) : t \in none <=> Deps(t, tables, fks) = {}
    OBVIOUS
<1>2. Range(order) = Range(tables) /\ Len(order) = Len(tables)
      /\ \A t \in Range(tables) : ~Stuck(t, tables, fks) =>
            \A p \in Deps(t, tables, fks) : Position(p, order) < Position(t, order)
    BY DEF ParentsFirstIn
<1>3. \A t \in Range(tables) : Deps(t, tables, fks) \subseteq Range(tables)
    BY DEF Deps
<1> HIDE DEF none, some
<1>4. /\ parents \in Seq(U) /\ Range(parents) = none /\ IsInjective(parents)
      /\ children \in Seq(U) /\ Range(children) = some /\ IsInjective(children)
    <2>1. \A keep : /\ Filter(order, keep) \in Seq(U) /\ Range(Filter(order, keep)) = Range(order) \cap keep
                    /\ IsInjective(Filter(order, keep))
        BY FilterFacts
    <2> QED
        BY <1>1, <2>1
<1>5. \A a, b \in DOMAIN order : a < b /\ order[a] \in some /\ order[b] \in some =>
        \E i, j \in DOMAIN children : i < j /\ children[i] = order[a] /\ children[j] = order[b]
    BY FilterOrder
<1> HIDE DEF parents, children
<1>6. /\ whole \in Seq(U) /\ Len(whole) = Len(parents) + Len(children)
      /\ \A i \in 1..Len(parents) : whole[i] = parents[i]
      /\ \A i \in 1..Len(children) : whole[Len(parents) + i] = children[i]
      /\ Range(whole) = none \cup some
      /\ IsInjective(whole)
    BY <1>1, <1>4, Concatenated
<1> HIDE DEF whole
<1>7. DOMAIN parents = 1..Len(parents) /\ DOMAIN children = 1..Len(children) /\ Len(parents) \in Nat /\ Len(children) \in Nat
      /\ DOMAIN whole = 1..(Len(parents) + Len(children))
    BY <1>4, <1>6
<1>8. Len(whole) = Len(tables)
    <2>1. Cardinality(Range(whole)) = Len(whole)
        BY <1>6, AsLong
    <2>2. Cardinality(Range(tables)) = Len(tables)
        BY AsLong
    <2> QED
        BY <1>1, <1>2, <1>6, <2>1, <2>2
<1>9. \A i \in DOMAIN whole : Position(whole[i], whole) = i
    BY <1>6 DEF Position, IsInjective
<1>10. \A i \in DOMAIN order : Position(order[i], order) = i
    BY DEF Position, IsInjective
<1>11. ASSUME NEW t \in Range(tables), ~Stuck(t, tables, fks), NEW p \in Deps(t, tables, fks)
       PROVE  Position(p, whole) < Position(t, whole)
    <2>1. t \in some /\ p \in Range(order)
        BY <1>1, <1>2, <1>3, <1>11
    <2>2. CASE p \in none
        <3>1. PICK i \in DOMAIN parents : parents[i] = p
            BY <1>4, <2>2 DEF Range
        <3>2. PICK j \in DOMAIN children : children[j] = t
            BY <1>4, <2>1 DEF Range
        <3>3. whole[i] = p /\ whole[Len(parents) + j] = t /\ i \in DOMAIN whole /\ Len(parents) + j \in DOMAIN whole
              /\ i < Len(parents) + j
            BY <1>6, <1>7, <3>1, <3>2
        <3>4. Position(p, whole) = i /\ Position(t, whole) = Len(parents) + j
            BY <1>9, <3>3
        <3> QED
            BY <3>3, <3>4
    <2>3. CASE p \in some
        <3>1. PICK a \in DOMAIN order : order[a] = p
            BY <2>1 DEF Range
        <3>2. PICK b \in DOMAIN order : order[b] = t
            BY <1>2 DEF Range
        <3>3. a < b
            BY <1>2, <1>10, <1>11, <3>1, <3>2
        <3>4. PICK i \in DOMAIN children, j \in DOMAIN children : i < j /\ children[i] = p /\ children[j] = t
            BY <1>5, <2>1, <2>3, <3>1, <3>2, <3>3
        <3>5. /\ whole[Len(parents) + i] = p /\ whole[Len(parents) + j] = t
              /\ Len(parents) + i \in DOMAIN whole /\ Len(parents) + j \in DOMAIN whole
              /\ Len(parents) + i < Len(parents) + j
            BY <1>6, <1>7, <3>4
        <3>6. Position(p, whole) = Len(parents) + i /\ Position(t, whole) = Len(parents) + j
            BY <1>9, <3>5
        <3> QED
            BY <3>5, <3>6
    <2> QED
        BY <1>1, <2>1, <2>2, <2>3
<1>12. ParentsFirstIn(whole, tables, fks)
    BY <1>1, <1>2, <1>6, <1>8, <1>11 DEF ParentsFirstIn
<1> QED
    BY <1>4, <1>12 DEF none, some, parents, children, whole

-----------------------------------------------------------------------------
(* Types                                                                   *)

\* A change within an order is an error if it goes down.
LEMMA OrderedChangeFacts ==
    ASSUME NEW s, NEW t, NEW sizes, NEW name, OrderedChange(s, t, sizes, name).sev # "ERROR"
    PROVE  ~(Rank(t, sizes) < Rank(s, sizes))
<1>1. \A code : Verdict("ERROR", code).sev = "ERROR"
    BY DEF Verdict
<1> QED
    BY <1>1 DEF OrderedChange

LEMMA IntRanks ==
    /\ Range(IntOrder) = {"tinyint", "smallint", "mediumint", "int", "integer", "bigint"}
    /\ Position("tinyint", IntOrder) = 1 /\ Position("smallint", IntOrder) = 2 /\ Position("mediumint", IntOrder) = 3
    /\ Position("int", IntOrder) = 4 /\ Position("integer", IntOrder) = 5 /\ Position("bigint", IntOrder) = 6
<1>1. DOMAIN IntOrder = 1..6
    BY DEF IntOrder
<1>2. Range(IntOrder) = {"tinyint", "smallint", "mediumint", "int", "integer", "bigint"}
    BY <1>1 DEF IntOrder, Range
<1>3. \A n \in 1..6 : Position(IntOrder[n], IntOrder) = n
    BY <1>1 DEF IntOrder, Position
<1> QED
    BY <1>2, <1>3 DEF IntOrder

LEMMA TextRanks ==
    /\ Range(TextOrder) = {"tinytext", "text", "mediumtext", "longtext"}
    /\ Position("tinytext", TextOrder) = 1 /\ Position("text", TextOrder) = 2
    /\ Position("mediumtext", TextOrder) = 3 /\ Position("longtext", TextOrder) = 4
<1>1. DOMAIN TextOrder = 1..4
    BY DEF TextOrder
<1>2. Range(TextOrder) = {"tinytext", "text", "mediumtext", "longtext"}
    BY <1>1 DEF TextOrder, Range
<1>3. \A n \in 1..4 : Position(TextOrder[n], TextOrder) = n
    BY <1>1 DEF TextOrder, Position
<1> QED
    BY <1>2, <1>3 DEF TextOrder

LEMMA BlobRanks ==
    /\ Range(BlobOrder) = {"tinyblob", "blob", "mediumblob", "longblob"}
    /\ Position("tinyblob", BlobOrder) = 1 /\ Position("blob", BlobOrder) = 2
    /\ Position("mediumblob", BlobOrder) = 3 /\ Position("longblob", BlobOrder) = 4
<1>1. DOMAIN BlobOrder = 1..4
    BY DEF BlobOrder
<1>2. Range(BlobOrder) = {"tinyblob", "blob", "mediumblob", "longblob"}
    BY <1>1 DEF BlobOrder, Range
<1>3. \A n \in 1..4 : Position(BlobOrder[n], BlobOrder) = n
    BY <1>1 DEF BlobOrder, Position
<1> QED
    BY <1>2, <1>3 DEF BlobOrder

\* A type that counts as no error for the integers has no smaller limit.
LEMMA WidthsGrow ==
    ASSUME NEW s, NEW t, s.base \in Range(IntOrder), t.base \in Range(IntOrder), ~(Rank(t, IntOrder) < Rank(s, IntOrder))
    PROVE  Width(s.base) \in Nat /\ Width(t.base) \in Nat /\ Width(s.base) <= Width(t.base)
BY IntRanks DEF Width, Rank

\* The changes of type that count as no error.
Grows(s, t, family, order) == In(s, t, family) /\ ~(Rank(t, order) < Rank(s, order))
DecimalGrows(s, t) == In(s, t, DecimalFamily) /\ ~(t.prec - t.scale < s.prec - s.scale) /\ ~(t.scale < s.scale)
Allowed(s, t) ==
    \/ s = t
    \/ In(s, t, CharFamily) /\ ~(t.len < s.len)
    \/ s.base \in CharFamily /\ t.base \in Range(TextOrder)
    \/ Grows(s, t, Range(TextOrder), TextOrder)
    \/ Grows(s, t, Range(IntOrder), IntOrder)
    \/ DecimalGrows(s, t)
    \/ In(s, t, {"enum"}) /\ s.enum \subseteq t.enum
    \/ Grows(s, t, Range(BlobOrder), BlobOrder)
    \/ s.base \in Range(IntOrder) \cup DecimalFamily /\ t.base \in CharFamily \cup Range(TextOrder)

LEMMA ChangeFacts ==
    ASSUME NEW s, NEW t, ClassifyTypeChange(s, t).sev # "ERROR"
    PROVE  Allowed(s, t)
<1> DEFINE verdict == ClassifyTypeChange(s, t)
<1>1. \A sev, code : Verdict(sev, code).sev = sev
    BY DEF Verdict
<1>2. SUFFICES ASSUME s # t PROVE Allowed(s, t)
    BY DEF Allowed
<1>3. CASE In(s, t, CharFamily)
    <2>1. verdict = CharChange(s, t)
        BY <1>2, <1>3, TextRanks, IntRanks, BlobRanks DEF ClassifyTypeChange, In, CharFamily, DecimalFamily
    <2>2. ~(t.len < s.len)
        BY <1>1, <2>1 DEF CharChange
    <2> QED
        BY <1>3, <2>2 DEF Allowed
<1>4. CASE In(s, t, Range(TextOrder))
    <2>1. verdict = OrderedChange(s, t, TextOrder, "TEXT")
        BY <1>2, <1>4, TextRanks, IntRanks, BlobRanks DEF ClassifyTypeChange, In, CharFamily, DecimalFamily
    <2> QED
        BY <1>4, <2>1, OrderedChangeFacts DEF Allowed, Grows
<1>5. CASE In(s, t, Range(IntOrder))
    <2>1. verdict = IntChange(s, t)
        BY <1>2, <1>5, TextRanks, IntRanks, BlobRanks DEF ClassifyTypeChange, In, CharFamily, DecimalFamily
    <2>2. CASE s.base = t.base
        <3>1. Rank(t, IntOrder) = Rank(s, IntOrder) /\ Rank(t, IntOrder) \in Nat
            BY <1>5, <2>2, IntRanks DEF Rank, In
        <3> QED
            BY <1>5, <3>1 DEF Allowed, Grows
    <2>3. CASE s.base # t.base
        <3>1. verdict = OrderedChange(s, t, IntOrder, "INT")
            BY <2>1, <2>3 DEF IntChange
        <3> QED
            BY <1>5, <3>1, OrderedChangeFacts DEF Allowed, Grows
    <2> QED
        BY <2>2, <2>3
<1>6. CASE In(s, t, DecimalFamily)
    <2>1. verdict = DecimalChange(s, t)
        BY <1>2, <1>6, TextRanks, IntRanks, BlobRanks DEF ClassifyTypeChange, In, CharFamily, DecimalFamily
    <2>2. ~(t.prec - t.scale < s.prec - s.scale) /\ ~(t.scale < s.scale)
        BY <1>1, <2>1 DEF DecimalChange
    <2> QED
        BY <1>6, <2>2 DEF Allowed, DecimalGrows
<1>7. CASE In(s, t, {"enum"})
    <2>1. verdict = IF s.enum \subseteq t.enum THEN Verdict("INFO", "ENUM_OK") ELSE Verdict("ERROR", "ENUM_VALUE_MISSING")
        BY <1>2, <1>7, TextRanks, IntRanks, BlobRanks DEF ClassifyTypeChange, In, CharFamily, DecimalFamily
    <2>2. s.enum \subseteq t.enum
        BY <1>1, <2>1
    <2> QED
        BY <1>7, <2>2 DEF Allowed
<1>8. CASE In(s, t, Range(BlobOrder))
    <2>1. verdict = OrderedChange(s, t, BlobOrder, "BLOB")
        BY <1>2, <1>8, TextRanks, IntRanks, BlobRanks DEF ClassifyTypeChange, In, CharFamily, DecimalFamily
    <2> QED
        BY <1>8, <2>1, OrderedChangeFacts DEF Allowed, Grows
<1>9. ASSUME ~Allowed(s, t), ~In(s, t, CharFamily), ~In(s, t, Range(TextOrder)), ~In(s, t, Range(IntOrder)),
             ~In(s, t, DecimalFamily), ~In(s, t, {"enum"}), ~In(s, t, Range(BlobOrder))
      PROVE  FALSE
    <2>1. ~(s.base \in CharFamily /\ t.base \in Range(TextOrder))
          /\ ~(s.base \in Range(IntOrder) \cup DecimalFamily /\ t.base \in CharFamily \cup Range(TextOrder))
        BY <1>9 DEF Allowed
    <2>2. \/ verdict = Verdict("ERROR", "TYPE_FAMILY_CHANGE") \/ verdict = Verdict("ERROR", "TEXT_TO_VARCHAR")
        BY <1>2, <1>9, <2>1 DEF ClassifyTypeChange
    <2> QED
        BY <1>1, <2>2
<1> QED
    BY <1>3, <1>4, <1>5, <1>6, <1>7, <1>8, <1>9

LEMMA IntMaxFacts ==
    ASSUME NEW t, t.base \in Range(IntOrder), t.unsigned \in BOOLEAN
    PROVE  IntMax(t) = 2 * Width(t.base) + (IF t.unsigned THEN 2 ELSE 1) /\ IntMax(t) \in Nat
BY IntRanks DEF Width, IntMax

-----------------------------------------------------------------------------
(* The greatest of finitely many numbers                                   *)

\* A finite set of integers has a greatest one.
LEMMA MaxFacts ==
    ASSUME NEW S, IsFiniteSet(S), S \subseteq Int, S # {}
    PROVE  Max(S) \in S /\ \A x \in S : x <= Max(S)
<1>1. PICK n \in Nat : ExistsSurjection(1..n, S)
    BY FS_NatSurjection
<1>2. PICK f \in [1..n -> S] : \A x \in S : \E i \in 1..n : f[i] = x
    BY <1>1 DEF ExistsSurjection, Surjection
<1>3. n >= 1 /\ \A i \in 1..n : f[i] \in Int
    <2>1. PICK x \in S : TRUE
        OBVIOUS
    <2>2. PICK i \in 1..n : f[i] = x
        BY <1>2, <2>1
    <2>3. n >= 1
        BY <2>2
    <2>4. \A j \in 1..n : f[j] \in S
        BY <1>2
    <2> QED
        BY <2>3, <2>4
<1> DEFINE T == {k \in Nat : k = 0 \/ \E m \in 1..k : \A i \in 1..k : f[i] <= f[m]}
<1>4. 0 \in T
    OBVIOUS
<1>5. ASSUME NEW k \in 0..n, k \in T, k < n PROVE k + 1 \in T
    <2>1. k + 1 \in 1..n /\ f[k + 1] \in Int /\ \A i \in 1..n : f[i] \in Int
        BY <1>3, <1>5
    <2>2. CASE k = 0
        <3>1. f[1] <= f[1] /\ 1..(k + 1) = {1}
            BY <2>1, <2>2
        <3> QED
            BY <3>1, <2>2
    <2>3. CASE k # 0
        <3>1. PICK m \in 1..k : \A i \in 1..k : f[i] <= f[m]
            BY <1>5, <2>3
        <3>2. CASE f[k + 1] <= f[m]
            <4>1. \A i \in 1..(k + 1) : f[i] <= f[m]
                BY <3>1, <3>2
            <4> QED
                BY <4>1, <2>1
        <3>3. CASE ~(f[k + 1] <= f[m])
            <4>1. \A i \in 1..(k + 1) : f[i] <= f[k + 1]
                BY <2>1, <3>1, <3>3
            <4> QED
                BY <4>1, <2>1
        <3> QED
            BY <3>2, <3>3
    <2> QED
        BY <2>2, <2>3
<1>6. n \in T
    <2> HIDE DEF T
    <2>1. 0..n \subseteq T
        BY <1>4, <1>5, Counting
    <2> QED
        BY <2>1
<1>7. PICK m \in 1..n : \A i \in 1..n : f[i] <= f[m]
    BY <1>3, <1>6
<1>8. f[m] \in S /\ \A x \in S : f[m] >= x
    BY <1>2, <1>7
<1> QED
    BY <1>8 DEF Max

LEMMA GreatestOf ==
    ASSUME NEW V, IsFiniteSet(V), NEW h, \A v \in V : h[v] \in Int, V # {}
    PROVE  Max({h[v] : v \in V}) \in Int /\ \A v \in V : h[v] <= Max({h[w] : w \in V})
<1> DEFINE S == {h[v] : v \in V}
           f == [v \in V |-> h[v]]
<1>1. f \in Surjection(V, S)
    BY DEF Surjection
<1>2. S \subseteq Int /\ S # {} /\ \A v \in V : h[v] \in S
    OBVIOUS
<1> HIDE DEF S, f
<1>3. IsFiniteSet(S)
    BY <1>1, FS_Surjection
<1>4. Max(S) \in S /\ \A x \in S : x <= Max(S)
    BY <1>2, <1>3, MaxFacts
<1> QED
    BY <1>2, <1>4 DEF S
=============================================================================
