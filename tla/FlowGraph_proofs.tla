--------------------------- MODULE FlowGraph_proofs ---------------------------
(***************************************************************************)
(* Facts about the vocabulary of FlowGraph that the proofs about the       *)
(* builder and the passes rest on: reachability is the smallest closed     *)
(* set, and dominance is transitive, antisymmetric and passed on to        *)
(* predecessors.                                                           *)
(***************************************************************************)
EXTENDS FlowGraph, TLAPS, FiniteSetTheorems, WellFoundedInduction

(***************************************************************************)
(* Least and greatest numbers: induction, in a form without operators.     *)
(***************************************************************************)
\* Every set of natural numbers has a least element.
LEMMA Least ==
  ASSUME NEW S \in SUBSET Nat, S # {}
  PROVE  \E m \in S : \A n \in S : m <= n
<1> DEFINE T == {0 .. n : n \in S}
<1>1. T \subseteq FiniteSubsetsOf(Nat) /\ T # {}
  <2>1. \A n \in S : 0 .. n \in SUBSET Nat /\ IsFiniteSet(0 .. n)
    BY FS_Interval
  <2>. QED BY <2>1 DEF FiniteSubsetsOf
<1>2. PICK X \in T : \A Y \in T : ~(<<Y, X>> \in StrictSubsetOrdering(Nat))
  <2>1. IsWellFoundedOn(StrictSubsetOrdering(Nat), FiniteSubsetsOf(Nat))
    BY FS_StrictSubsetOrderingWellFounded
  <2>. HIDE DEF T
  <2>. QED BY <1>1, <2>1, WFMin
<1>3. PICK m \in S : X = 0 .. m
  OBVIOUS
<1>4. ASSUME NEW n \in S, n < m PROVE FALSE
  <2>1. 0 .. n \subseteq 0 .. m /\ 0 .. n \in SUBSET Nat /\ 0 .. m \in SUBSET Nat
    BY <1>4
  <2>2. m \in 0 .. m /\ m \notin 0 .. n
    BY <1>4
  <2>3. <<0 .. n, X>> \in StrictSubsetOrdering(Nat)
    BY <2>1, <2>2, <1>3 DEF StrictSubsetOrdering
  <2>. QED BY <2>3, <1>2
<1>. QED BY <1>4

\* A set of natural numbers that has a bound has a greatest element.
LEMMA Greatest ==
  ASSUME NEW S \in SUBSET Nat, S # {}, NEW b \in Nat, \A n \in S : n <= b
  PROVE  \E m \in S : \A n \in S : n <= m
<1> DEFINE T == {b - n : n \in S}
<1>1. T \in SUBSET Nat /\ T # {}
  <2>1. \A n \in S : b - n \in Nat
    OBVIOUS
  <2>2. \A x \in T : \E n \in S : x = b - n
    OBVIOUS
  <2>3. \E n \in S : b - n \in T
    OBVIOUS
  <2>. HIDE DEF T
  <2>. QED BY <2>1, <2>2, <2>3
<1>2. PICK x \in T : \A y \in T : x <= y
  <2>. HIDE DEF T
  <2>. QED BY <1>1, Least
<1>3. PICK m \in S : x = b - m
  OBVIOUS
<1>4. \A n \in S : b - m <= b - n
  BY <1>2, <1>3
<1>. QED BY <1>4

(***************************************************************************)
(* Reachable.                                                              *)
(***************************************************************************)
Spread(succs, R) == R \union UNION {succs[a] : a \in R}
Rounds(f, r, succs, n) ==
  f = [k \in 0 .. n |-> IF k = 0 THEN {r} ELSE Spread(succs, f[k - 1])]

\* The rounds of Reachable are a function.
LEMMA RoundsExist ==
  ASSUME NEW r, NEW succs, NEW n \in Nat
  PROVE  \E f : Rounds(f, r, succs, n)
<1> DEFINE Bad == {m \in Nat : ~ \E f : Rounds(f, r, succs, m)}
<1> SUFFICES ASSUME Bad # {} PROVE FALSE
  OBVIOUS
<1>1. PICK m \in Bad : \A l \in Bad : m <= l
  <2>1. Bad \in SUBSET Nat
    OBVIOUS
  <2>. HIDE DEF Bad
  <2>. QED BY <2>1, Least
<1>2. CASE m = 0
  <2>1. Rounds([k \in 0 .. 0 |-> {r}], r, succs, 0)
    BY DEF Rounds
  <2>. QED BY <1>2, <2>1
<1>3. CASE m # 0
  <2>1. m - 1 \in Nat /\ m - 1 \notin Bad
    BY <1>1, <1>3
  <2>2. PICK f : Rounds(f, r, succs, m - 1)
    BY <2>1
  <2> DEFINE g == [k \in 0 .. m |-> IF k = m THEN Spread(succs, f[m - 1]) ELSE f[k]]
             h == [k \in 0 .. m |-> IF k = 0 THEN {r} ELSE Spread(succs, g[k - 1])]
  <2>3. ASSUME NEW k \in 0 .. m PROVE g[k] = h[k]
    <3>1. CASE k = 0
      <4>1. f[0] = {r}
        BY <2>1, <2>2 DEF Rounds
      <4>. QED BY <3>1, <4>1, <1>3
    <3>2. CASE k = m
      <4>1. g[m] = Spread(succs, f[m - 1]) /\ h[m] = Spread(succs, g[m - 1]) /\ g[m - 1] = f[m - 1]
        BY <2>1, <1>3
      <4>. QED BY <3>2, <4>1
    <3>3. CASE k # 0 /\ k # m
      <4>1. k \in 0 .. m - 1 /\ k - 1 \in 0 .. m - 1
        BY <3>3, <1>1
      <4>2. f[k] = Spread(succs, f[k - 1])
        BY <4>1, <3>3, <2>2 DEF Rounds
      <4>3. g[k] = f[k] /\ g[k - 1] = f[k - 1] /\ h[k] = Spread(succs, g[k - 1])
        BY <4>1, <3>3
      <4>. QED BY <4>2, <4>3
    <3>. QED BY <3>1, <3>2, <3>3
  <2>4. g = h
    <3>1. g = [k \in 0 .. m |-> g[k]] /\ h = [k \in 0 .. m |-> h[k]]
      OBVIOUS
    <3>. HIDE DEF g, h
    <3>. QED BY <2>3, <3>1
  <2>5. Rounds(g, r, succs, m)
    <3>. HIDE DEF g
    <3>. QED BY <2>4 DEF Rounds
  <2>. QED BY <2>5
<1>. QED BY <1>2, <1>3

\* Reachable computes the smallest set of nodes that has r and is closed.
LEMMA ReachableLeast ==
  ASSUME NEW N, IsFiniteSet(N), NEW E, NEW r \in N
  PROVE  /\ Reachable(r, N, E) \subseteq N
         /\ r \in Reachable(r, N, E)
         /\ \A e \in E \intersect (N \X N) : e[1] \in Reachable(r, N, E) => e[2] \in Reachable(r, N, E)
         /\ \A S : (/\ r \in S
                    /\ \A e \in E \intersect (N \X N) : e[1] \in S => e[2] \in S)
                   => Reachable(r, N, E) \subseteq S
<1> DEFINE succs == [a \in N |-> {b \in N : <<a, b>> \in E}]
           n == Cardinality(N) - 1
<1>1. n \in Nat
  <2>1. Cardinality(N) \in Nat /\ Cardinality(N) # 0
    BY FS_CardinalityType, FS_EmptySet
  <2>. QED BY <2>1
<1>2. PICK f : Rounds(f, r, succs, n) /\ Reachable(r, N, E) = f[n]
  <2> DEFINE g == CHOOSE g : Rounds(g, r, succs, n)
  <2>1. Rounds(g, r, succs, n)
    BY <1>1, RoundsExist
  <2>2. Reachable(r, N, E) = g[n]
    BY DEF Reachable, Rounds, Spread
  <2>. QED BY <2>1, <2>2
<1>. HIDE DEF n
<1>3. f[0] = {r} /\ \A k \in 1 .. n : f[k] = Spread(succs, f[k - 1])
  <2>1. 0 \in 0 .. n /\ \A k \in 1 .. n : k \in 0 .. n /\ k # 0
    BY <1>1
  <2>2. \A k \in 0 .. n : f[k] = IF k = 0 THEN {r} ELSE Spread(succs, f[k - 1])
    BY <1>2 DEF Rounds
  <2>. QED BY <2>1, <2>2
<1>4. ASSUME NEW R \in SUBSET N
      PROVE  /\ R \subseteq Spread(succs, R) /\ Spread(succs, R) \subseteq N
             /\ \A e \in E \intersect (N \X N) : e[1] \in R => e[2] \in Spread(succs, R)
  <2>1. \A a \in N : succs[a] \subseteq N
    OBVIOUS
  <2>2. \A e \in E \intersect (N \X N) : e[2] \in succs[e[1]]
    OBVIOUS
  <2>. HIDE DEF succs
  <2>3. R \subseteq Spread(succs, R) /\ Spread(succs, R) \subseteq N
    BY <2>1 DEF Spread
  <2>4. \A e \in E \intersect (N \X N) : e[1] \in R => e[2] \in Spread(succs, R)
    BY <2>2 DEF Spread
  <2>. QED BY <2>3, <2>4
<1>5. \A k \in 0 .. n : f[k] \subseteq N /\ r \in f[k]
  <2> DEFINE Bad == {k \in 0 .. n : ~(f[k] \subseteq N /\ r \in f[k])}
  <2> SUFFICES ASSUME Bad # {} PROVE FALSE
    OBVIOUS
  <2>1. PICK m \in Bad : \A l \in Bad : m <= l
    <3>1. Bad \in SUBSET Nat
      OBVIOUS
    <3>. HIDE DEF Bad
    <3>. QED BY <3>1, Least
  <2>2. m # 0
    BY <2>1, <1>3
  <2>3. m \in 1 .. n /\ m - 1 \in 0 .. n /\ m - 1 \notin Bad
    BY <1>1, <2>1, <2>2
  <2>4. f[m - 1] \subseteq N /\ r \in f[m - 1]
    BY <2>3
  <2>5. f[m] \subseteq N /\ r \in f[m]
    <3>1. f[m] = Spread(succs, f[m - 1])
      BY <2>3, <1>3
    <3>2. f[m - 1] \subseteq f[m] /\ f[m] \subseteq N
      <4>1. f[m - 1] \in SUBSET N
        BY <2>4
      <4>. HIDE DEF succs
      <4>. QED BY <3>1, <4>1, <1>4
    <3>. QED BY <3>2, <2>4
  <2>. QED BY <2>1, <2>5
<1>6. \A S : (r \in S /\ \A e \in E \intersect (N \X N) : e[1] \in S => e[2] \in S) => f[n] \subseteq S
  <2> SUFFICES ASSUME NEW S, r \in S, \A e \in E \intersect (N \X N) : e[1] \in S => e[2] \in S
               PROVE  \A k \in 0 .. n : f[k] \subseteq S
    BY <1>1
  <2> DEFINE Bad == {k \in 0 .. n : ~(f[k] \subseteq S)}
  <2> SUFFICES ASSUME Bad # {} PROVE FALSE
    OBVIOUS
  <2>1. PICK m \in Bad : \A l \in Bad : m <= l
    <3>1. Bad \in SUBSET Nat
      OBVIOUS
    <3>. HIDE DEF Bad
    <3>. QED BY <3>1, Least
  <2>2. m # 0
    BY <2>1, <1>3
  <2>3. m \in 1 .. n /\ m - 1 \in 0 .. n /\ m - 1 \notin Bad
    BY <1>1, <2>1, <2>2
  <2>4. f[m - 1] \subseteq S /\ f[m - 1] \subseteq N
    BY <2>3, <1>5
  <2>5. \A a \in f[m - 1] : succs[a] \subseteq S
    BY <2>4
  <2>6. f[m] \subseteq S
    <3>1. f[m] = Spread(succs, f[m - 1])
      BY <2>3, <1>3
    <3>. HIDE DEF succs
    <3>. QED BY <3>1, <2>4, <2>5 DEF Spread
  <2>. QED BY <2>1, <2>6
\* A round that adds nothing has come to a closed set, and so have all later ones.
<1>7. \A k \in 0 .. n : Cardinality(f[k]) > k \/ Spread(succs, f[k]) = f[k]
  <2> DEFINE Bad == {k \in 0 .. n : ~(Cardinality(f[k]) > k \/ Spread(succs, f[k]) = f[k])}
  <2> SUFFICES ASSUME Bad # {} PROVE FALSE
    OBVIOUS
  <2>1. PICK m \in Bad : \A l \in Bad : m <= l
    <3>1. Bad \in SUBSET Nat
      OBVIOUS
    <3>. HIDE DEF Bad
    <3>. QED BY <3>1, Least
  <2>2. m # 0
    BY <2>1, <1>3, FS_Singleton
  <2>3. m \in 1 .. n /\ m - 1 \in 0 .. n /\ m - 1 \notin Bad
    BY <1>1, <2>1, <2>2
  <2>4. Cardinality(f[m - 1]) > m - 1 \/ Spread(succs, f[m - 1]) = f[m - 1]
    BY <2>3
  <2>5. f[m] = Spread(succs, f[m - 1]) /\ f[m] \in SUBSET N /\ f[m - 1] \in SUBSET f[m]
    BY <2>3, <1>3, <1>4, <1>5
  <2>6. CASE Spread(succs, f[m - 1]) = f[m - 1]
    BY <2>1, <2>5, <2>6
  <2>7. CASE Spread(succs, f[m - 1]) # f[m - 1] /\ Cardinality(f[m - 1]) > m - 1
    <3>1. IsFiniteSet(f[m])
      BY <2>5, FS_Subset
    <3>2. /\ Cardinality(f[m - 1]) <= Cardinality(f[m]) /\ Cardinality(f[m - 1]) # Cardinality(f[m])
          /\ IsFiniteSet(f[m - 1])
      BY <2>5, <2>7, <3>1, FS_Subset
    <3>3. Cardinality(f[m - 1]) \in Nat /\ Cardinality(f[m]) \in Nat
      BY <3>1, <3>2, FS_CardinalityType
    <3>4. Cardinality(f[m]) > m
      BY <2>3, <2>7, <3>2, <3>3
    <3>. QED BY <2>1, <3>4
  <2>. QED BY <2>4, <2>6, <2>7
<1>8. Spread(succs, f[n]) = f[n]
  <2>1. n \in 0 .. n /\ f[n] \in SUBSET N
    BY <1>1, <1>5
  <2>2. CASE Cardinality(f[n]) > n
    <3>1. IsFiniteSet(f[n]) /\ Cardinality(f[n]) <= Cardinality(N) /\ Cardinality(N) \in Nat
          /\ Cardinality(f[n]) \in Nat
      BY <2>1, FS_Subset, FS_CardinalityType
    <3>2. Cardinality(f[n]) = Cardinality(N)
      BY <2>2, <3>1 DEF n
    <3>3. f[n] = N
      BY <2>1, <3>2, FS_Subset
    <3>4. N \subseteq Spread(succs, N) /\ Spread(succs, N) \subseteq N
      BY <1>4
    <3>. QED BY <3>3, <3>4
  <2>. QED BY <2>1, <2>2, <1>7
<1>9. n \in 0 .. n /\ f[n] \in SUBSET N /\ r \in f[n]
  BY <1>1, <1>5
<1>10. \A e \in E \intersect (N \X N) : e[1] \in f[n] => e[2] \in f[n]
  BY <1>4, <1>8, <1>9
<1>. QED BY <1>2, <1>6, <1>9, <1>10

(***************************************************************************)
(* Dominance, by cuts: the blocks on the entry's side of d.                *)
(***************************************************************************)
\* Every edge out of S leads to S or to d: paths from r leave S at d only.
Cut(S, d, b, r, E) ==
  /\ r \in S /\ d \notin S /\ b \notin S
  /\ \A e \in E : e[1] \in S => e[2] \in S \/ e[2] = d

\* What is assumed of a function's graph: all nodes are reachable, and no edge
\* ends at the entry.
EntryGraph(r, N, E) ==
  /\ IsFiniteSet(N) /\ r \in N /\ E \in SUBSET (N \X N)
  /\ AllReachableFrom(r, N, N, E)
  /\ \A e \in E : e[2] # r

\* d dominates b exactly if a cut at d separates b from the entry.
LEMMA DominatesByCut ==
  ASSUME NEW N, IsFiniteSet(N), NEW E \in SUBSET (N \X N), NEW r \in N, NEW d \in N, NEW b \in N
  PROVE  Dominates(d, b, r, N, E) <=> d = b \/ d = r \/ \E S \in SUBSET N : Cut(S, d, b, r, E)
<1> DEFINE M == N \ {d}
           W == Without(E, d)
           R == Reachable(r, M, W)
<1>1. IsFiniteSet(M)
  BY FS_RemoveElement
<1>2. W \in SUBSET (N \X N) /\ \A e \in E : e \in W <=> e[1] # d /\ e[2] # d
  BY DEF Without
<1>3. ASSUME d # r
      PROVE  /\ R \subseteq M /\ r \in R
             /\ \A e \in W \intersect (M \X M) : e[1] \in R => e[2] \in R
             /\ \A S : (r \in S /\ \A e \in W \intersect (M \X M) : e[1] \in S => e[2] \in S) => R \subseteq S
  <2>1. r \in M
    BY <1>3
  <2>. HIDE DEF M, W
  <2>. QED BY <1>1, <2>1, ReachableLeast
<1>4. \A e \in E : e[1] # d /\ e[2] # d => e \in W \intersect (M \X M)
  BY <1>2
<1>. HIDE DEF R, W
<1>5. ASSUME d # b, d # r, b \notin R
      PROVE  Cut(R, d, b, r, E)
  BY <1>3, <1>4, <1>5 DEF Cut
<1>6. ASSUME d # b, d # r, NEW S \in SUBSET N, Cut(S, d, b, r, E)
      PROVE  b \notin R
  <2>1. \A e \in W \intersect (M \X M) : e \in E /\ e[2] # d
    BY <1>2 DEF Without, W
  <2>2. R \subseteq S
    BY <2>1, <1>3, <1>6 DEF Cut
  <2>. QED BY <2>2, <1>6 DEF Cut
<1>7. R \in SUBSET N \/ d = r
  BY <1>3
<1>. QED BY <1>5, <1>6, <1>7 DEF Dominates, R, W

\* A strict dominator of a node dominates its predecessors.
LEMMA DominatesPredecessor ==
  ASSUME NEW N, NEW E, NEW r, EntryGraph(r, N, E), NEW d \in N, NEW b \in N, NEW p \in N,
         Dominates(d, b, r, N, E), d # b, <<p, b>> \in E
  PROVE  Dominates(d, p, r, N, E)
<1>1. CASE d = r
  BY <1>1 DEF Dominates
<1>2. CASE d # r
  <2>1. PICK S \in SUBSET N : Cut(S, d, b, r, E)
    BY <1>2, DominatesByCut DEF EntryGraph
  <2>2. p \notin S
    BY <2>1 DEF Cut
  <2>3. Cut(S, d, p, r, E)
    BY <2>1, <2>2 DEF Cut
  <2>. QED BY <2>3, DominatesByCut DEF EntryGraph
<1>. QED BY <1>1, <1>2

\* The entry has no strict dominator.
LEMMA EntryDominated ==
  ASSUME NEW N, NEW E, NEW r, EntryGraph(r, N, E), NEW d \in N, Dominates(d, r, r, N, E)
  PROVE  d = r
<1>1. \A S : ~Cut(S, d, r, r, E)
  BY DEF Cut
<1>. QED BY <1>1, DominatesByCut DEF EntryGraph

\* Dominance is transitive.
LEMMA DominatesTransitive ==
  ASSUME NEW N, NEW E, NEW r, EntryGraph(r, N, E), NEW d \in N, NEW c \in N, NEW b \in N,
         Dominates(d, c, r, N, E), Dominates(c, b, r, N, E)
  PROVE  Dominates(d, b, r, N, E)
<1>1. CASE d = r \/ d = c \/ c = b
  BY <1>1 DEF Dominates
<1>2. CASE c = r
  BY <1>2, EntryDominated
<1>3. CASE d # r /\ d # c /\ c # b /\ c # r
  <2>1. PICK S \in SUBSET N : Cut(S, d, c, r, E)
    BY <1>3, DominatesByCut DEF EntryGraph
  <2>2. PICK T \in SUBSET N : Cut(T, c, b, r, E)
    BY <1>3, DominatesByCut DEF EntryGraph
  <2>3. Cut(S \intersect T, d, b, r, E)
    BY <2>1, <2>2 DEF Cut
  <2>. QED BY <2>3, DominatesByCut DEF EntryGraph
<1>. QED BY <1>1, <1>2, <1>3

\* Dominance is antisymmetric, as all nodes are reachable.
LEMMA DominatesAntisymmetric ==
  ASSUME NEW N, NEW E, NEW r, EntryGraph(r, N, E), NEW a \in N, NEW b \in N,
         Dominates(a, b, r, N, E), Dominates(b, a, r, N, E)
  PROVE  a = b
<1>1. CASE a = r \/ b = r
  BY <1>1, EntryDominated
<1>2. ASSUME a # b, a # r, b # r PROVE FALSE
  <2>1. PICK S \in SUBSET N : Cut(S, a, b, r, E)
    BY <1>2, DominatesByCut DEF EntryGraph
  <2>2. PICK T \in SUBSET N : Cut(T, b, a, r, E)
    BY <1>2, DominatesByCut DEF EntryGraph
  <2>3. r \in S \intersect T /\ Closed(S \intersect T, E) /\ a \notin S \intersect T
    BY <1>2, <2>1, <2>2 DEF Cut, Closed
  <2>4. N \subseteq S \intersect T
    BY <2>3 DEF EntryGraph, AllReachableFrom
  <2>. QED BY <2>3, <2>4
<1>. QED BY <1>1, <1>2

\* What dominates the only predecessor of a node dominates the node; the node
\* itself does not.
LEMMA OnlyPredecessor ==
  ASSUME NEW N, NEW E, NEW r, EntryGraph(r, N, E), NEW a \in N, NEW b \in N, NEW p \in N,
         <<p, b>> \in E, \A e \in E : e[2] = b => e[1] = p,
         Dominates(a, p, r, N, E)
  PROVE  a # b /\ Dominates(a, b, r, N, E)
<1>0. b # r
  BY DEF EntryGraph
<1>1. ASSUME NEW d \in N, Dominates(d, p, r, N, E)
      PROVE  Dominates(d, b, r, N, E)
  <2>1. CASE d = r \/ d = b
    BY <2>1 DEF Dominates
  <2>2. CASE d = p /\ d # r /\ d # b
    <3>1. Cut(N \ {d, b}, d, b, r, E)
      BY <2>2, <1>0 DEF Cut, EntryGraph
    <3>. QED BY <3>1, DominatesByCut DEF EntryGraph
  <2>3. CASE d # p /\ d # r /\ d # b
    <3>1. PICK S \in SUBSET N : Cut(S, d, p, r, E)
      BY <2>3, <1>1, DominatesByCut DEF EntryGraph
    <3>2. Cut(S \ {b}, d, b, r, E)
      BY <3>1, <1>0 DEF Cut
    <3>3. S \ {b} \in SUBSET N
      OBVIOUS
    <3>. QED BY <3>2, <3>3, DominatesByCut DEF EntryGraph
  <2>. QED BY <2>1, <2>2, <2>3
<1>2. p # b
  <2> SUFFICES ASSUME p = b PROVE FALSE
    OBVIOUS
  <2>1. r \in N \ {b} /\ Closed(N \ {b}, E)
    BY <1>0 DEF EntryGraph, Closed
  <2>2. N \subseteq N \ {b}
    BY <2>1 DEF EntryGraph, AllReachableFrom
  <2>. QED BY <2>2
<1>3. a # b
  <2> SUFFICES ASSUME a = b PROVE FALSE
    OBVIOUS
  <2>1. Dominates(p, p, r, N, E)
    BY DEF Dominates
  <2>2. Dominates(p, b, r, N, E)
    BY <2>1, <1>1
  <2>. QED BY <2>2, <1>2, DominatesAntisymmetric
<1>. QED BY <1>1, <1>3

\* Of two dominators of a node, one dominates the other.
LEMMA DominatorsComparable ==
  ASSUME NEW N, NEW E, NEW r, EntryGraph(r, N, E), NEW a \in N, NEW c \in N, NEW b \in N,
         Dominates(a, b, r, N, E), Dominates(c, b, r, N, E)
  PROVE  Dominates(a, c, r, N, E) \/ Dominates(c, a, r, N, E)
<1>1. CASE a = r \/ c = r \/ a = b \/ c = b \/ a = c
  BY <1>1 DEF Dominates
<1>2. ASSUME a # r, c # r, a # b, c # b, a # c,
             ~Dominates(a, c, r, N, E), ~Dominates(c, a, r, N, E)
      PROVE  FALSE
  <2>1. PICK S \in SUBSET N : Cut(S, a, b, r, E)
    BY <1>2, DominatesByCut DEF EntryGraph
  <2>2. PICK T \in SUBSET N : Cut(T, c, b, r, E)
    BY <1>2, DominatesByCut DEF EntryGraph
  <2>3. c \in S
    <3>1. ~Cut(S, a, c, r, E)
      BY <1>2, DominatesByCut DEF EntryGraph
    <3>. QED BY <2>1, <3>1 DEF Cut
  <2>4. a \in T
    <3>1. ~Cut(T, c, a, r, E)
      BY <1>2, DominatesByCut DEF EntryGraph
    <3>. QED BY <2>2, <3>1 DEF Cut
  <2>5. r \in S \union T /\ Closed(S \union T, E) /\ b \notin S \union T
    BY <2>1, <2>2, <2>3, <2>4 DEF Cut, Closed
  <2>. QED BY <2>5 DEF EntryGraph, AllReachableFrom
<1>. QED BY <1>1, <1>2

\* Below a strict dominator c of b, one of the nodes that c dominates
\* immediately dominates b: b lies below a child of c in the dominator tree.
LEMMA ChildBetween ==
  ASSUME NEW N, NEW E, NEW r, EntryGraph(r, N, E), NEW c \in N, NEW b \in N,
         Dominates(c, b, r, N, E), c # b
  PROVE  \E x \in N \ {r} : c \in ImmediateDominators(x, r, N, E) /\ Dominates(x, b, r, N, E)
<1> DEFINE X == {x \in N \ {c} : Dominates(c, x, r, N, E) /\ Dominates(x, b, r, N, E)}
           Above(x) == {y \in X : Dominates(y, x, r, N, E)}
           T == {Above(x) : x \in X}
<1>1. b \in X
  BY DEF Dominates
<1>2. PICK x \in X : \A y \in X : ~(<<Above(y), Above(x)>> \in StrictSubsetOrdering(N))
  <2>1. IsWellFoundedOn(StrictSubsetOrdering(N), FiniteSubsetsOf(N))
    BY FS_StrictSubsetOrderingWellFounded
  <2>2. T \subseteq FiniteSubsetsOf(N) /\ T # {}
    <3>1. \A A \in SUBSET N : IsFiniteSet(A)
      BY FS_Subset DEF EntryGraph
    <3>2. \A y \in X : Above(y) \in SUBSET N
      OBVIOUS
    <3>. HIDE DEF X, Above
    <3>. QED BY <1>1, <3>1, <3>2 DEF FiniteSubsetsOf
  <2>3. PICK A \in T : \A B \in T : ~(<<B, A>> \in StrictSubsetOrdering(N))
    <3>. HIDE DEF T
    <3>. QED BY <2>1, <2>2, WFMin
  <2>. QED BY <2>3
<1>3. \A y \in X : Dominates(y, x, r, N, E) => y = x
  <2>. SUFFICES ASSUME NEW y \in X, Dominates(y, x, r, N, E), y # x PROVE FALSE
    OBVIOUS
  <2>1. Above(y) \subseteq Above(x)
    BY DominatesTransitive
  <2>2. x \in Above(x) /\ x \notin Above(y)
    BY DominatesAntisymmetric DEF Dominates
  <2>3. <<Above(y), Above(x)>> \in StrictSubsetOrdering(N)
    <3>1. Above(y) \in SUBSET N /\ Above(x) \in SUBSET N
      OBVIOUS
    <3>. HIDE DEF Above, X
    <3>. QED BY <2>1, <2>2, <3>1 DEF StrictSubsetOrdering
  <2>. QED BY <1>2, <2>3
<1>4. x # r
  BY EntryDominated
<1>5. \A y \in N : StrictlyDominates(y, x, r, N, E) => Dominates(y, c, r, N, E)
  <2>. SUFFICES ASSUME NEW y \in N, y # x, Dominates(y, x, r, N, E), ~Dominates(y, c, r, N, E)
                PROVE  FALSE
    BY DEF StrictlyDominates
  <2>1. Dominates(c, y, r, N, E) /\ y # c
    BY DominatorsComparable DEF Dominates
  <2>2. Dominates(y, b, r, N, E)
    BY DominatesTransitive
  <2>. QED BY <1>3, <2>1, <2>2
<1>. QED BY <1>4, <1>5 DEF ImmediateDominators, StrictlyDominates

=============================================================================
