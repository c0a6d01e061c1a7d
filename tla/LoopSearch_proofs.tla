--------------------------- MODULE LoopSearch_proofs ---------------------------
(***************************************************************************)
(* LoopSearch finds the natural loops of any function that is Suitable: a  *)
(* finite one, whose lists agree, all blocks of which are reachable and    *)
(* whose loops have one entry each (reducible).  The theorems that state   *)
(* it of the passes are in Dominators_proofs.                              *)
(*                                                                         *)
(* 1. Natural loops: a header dominates its loop, which is entered at the  *)
(*    header only and leads back to it; two loops that share a header are  *)
(*    one, and a loop that has the header of another has all of it.        *)
(* 2. The graph that is left when headers are removed: each component of   *)
(*    it is the loop of one of its nodes, the one from which most blocks   *)
(*    are reached without edges back, and the base found for it is its     *)
(*    header.                                                              *)
(* 3. Tarjan's algorithm on what is left (TarjanInv): the stack has, in    *)
(*    the order of their numbers, the nodes that still lead to an open     *)
(*    call; what has left it is closed, and the components in it found.    *)
(* 4. The rounds (SearchInv): the loops whose headers are removed are      *)
(*    stored, innermost last, and the others are left whole.               *)
(* 5. What the invariant means: the properties of LoopSearch.              *)
(***************************************************************************)
EXTENDS LoopSearch, TLAPS, FlowGraph_proofs

\* What LoopSearch is run on.
Suitable ==
  /\ IsFiniteSet(Blocks) /\ Entry \in Blocks /\ NoBB \notin Blocks
  /\ FunctionGraph(func, Blocks, Entry)
  /\ Reducible(Entry, Blocks, CFG)

(***************************************************************************)
(* Natural loops of one graph.                                             *)
(***************************************************************************)
\* The laws of Reachable in a form for edges between nodes.
LEMMA ReachableLaws ==
  ASSUME NEW N, IsFiniteSet(N), NEW E \in SUBSET (N \X N), NEW a \in N
  PROVE  /\ a \in Reachable(a, N, E)
         /\ Reachable(a, N, E) \subseteq N
         /\ \A e \in E : e[1] \in Reachable(a, N, E) => e[2] \in Reachable(a, N, E)
         /\ \A S : a \in S /\ (\A e \in E : e[1] \in S => e[2] \in S) => Reachable(a, N, E) \subseteq S
         /\ \A b \in Reachable(a, N, E) : Reachable(b, N, E) \subseteq Reachable(a, N, E)
<1>1. E \intersect (N \X N) = E
  OBVIOUS
<1> DEFINE R(x) == Reachable(x, N, E)
<1>2. \A x \in N : /\ R(x) \subseteq N
                   /\ x \in R(x)
                   /\ \A e \in E : e[1] \in R(x) => e[2] \in R(x)
                   /\ \A S : (x \in S /\ \A e \in E : e[1] \in S => e[2] \in S) => R(x) \subseteq S
  BY <1>1, ReachableLeast
<1>. HIDE DEF R
<1>3. \A b \in R(a) : R(b) \subseteq R(a)
  <2>1. SUFFICES ASSUME NEW b \in R(a) PROVE R(b) \subseteq R(a)
    OBVIOUS
  <2>2. b \in N
    BY <1>2
  <2>. QED BY <1>2, <2>2
<1>. QED BY <1>2, <1>3 DEF R

\* A suitable function's edges lead nowhere but to its blocks, all reachable from
\* the entry, to which none leads.
LEMMA SuitableGraph ==
  ASSUME Suitable
  PROVE  EntryGraph(Entry, Blocks, CFG)
<1>1. AllReachableFrom(Entry, Blocks, Blocks, CFG)
  BY DEF Suitable, FunctionGraph, CFG, SuccsOf
<1>2. \A e \in CFG : e[2] # Entry
  <2>1. SUFFICES ASSUME NEW e \in CFG, e[2] = Entry PROVE FALSE
    OBVIOUS
  <2>2. e[1] \in Blocks /\ Entry \in Range(func.succ[e[1]])
    BY <2>1 DEF CFG, SuccsOf
  <2>3. e[1] \in Range(func.pre[Entry]) /\ func.pre[Entry] = <<>>
    BY <2>2 DEF Suitable, FunctionGraph
  <2>. QED BY <2>3 DEF Range
<1>. QED BY <1>1, <1>2 DEF EntryGraph, Suitable, CFG

\* The edges, by both lists.
LEMMA EdgesByLists ==
  ASSUME Suitable, NEW a \in Blocks, NEW b \in Blocks
  PROVE  /\ <<a, b>> \in CFG <=> b \in SuccsOf(func, a)
         /\ <<a, b>> \in CFG <=> a \in PrevsOf(func, b)
<1>1. <<a, b>> \in CFG <=> b \in SuccsOf(func, a)
  BY DEF CFG
<1>2. a \in Range(func.pre[b]) <=> b \in Range(func.succ[a])
  BY DEF Suitable, FunctionGraph
<1>. QED BY <1>1, <1>2 DEF SuccsOf, PrevsOf

\* The blocks b reaches without passing h.
Behind(h, b) == Reachable(b, Blocks \ {h}, Without(CFG, h))

\* Behind(h, b) is the smallest set with b closed under edges that avoid h.
LEMMA BehindLaws ==
  ASSUME Suitable, NEW h \in Blocks, NEW b \in Blocks \ {h}
  PROVE  /\ b \in Behind(h, b)
         /\ Behind(h, b) \subseteq Blocks \ {h}
         /\ \A e \in CFG : e[1] \in Behind(h, b) /\ e[2] # h => e[2] \in Behind(h, b)
         /\ \A S : b \in S /\ (\A e \in CFG : e[1] \in S /\ e[1] # h /\ e[2] # h => e[2] \in S)
                     => Behind(h, b) \subseteq S
         /\ \A c \in Behind(h, b) : Behind(h, c) \subseteq Behind(h, b)
<1> DEFINE N == Blocks \ {h}
           E == Without(CFG, h)
<1>1. IsFiniteSet(N)
  BY FS_RemoveElement DEF Suitable
<1>2. E \in SUBSET (N \X N) /\ \A e \in CFG : e[1] # h /\ e[2] # h <=> e \in E
  BY DEF Without, CFG
<1>3. \A e \in E : e \in CFG /\ e[1] # h /\ e[2] # h
  BY DEF Without
<1>. HIDE DEF N, E
<1>4. b \in N
  BY DEF N
<1>5. /\ b \in Reachable(b, N, E)
      /\ Reachable(b, N, E) \subseteq N
      /\ \A e \in E : e[1] \in Reachable(b, N, E) => e[2] \in Reachable(b, N, E)
      /\ \A S : b \in S /\ (\A e \in E : e[1] \in S => e[2] \in S) => Reachable(b, N, E) \subseteq S
      /\ \A c \in Reachable(b, N, E) : Reachable(c, N, E) \subseteq Reachable(b, N, E)
  BY <1>1, <1>2, <1>4, ReachableLaws
<1>6. \A c : Behind(h, c) = Reachable(c, N, E)
  BY DEF Behind, N, E
<1>7. N = Blocks \ {h}
  BY DEF N
<1>8. ASSUME NEW e \in CFG, e[1] \in Behind(h, b), e[2] # h
      PROVE  e[2] \in Behind(h, b)
  <2>1. e[1] # h
    BY <1>5, <1>6, <1>7, <1>8
  <2>2. e \in E
    BY <2>1, <1>2, <1>8
  <2>. QED BY <2>2, <1>5, <1>6, <1>8
<1>9. ASSUME NEW S, b \in S, \A e \in CFG : e[1] \in S /\ e[1] # h /\ e[2] # h => e[2] \in S
      PROVE  Behind(h, b) \subseteq S
  <2>1. \A e \in E : e[1] \in S => e[2] \in S
    BY <1>3, <1>9
  <2>. QED BY <2>1, <1>9, <1>5, <1>6
<1>10. /\ b \in Behind(h, b) /\ Behind(h, b) \subseteq Blocks \ {h}
       /\ \A c \in Behind(h, b) : Behind(h, c) \subseteq Behind(h, b)
  <2>1. b \in Behind(h, b) /\ Behind(h, b) \subseteq Blocks \ {h}
    BY <1>5, <1>6, <1>7
  <2>2. ASSUME NEW c \in Behind(h, b) PROVE Behind(h, c) \subseteq Behind(h, b)
    <3>1. c \in Reachable(b, N, E) /\ Behind(h, c) = Reachable(c, N, E) /\ Behind(h, b) = Reachable(b, N, E)
      BY <1>6, <2>2
    <3>. QED BY <3>1, <1>5
  <2>. QED BY <2>1, <2>2
<1>. QED BY <1>8, <1>9, <1>10

\* What is in a natural loop, by Behind.
LEMMA InLoop ==
  ASSUME NEW h
  PROVE  /\ h \in NaturalLoop(h)
         /\ \A b \in Blocks \ {h} : b \in NaturalLoop(h) <=> \E t \in Latches(h) : t \in Behind(h, b)
         /\ \A b \in NaturalLoop(h) : b = h \/ b \in Blocks \ {h}
BY DEF NaturalLoop, Behind

\* An edge back to h starts in the loop of h, which h dominates.
LEMMA LatchLaws ==
  ASSUME Suitable, NEW h \in Blocks, NEW t \in Latches(h)
  PROVE  /\ t \in Blocks /\ <<t, h>> \in CFG
         /\ Dominates(h, t, Entry, Blocks, CFG)
         /\ h # Entry
         /\ t \in NaturalLoop(h)
<1>1. t \in Blocks /\ <<t, h>> \in CFG /\ Dominates(h, t, Entry, Blocks, CFG)
  BY DEF Latches
<1>2. h # Entry
  BY <1>1, SuitableGraph DEF EntryGraph
<1>3. t \in NaturalLoop(h)
  <2>1. CASE t = h
    BY <2>1, InLoop
  <2>2. CASE t # h
    <3>1. t \in Behind(h, t)
      BY <2>2, <1>1, BehindLaws
    <3>. QED BY <3>1, <2>2, <1>1, InLoop
  <2>. QED BY <2>1, <2>2
<1>. QED BY <1>1, <1>2, <1>3

\* A header dominates its loop.
LEMMA HeaderDominates ==
  ASSUME Suitable, NEW h \in Blocks, NEW b \in NaturalLoop(h)
  PROVE  b \in Blocks /\ Dominates(h, b, Entry, Blocks, CFG)
<1>1. CASE b = h
  BY <1>1 DEF Dominates
<1>2. CASE b # h
  <2>1. b \in Blocks \ {h}
    BY <1>2, InLoop
  <2>2. PICK t \in Latches(h) : t \in Behind(h, b)
    BY <2>1, InLoop
  <2>3. t \in Blocks \ {h} /\ h # Entry /\ Dominates(h, t, Entry, Blocks, CFG)
    BY <2>1, <2>2, BehindLaws, LatchLaws
  <2>4. EntryGraph(Entry, Blocks, CFG)
    BY SuitableGraph
  <2>5. PICK S \in SUBSET Blocks : Cut(S, h, t, Entry, CFG)
    BY <2>3, <2>4, DominatesByCut DEF EntryGraph
  <2>6. b \notin S
    <3>1. \A e \in CFG : e[1] \in S /\ e[1] # h /\ e[2] # h => e[2] \in S
      BY <2>5 DEF Cut
    <3>2. b \in S => Behind(h, b) \subseteq S
      BY <2>1, <3>1, BehindLaws
    <3>. QED BY <3>2, <2>2, <2>5 DEF Cut
  <2>7. Cut(S, h, b, Entry, CFG)
    BY <2>5, <2>6 DEF Cut
  <2>. QED BY <2>1, <2>4, <2>7, DominatesByCut DEF EntryGraph
<1>. QED BY <1>1, <1>2

\* A loop is entered at its header.
LEMMA LoopEntry ==
  ASSUME Suitable, NEW h \in Blocks, NEW b \in NaturalLoop(h), b # h,
         NEW p \in Blocks, <<p, b>> \in CFG
  PROVE  p \in NaturalLoop(h)
<1>1. CASE p = h
  BY <1>1, InLoop
<1>2. CASE p # h
  <2>1. b \in Blocks \ {h} /\ p \in Blocks \ {h}
    BY <1>2, InLoop
  <2>2. PICK t \in Latches(h) : t \in Behind(h, b)
    BY <2>1, InLoop
  <2>3. b \in Behind(h, p)
    BY <2>1, BehindLaws
  <2>4. t \in Behind(h, p)
    BY <2>1, <2>2, <2>3, BehindLaws
  <2>. QED BY <2>1, <2>2, <2>4, InLoop
<1>. QED BY <1>1, <1>2

\* From a block of a loop the header is reached inside the loop.
LEMMA LoopLeadsBack ==
  ASSUME Suitable, NEW h \in Blocks, NEW b \in NaturalLoop(h), NEW X, b \in X,
         \A e \in CFG : e[1] \in X /\ e[2] \in NaturalLoop(h) => e[2] \in X
  PROVE  h \in X
<1>1. CASE b = h
  BY <1>1
<1>2. CASE b # h
  <2>1. b \in Blocks \ {h}
    BY <1>2, InLoop
  <2>2. PICK t \in Latches(h) : t \in Behind(h, b)
    BY <2>1, InLoop
  <2> DEFINE Y == {y \in Blocks \ {h} : y \in X \/ t \notin Behind(h, y)}
  <2>3. ASSUME NEW e \in CFG, e[1] \in Y, e[2] # h
        PROVE  e[2] \in Y
    <3>1. e[1] \in Blocks \ {h} /\ e[2] \in Blocks \ {h} /\ e = <<e[1], e[2]>>
      BY <2>3 DEF CFG
    <3>2. CASE t \notin Behind(h, e[2])
      BY <3>1, <3>2
    <3>3. CASE t \in Behind(h, e[2])
      <4>1. e[2] \in NaturalLoop(h)
        BY <3>1, <3>3, InLoop
      <4>2. e[2] \in Behind(h, e[1])
        BY <3>1, BehindLaws
      <4>3. t \in Behind(h, e[1])
        BY <3>1, <3>3, <4>2, BehindLaws
      <4>. QED BY <2>3, <3>1, <4>1, <4>3
    <3>. QED BY <3>2, <3>3
  <2>4. b \in Y
    BY <2>1
  <2>5. t \in Y
    <3>. HIDE DEF Y
    <3>1. Behind(h, b) \subseteq Y
      BY <2>1, <2>3, <2>4, BehindLaws
    <3>. QED BY <3>1, <2>2
  <2>6. t \in X
    BY <2>5, BehindLaws
  <2>7. <<t, h>> \in CFG /\ h \in NaturalLoop(h)
    BY LatchLaws, InLoop
  <2>. QED BY <2>6, <2>7
<1>. QED BY <1>1, <1>2

\* From the header every block of its loop is reached inside the loop.
LEMMA HeaderLeads ==
  ASSUME Suitable, NEW h \in Blocks, NEW b \in NaturalLoop(h), NEW X, h \in X,
         \A e \in CFG : e[1] \in X /\ e[1] \in NaturalLoop(h) /\ e[2] \in NaturalLoop(h) => e[2] \in X
  PROVE  b \in X
<1> DEFINE Z == {y \in Blocks : y \in NaturalLoop(h) => y \in X}
<1>1. Entry \in Z
  <2>1. Entry \in NaturalLoop(h) => h = Entry
    BY HeaderDominates, EntryDominated, SuitableGraph
  <2>. QED BY <2>1 DEF Suitable
<1>2. Closed(Z, CFG)
  <2>1. SUFFICES ASSUME NEW e \in CFG, e[1] \in Z, e[2] \in NaturalLoop(h) PROVE e[2] \in X
    BY DEF Closed, CFG
  <2>2. e[1] \in Blocks /\ e = <<e[1], e[2]>>
    BY DEF CFG
  <2>3. CASE e[2] = h
    BY <2>3
  <2>4. CASE e[2] # h
    <3>1. e[1] \in NaturalLoop(h)
      BY <2>1, <2>2, <2>4, LoopEntry
    <3>. QED BY <2>1, <3>1
  <2>. QED BY <2>3, <2>4
<1>3. Blocks \subseteq Z
  BY <1>1, <1>2, SuitableGraph DEF EntryGraph, AllReachableFrom
<1>4. b \in Blocks
  BY HeaderDominates
<1>. QED BY <1>3, <1>4

\* Two headers in each other's loop are one.
LEMMA OneHeader ==
  ASSUME Suitable, NEW h \in Blocks, NEW m \in Blocks,
         h \in NaturalLoop(m), m \in NaturalLoop(h)
  PROVE  h = m
BY HeaderDominates, DominatesAntisymmetric, SuitableGraph

\* The loop of a header lies in each loop that has the header.
LEMMA LoopsNest ==
  ASSUME Suitable, NEW h \in Blocks, NEW m \in Blocks, h \in NaturalLoop(m)
  PROVE  NaturalLoop(h) \subseteq NaturalLoop(m)
<1>1. CASE h = m
  BY <1>1
<1>2. CASE h # m
  <2>1. m \notin NaturalLoop(h)
    BY <1>2, OneHeader
  <2>2. SUFFICES ASSUME NEW b \in NaturalLoop(h) PROVE b \in NaturalLoop(m)
    OBVIOUS
  <2>3. b \in Blocks \ {m} /\ h \in Blocks \ {m}
    BY <2>1, <1>2, HeaderDominates
  <2>4. b \in Behind(m, b)
        /\ \A e \in CFG : e[1] \in Behind(m, b) /\ e[2] \in NaturalLoop(h) => e[2] \in Behind(m, b)
    BY <2>1, <2>3, BehindLaws
  <2>5. h \in Behind(m, b)
    BY <2>4, LoopLeadsBack
  <2>6. PICK t \in Latches(m) : t \in Behind(m, h)
    BY <2>3, InLoop
  <2>7. t \in Behind(m, b)
    BY <2>3, <2>5, <2>6, BehindLaws
  <2>. QED BY <2>3, <2>7, InLoop
<1>. QED BY <1>1, <1>2

\* A block of a loop goes on to a block of the loop.
LEMMA LoopGoesOn ==
  ASSUME Suitable, NEW h \in Headers, NEW b \in NaturalLoop(h)
  PROVE  \E e \in CFG : e[1] = b /\ e[2] \in NaturalLoop(h)
<1>1. h \in Blocks
  BY DEF Headers
<1>2. CASE b # h
  <2>1. SUFFICES ASSUME \A e \in CFG : e[1] = b => e[2] \notin NaturalLoop(h) PROVE h \in {b}
    BY <1>2
  <2>. QED BY <2>1, <1>1, LoopLeadsBack
<1>3. CASE b = h
  <2>1. PICK t \in Latches(h) : TRUE
    BY DEF Headers
  <2>4. <<t, h>> \in CFG /\ h \in NaturalLoop(h)
    BY <1>1, LatchLaws, InLoop
  <2>5. t = h => \E e \in CFG : e[1] = h /\ e[2] \in NaturalLoop(h)
    BY <2>4
  <2>2. SUFFICES ASSUME \A e \in CFG : e[1] = h => e[2] \notin NaturalLoop(h) PROVE t \in {h}
    BY <1>3, <2>5
  <2>3. t \in NaturalLoop(h)
    BY <1>1, LatchLaws
  <2>. QED BY <2>2, <2>3, <1>1, HeaderLeads
<1>. QED BY <1>2, <1>3

\* Every loop is entered from outside, at its header.
LEMMA OutsideEntry ==
  ASSUME Suitable, NEW h \in Headers
  PROVE  \E p \in Blocks \ NaturalLoop(h) : <<p, h>> \in CFG
<1>1. h \in Blocks /\ h # Entry
  <2>1. PICK t \in Latches(h) : TRUE
    BY DEF Headers
  <2>2. h \in Blocks
    BY DEF Headers
  <2>. QED BY <2>1, <2>2, LatchLaws
<1> DEFINE Z == Blocks \ NaturalLoop(h)
<1>2. Entry \in Z
  <2>1. Entry \in NaturalLoop(h) => h = Entry
    BY <1>1, HeaderDominates, EntryDominated, SuitableGraph
  <2>. QED BY <1>1, <2>1 DEF Suitable
<1>3. h \notin Z /\ h \in Blocks
  BY <1>1, InLoop
<1>4. ~Closed(Z, CFG)
  <2>1. Z \in SUBSET Blocks
    OBVIOUS
  <2>. HIDE DEF Z
  <2>. QED BY <2>1, <1>2, <1>3, SuitableGraph DEF EntryGraph, AllReachableFrom
<1>5. PICK e \in CFG : e[1] \in Z /\ e[2] \notin Z
  BY <1>4 DEF Closed
<1>6. e = <<e[1], e[2]>> /\ e[1] \in Blocks /\ e[2] \in Blocks
  BY DEF CFG
<1>7. e[2] = h
  BY <1>1, <1>5, <1>6, LoopEntry
<1>. QED BY <1>5, <1>6, <1>7

(***************************************************************************)
(* The graph that is left and its components.                              *)
(***************************************************************************)
Left == {e \in nodes \X nodes : e[2] \in succs[e[1]]}
Reach(a) == Reachable(a, nodes, Left)
Strong(X) == X \subseteq nodes /\ \A x, y \in X : y \in Reach(x)

\* Reach(a) is the smallest set with a closed under the edges that are left.
LEMMA ReachLaws ==
  ASSUME IsFiniteSet(nodes), NEW a \in nodes
  PROVE  /\ a \in Reach(a)
         /\ Reach(a) \subseteq nodes
         /\ \A x \in Reach(a) : \A y \in succs[x] : y \in nodes => y \in Reach(a)
         /\ \A S : /\ a \in S
                   /\ \A x \in nodes : \A y \in nodes : x \in S /\ y \in succs[x] => y \in S
                   => Reach(a) \subseteq S
         /\ \A b \in Reach(a) : Reach(b) \subseteq Reach(a)
<1>1. Left \in SUBSET (nodes \X nodes)
  BY DEF Left
<1>2. /\ a \in Reach(a)
      /\ Reach(a) \subseteq nodes
      /\ \A e \in Left : e[1] \in Reach(a) => e[2] \in Reach(a)
      /\ \A S : a \in S /\ (\A e \in Left : e[1] \in S => e[2] \in S) => Reach(a) \subseteq S
      /\ \A b \in Reach(a) : Reach(b) \subseteq Reach(a)
  BY <1>1, ReachableLaws DEF Reach
<1>3. ASSUME NEW x \in Reach(a), NEW y \in succs[x], y \in nodes
      PROVE  y \in Reach(a)
  <2>1. <<x, y>> \in Left
    BY <1>2, <1>3 DEF Left
  <2>. QED BY <2>1, <1>2
<1>4. ASSUME NEW S, a \in S, \A x \in nodes : \A y \in nodes : x \in S /\ y \in succs[x] => y \in S
      PROVE  Reach(a) \subseteq S
  <2>1. \A e \in Left : e[1] \in S => e[2] \in S
    BY <1>4 DEF Left
  <2>. QED BY <2>1, <1>4, <1>2
<1>. QED BY <1>2, <1>3, <1>4

Class(a) == {b \in Reach(a) : a \in Reach(b)}

\* Components by Reach.
LEMMA ComponentsAreClasses ==
  ASSUME IsFiniteSet(nodes)
  PROVE  \A C : C \in Components <=> (\E a \in nodes : C = Class(a)) /\ Cardinality(C) > 1
<1> DEFINE reached == [a \in nodes |-> Reachable(a, nodes, Left)]
           classes == {{b \in reached[a] : a \in reached[b]} : a \in nodes}
<1>1. Components = {C \in classes : Cardinality(C) > 1}
  BY DEF Components, Left
<1>2. \A a \in nodes : {b \in reached[a] : a \in reached[b]} = Class(a)
  <2>1. SUFFICES ASSUME NEW a \in nodes PROVE {b \in reached[a] : a \in reached[b]} = Class(a)
    OBVIOUS
  <2>2. \A b \in nodes : reached[b] = Reach(b)
    BY DEF Reach
  <2>3. Reach(a) \subseteq nodes
    BY ReachLaws
  <2>. HIDE DEF reached
  <2>. QED BY <2>2, <2>3 DEF Class
<1>. QED BY <1>1, <1>2

\* What a component is: two or more nodes, all those that are on a cycle with
\* one of them.
LEMMA ComponentLaws ==
  ASSUME IsFiniteSet(nodes), NEW C \in Components
  PROVE  /\ Strong(C) /\ IsFiniteSet(C) /\ Cardinality(C) > 1 /\ C # {}
         /\ \A x \in C : \A y \in Reach(x) : \A z \in C : z \in Reach(y) => y \in C
<1>1. PICK a \in nodes : C = Class(a)
  BY ComponentsAreClasses
<1>2. Cardinality(C) > 1
  BY ComponentsAreClasses
<1>3. \A x \in C : x \in Reach(a) /\ a \in Reach(x) /\ x \in nodes
  BY <1>1, ReachLaws DEF Class
<1>4. ASSUME NEW x \in C, NEW y \in C PROVE y \in Reach(x)
  BY <1>3, ReachLaws
<1>5. C \subseteq nodes
  BY <1>3
<1>6. IsFiniteSet(C)
  BY <1>5, FS_Subset
<1>7. ASSUME NEW x \in C, NEW y \in Reach(x), NEW z \in C, z \in Reach(y)
      PROVE  y \in C
  <2>1. Reach(x) \subseteq Reach(a)
    BY <1>3, ReachLaws
  <2>2. y \in nodes /\ y \in Reach(a)
    BY <2>1, <1>3, ReachLaws
  <2>3. Reach(z) \subseteq Reach(y)
    BY <1>7, <2>2, ReachLaws
  <2>4. a \in Reach(y)
    BY <2>3, <1>3
  <2>. QED BY <2>2, <2>4, <1>1 DEF Class
<1>8. C # {}
  <2>1. a \in Class(a)
    BY ReachLaws DEF Class
  <2>. QED BY <2>1, <1>1
<1>. QED BY <1>2, <1>4, <1>5, <1>6, <1>7, <1>8 DEF Strong

\* A component has all of every strongly connected set that it meets.
LEMMA StrongInside ==
  ASSUME IsFiniteSet(nodes), NEW C \in Components, NEW X, Strong(X), NEW x \in X, x \in C
  PROVE  X \subseteq C
<1>1. SUFFICES ASSUME NEW y \in X PROVE y \in C
  OBVIOUS
<1>2. y \in Reach(x) /\ x \in Reach(y)
  BY DEF Strong
<1>. QED BY <1>2, ComponentLaws

\* A strongly connected set of two or more nodes lies in a component.
LEMMA StrongHasComponent ==
  ASSUME IsFiniteSet(nodes), NEW X, Strong(X), Cardinality(X) > 1
  PROVE  \E C \in Components : X \subseteq C
<1>1. IsFiniteSet(X) /\ X # {}
  <2>1. Cardinality({}) = 0
    BY FS_EmptySet
  <2>2. IsFiniteSet(X)
    BY FS_Subset DEF Strong
  <2>. QED BY <2>1, <2>2
<1>2. PICK x \in X : TRUE
  BY <1>1
<1>3. x \in nodes
  BY DEF Strong
<1>4. X \subseteq Class(x)
  BY DEF Strong, Class
<1>5. Class(x) \subseteq nodes
  BY <1>3, ReachLaws DEF Class
<1>6. IsFiniteSet(Class(x)) /\ Cardinality(X) <= Cardinality(Class(x))
      /\ Cardinality(Class(x)) \in Nat /\ Cardinality(X) \in Nat
  BY <1>1, <1>4, <1>5, FS_Subset, FS_CardinalityType
<1>7. Class(x) \in Components
  BY <1>3, <1>6, ComponentsAreClasses
<1>. QED BY <1>4, <1>7

\* Two components that share a node are one.
LEMMA ComponentsApart ==
  ASSUME IsFiniteSet(nodes), NEW C \in Components, NEW D \in Components, NEW x \in C, x \in D
  PROVE  C = D
<1>1. Strong(C) /\ Strong(D)
  BY ComponentLaws
<1>2. C \subseteq D
  BY <1>1, StrongInside
<1>3. D \subseteq C
  BY <1>1, StrongInside
<1>. QED BY <1>2, <1>3

\* Between two nodes of a component there is a path inside it.
LEMMA ComponentPath ==
  ASSUME IsFiniteSet(nodes), NEW C \in Components, NEW x \in C, NEW z \in C, NEW X, x \in X,
         \A y \in C : \A w \in C : y \in X /\ w \in succs[y] => w \in X
  PROVE  z \in X
<1> DEFINE Y == {y \in Reach(x) : y \in C => y \in X}
<1>1. x \in nodes /\ z \in Reach(x) /\ C \subseteq nodes
  BY ComponentLaws DEF Strong
<1>2. /\ x \in Reach(x) /\ Reach(x) \subseteq nodes
      /\ \A y \in Reach(x) : \A w \in succs[y] : w \in nodes => w \in Reach(x)
      /\ \A S : /\ x \in S
                /\ \A y \in nodes : \A w \in nodes : y \in S /\ w \in succs[y] => w \in S
                => Reach(x) \subseteq S
  BY <1>1, ReachLaws
<1>3. ASSUME NEW y \in nodes, NEW w \in nodes, y \in Y, w \in succs[y]
      PROVE  w \in Y
  <2>1. w \in Reach(x)
    BY <1>2, <1>3
  <2>2. SUFFICES ASSUME w \in C PROVE w \in X
    BY <2>1
  <2>3. w \in Reach(y)
    BY <1>3, ReachLaws
  <2>4. y \in C
    BY <1>3, <2>2, <2>3, ComponentLaws
  <2>. QED BY <1>3, <2>2, <2>4
<1>4. x \in Y
  BY <1>2
<1>5. Reach(x) \subseteq Y
  <2>. HIDE DEF Y
  <2>. QED BY <1>2, <1>3, <1>4
<1>. QED BY <1>1, <1>5

(***************************************************************************)
(* The components are the outermost loops of what is left.                 *)
(***************************************************************************)
\* What is left is the function's graph on the nodes not removed.
LeftOver ==
  /\ nodes \subseteq Blocks /\ reserved = Blocks \ nodes
  /\ \A b \in nodes : /\ succs[b] = SuccsOf(func, b) \intersect nodes
                      /\ prevs[b] = PrevsOf(func, b) \intersect nodes
  /\ \A r \in reserved : succs[r] \intersect nodes = SuccsOf(func, r) \intersect nodes

\* The loops whose header is left are left.
LoopsLeft == \A h \in Headers : h \in nodes => NaturalLoop(h) \subseteq nodes

\* The edges that are left are the function's between nodes that are left.
LEMMA LeftEdges ==
  ASSUME Suitable, LeftOver
  PROVE  /\ IsFiniteSet(nodes) /\ nodes \subseteq Blocks
         /\ \A a \in nodes : \A b \in nodes : b \in succs[a] <=> <<a, b>> \in CFG
         /\ \A a \in nodes : succs[a] \subseteq nodes
<1>1. IsFiniteSet(nodes) /\ nodes \subseteq Blocks
  BY FS_Subset DEF Suitable, LeftOver
<1>2. ASSUME NEW a \in nodes, NEW b \in nodes PROVE b \in succs[a] <=> <<a, b>> \in CFG
  BY <1>1, EdgesByLists DEF LeftOver
<1>. QED BY <1>1, <1>2 DEF LeftOver

\* A loop that is left is strongly connected.
LEMMA LoopStrong ==
  ASSUME Suitable, LeftOver, NEW h \in Blocks, NaturalLoop(h) \subseteq nodes
  PROVE  Strong(NaturalLoop(h))
<1>1. h \in nodes
  BY InLoop
<1>2. ASSUME NEW x \in NaturalLoop(h), NEW y \in NaturalLoop(h)
      PROVE  y \in Reach(x)
  <2>1. x \in nodes
    BY <1>2
  <2>2. /\ x \in Reach(x) /\ Reach(x) \subseteq nodes
        /\ \A v \in Reach(x) : \A w \in succs[v] : w \in nodes => w \in Reach(x)
    BY <2>1, LeftEdges, ReachLaws
  <2>3. ASSUME NEW e \in CFG, e[1] \in Reach(x), e[2] \in NaturalLoop(h) PROVE e[2] \in Reach(x)
    <3>1. e = <<e[1], e[2]>> /\ e[1] \in nodes /\ e[2] \in nodes
      BY <2>2, <2>3 DEF CFG
    <3>2. e[2] \in succs[e[1]]
      BY <3>1, LeftEdges
    <3>. QED BY <2>2, <2>3, <3>1, <3>2
  <2>4. h \in Reach(x)
    BY <2>2, <2>3, LoopLeadsBack
  <2>. QED BY <2>3, <2>4, HeaderLeads
<1>. QED BY <1>2 DEF Strong

BackEdges == {e \in CFG : Dominates(e[2], e[1], Entry, Blocks, CFG)}
Ahead(a) == Reachable(a, Blocks, CFG \ BackEdges)

\* A component has a node that only edges back lead to from inside.
LEMMA ComponentTop ==
  ASSUME Suitable, LeftOver, NEW C \in Components
  PROVE  \E h \in C : \A c \in C : <<c, h>> \in CFG => <<c, h>> \in BackEdges
<1> DEFINE F == CFG \ BackEdges
<1>1. F \in SUBSET (Blocks \X Blocks) /\ IsFiniteSet(Blocks)
  BY DEF CFG, Suitable
<1>2. \A e \in F : e[1] \notin Ahead(e[2])
  BY DEF Suitable, Reducible, Acyclic, Ahead, BackEdges
<1>3. ASSUME NEW a \in Blocks
      PROVE  /\ a \in Ahead(a) /\ Ahead(a) \subseteq Blocks
             /\ \A e \in F : e[1] \in Ahead(a) => e[2] \in Ahead(a)
             /\ \A b \in Ahead(a) : Ahead(b) \subseteq Ahead(a)
  <2>1. \A x : Ahead(x) = Reachable(x, Blocks, F)
    BY DEF Ahead
  <2>. HIDE DEF F
  <2>2. /\ a \in Reachable(a, Blocks, F) /\ Reachable(a, Blocks, F) \subseteq Blocks
        /\ \A e \in F : e[1] \in Reachable(a, Blocks, F) => e[2] \in Reachable(a, Blocks, F)
        /\ \A b \in Reachable(a, Blocks, F) : Reachable(b, Blocks, F) \subseteq Reachable(a, Blocks, F)
    BY <1>1, ReachableLaws
  <2>. QED BY <2>1, <2>2
<1>4. C \subseteq Blocks /\ C # {}
  BY LeftEdges, ComponentLaws DEF Strong
<1>5. ASSUME NEW a \in Blocks
      PROVE  Cardinality(Ahead(a)) \in Nat /\ Cardinality(Ahead(a)) <= Cardinality(Blocks)
             /\ IsFiniteSet(Ahead(a))
  BY <1>1, <1>3, FS_Subset, FS_CardinalityType
<1> DEFINE S == {Cardinality(Ahead(c)) : c \in C}
<1>6. S \in SUBSET Nat /\ S # {} /\ (\A n \in S : n <= Cardinality(Blocks)) /\ Cardinality(Blocks) \in Nat
  BY <1>1, <1>4, <1>5, FS_CardinalityType
<1>7. PICK m \in S : \A n \in S : n <= m
  <2>. HIDE DEF S
  <2>. QED BY <1>6, Greatest
<1>8. PICK h \in C : m = Cardinality(Ahead(h))
  OBVIOUS
<1>9. ASSUME NEW c \in C, <<c, h>> \in CFG, <<c, h>> \notin BackEdges PROVE FALSE
  <2>1. <<c, h>> \in F
    BY <1>9
  <2>2. c \in Blocks /\ h \in Blocks
    BY <1>4
  <2>3. c \notin Ahead(h)
    BY <1>2, <2>1
  <2>4. c \in Ahead(c) /\ h \in Ahead(c)
    BY <1>3, <2>1, <2>2
  <2>5. Ahead(h) \subseteq Ahead(c)
    BY <1>3, <2>2, <2>4
  <2>6. Cardinality(Ahead(h)) <= Cardinality(Ahead(c)) /\ Cardinality(Ahead(h)) # Cardinality(Ahead(c))
    BY <2>2, <2>3, <2>4, <2>5, <1>5, FS_Subset
  <2>7. Cardinality(Ahead(c)) <= Cardinality(Ahead(h))
    BY <1>7, <1>8
  <2>. QED BY <2>2, <2>6, <2>7, <1>5
<1>. QED BY <1>9

\* Every component is the loop of one of its nodes.
LEMMA ComponentIsLoop ==
  ASSUME Suitable, LeftOver, LoopsLeft, NEW C \in Components
  PROVE  \E h \in Headers : h \in nodes /\ C = NaturalLoop(h)
<1>1. PICK h \in C : \A c \in C : <<c, h>> \in CFG => <<c, h>> \in BackEdges
  BY ComponentTop
<1>2. /\ IsFiniteSet(nodes) /\ C \subseteq nodes /\ C \subseteq Blocks /\ h \in nodes /\ h \in Blocks
      /\ IsFiniteSet(C) /\ Cardinality(C) > 1
  BY LeftEdges, ComponentLaws DEF Strong
<1>3. EntryGraph(Entry, Blocks, CFG)
  BY SuitableGraph
<1>4. ASSUME NEW c \in C, ~Dominates(h, c, Entry, Blocks, CFG) PROVE FALSE
  <2> DEFINE X == {y \in C : ~Dominates(h, y, Entry, Blocks, CFG)}
  <2>1. ASSUME NEW y \in C, NEW w \in C, y \in X, w \in succs[y]
        PROVE  w \in X
    <3>1. <<y, w>> \in CFG /\ y \in Blocks /\ w \in Blocks
      BY <1>2, <2>1, LeftEdges
    <3>2. SUFFICES ASSUME Dominates(h, w, Entry, Blocks, CFG) PROVE Dominates(h, y, Entry, Blocks, CFG)
      BY <2>1
    <3>3. CASE w = h
      BY <1>1, <3>1, <3>3 DEF BackEdges
    <3>4. CASE w # h
      BY <1>2, <1>3, <3>1, <3>2, <3>4, DominatesPredecessor
    <3>. QED BY <3>3, <3>4
  <2>2. c \in X
    BY <1>4
  <2>3. h \in X
    <3>. HIDE DEF X
    <3>. QED BY <1>2, <2>1, <2>2, ComponentPath
  <2>. QED BY <2>3 DEF Dominates
<1>5. ASSUME NEW c \in C, <<c, h>> \in CFG PROVE c \in Latches(h)
  BY <1>2, <1>4, <1>5 DEF Latches
<1>6. PICK x \in C : x # h
  <2>1. SUFFICES ASSUME C \subseteq {h} PROVE FALSE
    OBVIOUS
  <2>2. C = {h}
    BY <2>1
  <2>. QED BY <2>2, <1>2, FS_Singleton
<1>7. Latches(h) # {}
  <2> DEFINE X == C \ {h}
  <2>1. SUFFICES ASSUME Latches(h) = {} PROVE h \in X
    OBVIOUS
  <2>2. \A y \in C : \A w \in C : y \in X /\ w \in succs[y] => w \in X
    BY <1>2, <1>5, <2>1, LeftEdges
  <2>3. x \in X
    BY <1>6
  <2>. HIDE DEF X
  <2>. QED BY <1>2, <2>2, <2>3, ComponentPath
<1>8. C \subseteq NaturalLoop(h)
  <2>1. SUFFICES ASSUME NEW c \in C, c # h, c \notin NaturalLoop(h) PROVE FALSE
    BY InLoop
  <2>2. \A t \in Latches(h) : t \notin Behind(h, c)
    BY <1>2, <2>1, InLoop
  <2>3. ASSUME NEW y \in C, NEW w \in C, y \in Behind(h, c), w \in succs[y]
        PROVE  w \in Behind(h, c)
    <3>1. <<y, w>> \in CFG
      BY <1>2, <2>3, LeftEdges
    <3>2. w # h
      BY <3>1, <1>5, <2>2, <2>3
    <3>. QED BY <3>1, <3>2, <2>1, <2>3, <1>2, BehindLaws
  <2>4. c \in Behind(h, c) /\ h \notin Behind(h, c)
    BY <2>1, <1>2, BehindLaws
  <2>. QED BY <1>2, <2>3, <2>4, ComponentPath
<1>9. IsFiniteSet(NaturalLoop(h)) /\ NaturalLoop(h) \subseteq Blocks
  BY <1>2, HeaderDominates, FS_Subset DEF Suitable
<1>10. Cardinality(NaturalLoop(h)) > 1
  <2>1. /\ Cardinality(C) <= Cardinality(NaturalLoop(h))
        /\ Cardinality(C) \in Nat /\ Cardinality(NaturalLoop(h)) \in Nat
    BY <1>2, <1>8, <1>9, FS_Subset, FS_CardinalityType
  <2>. QED BY <2>1, <1>2
<1>11. h \in Headers
  BY <1>2, <1>7, <1>10 DEF Headers
<1>12. Strong(NaturalLoop(h))
  BY <1>2, <1>11, LoopStrong DEF LoopsLeft
<1>13. NaturalLoop(h) \subseteq C
  BY <1>2, <1>12, StrongInside, InLoop
<1>. QED BY <1>2, <1>8, <1>11, <1>13

\* A loop that is left has a component, which has all of it.
LEMMA LoopInComponent ==
  ASSUME Suitable, LeftOver, LoopsLeft, NEW h \in Headers, h \in nodes
  PROVE  /\ \E C \in Components : NaturalLoop(h) \subseteq C
         /\ \A C \in Components : NaturalLoop(h) \intersect C # {} => NaturalLoop(h) \subseteq C
<1>1. Strong(NaturalLoop(h)) /\ Cardinality(NaturalLoop(h)) > 1 /\ IsFiniteSet(nodes)
  BY LoopStrong, LeftEdges DEF LoopsLeft, Headers
<1>2. \E C \in Components : NaturalLoop(h) \subseteq C
  BY <1>1, StrongHasComponent
<1>3. ASSUME NEW C \in Components, NaturalLoop(h) \intersect C # {} PROVE NaturalLoop(h) \subseteq C
  <2>1. PICK x \in NaturalLoop(h) : x \in C
    BY <1>3
  <2>. QED BY <2>1, <1>1, StrongInside
<1>. QED BY <1>2, <1>3

\* The base that is found for a loop is its header.
LEMMA BaseIsHeader ==
  ASSUME Suitable, LeftOver, NEW h \in Headers, NaturalLoop(h) \subseteq nodes
  PROVE  find_loop_base(NaturalLoop(h)) = {h}
<1> DEFINE C == NaturalLoop(h)
           entered == {n \in C : \E prev \in prevs[n] : prev \notin C}
           fromReserved == {n \in C : \E res \in reserved : n \in succs[res]}
<1>1. h \in Blocks /\ h \in C
  BY InLoop DEF Headers
<1>2. ASSUME NEW n \in C, n # h, NEW p \in Blocks, n \in SuccsOf(func, p) \/ p \in PrevsOf(func, n)
      PROVE  p \in C
  <2>1. n \in Blocks /\ <<p, n>> \in CFG
    BY <1>1, <1>2, EdgesByLists, HeaderDominates
  <2>. QED BY <2>1, <1>1, <1>2, LoopEntry
<1>3. \A n \in entered : n = h
  <2>1. SUFFICES ASSUME NEW n \in C, NEW prev \in prevs[n], prev \notin C, n # h PROVE FALSE
    OBVIOUS
  <2>2. prev \in PrevsOf(func, n) /\ prev \in nodes /\ prev \in Blocks
    BY <2>1 DEF LeftOver
  <2>. QED BY <1>2, <2>1, <2>2
<1>4. \A n \in fromReserved : n = h
  <2>1. SUFFICES ASSUME NEW n \in C, NEW res \in reserved, n \in succs[res], n # h PROVE FALSE
    OBVIOUS
  <2>2. n \in SuccsOf(func, res) /\ res \in Blocks /\ res \notin nodes
    BY <2>1 DEF LeftOver
  <2>. QED BY <1>2, <2>1, <2>2
<1>5. h \in entered \/ h \in fromReserved
  <2>1. PICK p \in Blocks \ C : <<p, h>> \in CFG
    BY OutsideEntry
  <2>2. p \in PrevsOf(func, h) /\ h \in SuccsOf(func, p) /\ h \in nodes
    BY <2>1, <1>1, EdgesByLists
  <2>3. CASE p \in nodes
    <3>1. p \in prevs[h]
      BY <2>2, <2>3 DEF LeftOver
    <3>. QED BY <3>1, <2>1, <1>1
  <2>4. CASE p \notin nodes
    <3>1. p \in reserved /\ h \in succs[p]
      BY <2>1, <2>2, <2>4 DEF LeftOver
    <3>. QED BY <3>1, <1>1
  <2>. QED BY <2>3, <2>4
<1>6. find_loop_base(C) = IF entered # {} THEN entered
                          ELSE IF fromReserved # {} THEN fromReserved ELSE {NoBB}
  BY DEF find_loop_base
<1>. HIDE DEF entered, fromReserved
<1>7. entered # {} => entered = {h}
  BY <1>3
<1>8. entered = {} => fromReserved = {h}
  BY <1>4, <1>5
<1>9. find_loop_base(C) = {h}
  BY <1>6, <1>7, <1>8
<1>. QED BY <1>9

(***************************************************************************)
(* Tarjan's algorithm on what is left.                                     *)
(***************************************************************************)
\* The nodes visited that have left the stack.
Gone == {n \in nodes : index[n] # -1 /\ ~onStack(n)}

\* The edge from x to y is not among those a call has still to look at.
Looked(x, y) == \A i \in 1 .. Len(calls) : calls[i].n = x => y \notin calls[i].todo

CallSet == [n : nodes, todo : SUBSET nodes]

TarjanTypes ==
  /\ nodes \subseteq Blocks
  /\ stack \in Seq(nodes) /\ calls \in Seq(CallSet)
  /\ index \in [Blocks -> Int] /\ lowlink \in [Blocks -> Int]
  /\ index_count \in Nat

\* Nodes are numbered in the order they are visited and pushed.
Numbers ==
  /\ \A n \in nodes : index[n] = -1 \/ (0 <= index[n] /\ index[n] < index_count)
  /\ \A i \in 1 .. Len(stack) : index[stack[i]] # -1
  /\ \A i, j \in 1 .. Len(stack) : i < j => index[stack[i]] < index[stack[j]]

\* The open calls are a path of nodes on the stack.
CallPath ==
  /\ \A i \in 1 .. Len(calls) : onStack(calls[i].n) /\ calls[i].todo \subseteq succs[calls[i].n]
  /\ \A i, j \in 1 .. Len(calls) : i < j => index[calls[i].n] < index[calls[j].n]
  /\ \A i \in 1 .. Len(calls) - 1 : calls[i + 1].n \in succs[calls[i].n]

SuccsSeen ==
  \A x \in nodes : index[x] # -1 => \A y \in succs[x] : Looked(x, y) => index[y] # -1

GoneClosed == \A x \in Gone : \A y \in succs[x] : y \in Gone

\* A node on the stack leads to those above it and to an open call below it.
StackPaths ==
  /\ \A x, y \in nodes : onStack(x) /\ onStack(y) /\ index[x] <= index[y] => y \in Reach(x)
  /\ \A y \in nodes : onStack(y) =>
       \E i \in 1 .. Len(calls) : index[calls[i].n] <= index[y] /\ calls[i].n \in Reach(y)

\* x was visited in the i-th call, and not in a call that one has open.
VisitedBy(x, i) ==
  /\ index[calls[i].n] <= index[x]
  /\ i < Len(calls) => index[x] < index[calls[i + 1].n]

\* The lowlink of an open call is the number of a node on the stack that it
\* leads to, and none of the edges its visits have looked at leads lower.
Lowlinks ==
  \A i \in 1 .. Len(calls) :
    /\ lowlink[calls[i].n] <= index[calls[i].n]
    /\ \E m \in nodes : onStack(m) /\ index[m] = lowlink[calls[i].n] /\ m \in Reach(calls[i].n)
    /\ \A x \in nodes : \A y \in succs[x] :
         onStack(x) /\ onStack(y) /\ VisitedBy(x, i) /\ Looked(x, y)
           => lowlink[calls[i].n] <= index[y]

ComponentsSoFar == \A C : C \in sccs <=> C \in Components /\ C \subseteq Gone

TarjanInv ==
  /\ TarjanTypes /\ Numbers /\ CallPath
  /\ SuccsSeen /\ GoneClosed /\ StackPaths /\ Lowlinks
  /\ ComponentsSoFar

\* What the traversal runs on and does not change.
LeftGraph ==
  /\ IsFiniteSet(nodes)
  /\ \A a \in nodes : succs[a] \subseteq nodes

\* Reachability depends on nodes and succs alone.
LEMMA SameReach ==
  ASSUME UNCHANGED <<nodes, succs>>
  PROVE  /\ \A a : Reach(a)' = Reach(a)
         /\ Components' = Components
<1>1. Left' = Left
  BY DEF Left
<1>2. \A a : Reach(a)' = Reach(a)
  BY <1>1 DEF Reach
<1>3. Components' = Components
  BY DEF Components
<1>. QED BY <1>2, <1>3

\* What the types and the numbers say of a node on the stack and of a call.
LEMMA StackLaws ==
  ASSUME TarjanTypes, Numbers
  PROVE  /\ Len(stack) \in Nat /\ Len(calls) \in Nat
         /\ \A x : onStack(x) <=> \E i \in 1 .. Len(stack) : stack[i] = x
         /\ \A x : onStack(x) => x \in nodes /\ index[x] \in Nat /\ index[x] < index_count
         /\ \A x \in nodes : index[x] \in Int /\ lowlink[x] \in Int
         /\ \A x, y : onStack(x) /\ onStack(y) /\ index[x] = index[y] => x = y
         /\ \A i \in 1 .. Len(calls) : calls[i].n \in nodes /\ calls[i].todo \subseteq nodes
<1>1. Len(stack) \in Nat /\ Len(calls) \in Nat
  BY DEF TarjanTypes
<1>2. \A x : onStack(x) <=> \E i \in 1 .. Len(stack) : stack[i] = x
  <2>1. DOMAIN stack = 1 .. Len(stack)
    BY DEF TarjanTypes
  <2>. QED BY <2>1 DEF onStack, Range
<1>3. \A x \in nodes : index[x] \in Int /\ lowlink[x] \in Int
  BY DEF TarjanTypes
<1>4. \A i \in 1 .. Len(stack) : stack[i] \in nodes
  BY DEF TarjanTypes
<1>5. ASSUME NEW x, onStack(x) PROVE x \in nodes /\ index[x] \in Nat /\ index[x] < index_count
  <2>1. PICK i \in 1 .. Len(stack) : stack[i] = x
    BY <1>2, <1>5
  <2>. QED BY <2>1, <1>3, <1>4 DEF Numbers
<1>6. ASSUME NEW x, NEW y, onStack(x), onStack(y), index[x] = index[y] PROVE x = y
  <2>1. PICK i \in 1 .. Len(stack) : stack[i] = x
    BY <1>2, <1>6
  <2>2. PICK j \in 1 .. Len(stack) : stack[j] = y
    BY <1>2, <1>6
  <2>3. index[x] \in Int /\ index[y] \in Int
    BY <1>3, <1>5, <1>6
  <2>4. ~(i < j) /\ ~(j < i)
    BY <2>1, <2>2, <2>3, <1>6 DEF Numbers
  <2>. QED BY <2>1, <2>2, <2>4
<1>7. ASSUME NEW i \in 1 .. Len(calls) PROVE calls[i].n \in nodes /\ calls[i].todo \subseteq nodes
  <2>1. calls[i] \in CallSet
    BY DEF TarjanTypes
  <2>. QED BY <2>1 DEF CallSet
<1>. QED BY <1>1, <1>2, <1>3, <1>5, <1>6, <1>7

(***************************************************************************)
(* A node is visited: it is pushed, by a root call or from a call's list.  *)
(***************************************************************************)
\* The calls after n is visited: those before, of which n is crossed off.
Entered(n) ==
  /\ Len(calls') = Len(calls) + 1
  /\ \A i \in 1 .. Len(calls) :
       /\ calls'[i].n = calls[i].n /\ calls'[i].todo \subseteq calls[i].todo
       /\ \A y \in calls[i].todo : y = n \/ y \in calls'[i].todo
  /\ calls'[Len(calls) + 1].n = n /\ calls'[Len(calls) + 1].todo = succs[n]
  /\ calls' \in Seq(CallSet)
  /\ Len(calls) # 0 => n \in succs[calls[Len(calls)].n]
  /\ stack' = Append(stack, n)
  /\ index' = [index EXCEPT ![n] = index_count]
  /\ lowlink' = [lowlink EXCEPT ![n] = index_count]
  /\ index_count' = index_count + 1
  /\ UNCHANGED <<nodes, succs, sccs>>

\* Types, stack and numbers after n is visited.
LEMMA EnteredStack ==
  ASSUME TarjanInv, LeftGraph, NEW n \in nodes, index[n] = -1, Entered(n)
  PROVE  /\ TarjanTypes' /\ Numbers'
         /\ \A x : onStack(x)' <=> onStack(x) \/ x = n
         /\ ~onStack(n)
         /\ index'[n] = index_count /\ lowlink'[n] = index_count /\ index_count \in Nat
         /\ \A x \in nodes : x # n => index'[x] = index[x] /\ lowlink'[x] = lowlink[x]
<1>1. TarjanTypes /\ Numbers
  BY DEF TarjanInv
<1>2. ~onStack(n)
  BY <1>1, StackLaws
<1>3. /\ index'[n] = index_count /\ lowlink'[n] = index_count /\ index_count \in Nat
      /\ \A x \in nodes : x # n => index'[x] = index[x] /\ lowlink'[x] = lowlink[x]
  BY <1>1 DEF Entered, TarjanTypes
<1>4. TarjanTypes'
  <2>1. nodes' = nodes /\ nodes \subseteq Blocks
    BY <1>1 DEF Entered, TarjanTypes
  <2>2. stack' \in Seq(nodes) /\ index_count' \in Nat
    BY <1>1 DEF Entered, TarjanTypes
  <2>3. index' \in [Blocks -> Int] /\ lowlink' \in [Blocks -> Int]
    BY <1>1 DEF Entered, TarjanTypes
  <2>4. calls' \in Seq(CallSet) /\ CallSet' = CallSet
    BY DEF Entered, CallSet
  <2>. QED BY <2>1, <2>2, <2>3, <2>4 DEF TarjanTypes
<1>5. /\ Len(stack') = Len(stack) + 1 /\ Len(stack) \in Nat
      /\ stack'[Len(stack) + 1] = n
      /\ \A i \in 1 .. Len(stack) : stack'[i] = stack[i]
  BY <1>1 DEF Entered, TarjanTypes
<1>6. \A x : onStack(x)' <=> \E i \in 1 .. Len(stack') : stack'[i] = x
  <2>1. DOMAIN stack' = 1 .. Len(stack')
    BY <1>4 DEF TarjanTypes
  <2>. QED BY <2>1 DEF onStack, Range
<1>7. \A x : onStack(x) <=> \E i \in 1 .. Len(stack) : stack[i] = x
  BY <1>1, StackLaws
<1>8. \A x : onStack(x)' <=> onStack(x) \/ x = n
  <2>1. 1 .. Len(stack') = (1 .. Len(stack)) \union {Len(stack) + 1}
    BY <1>5
  <2>. QED BY <2>1, <1>5, <1>6, <1>7
<1>9. \A i \in 1 .. Len(stack) : /\ stack[i] \in nodes /\ stack[i] # n
                                 /\ index[stack[i]] \in Nat /\ index[stack[i]] < index_count
  BY <1>1, <1>2, <1>7, StackLaws
<1>10. Numbers'
  <2>1. \A x \in nodes : index'[x] = -1 \/ (0 <= index'[x] /\ index'[x] < index_count')
    <3>1. index_count' = index_count + 1
      BY DEF Entered
    <3>2. \A x \in nodes : index[x] \in Int
      BY <1>1, StackLaws
    <3>. QED BY <1>1, <1>3, <3>1, <3>2 DEF Numbers
  <2>2. \A i \in 1 .. Len(stack') : index'[stack'[i]] # -1
    BY <1>3, <1>5, <1>9
  <2>3. ASSUME NEW i \in 1 .. Len(stack'), NEW j \in 1 .. Len(stack'), i < j
        PROVE  index'[stack'[i]] < index'[stack'[j]]
    <3>1. i \in 1 .. Len(stack) /\ stack'[i] = stack[i]
      BY <2>3, <1>5
    <3>2. CASE j = Len(stack) + 1
      BY <3>1, <3>2, <1>3, <1>5, <1>9
    <3>3. CASE j \in 1 .. Len(stack)
      BY <3>1, <3>3, <2>3, <1>1, <1>3, <1>5, <1>9 DEF Numbers
    <3>. QED BY <3>2, <3>3, <1>5
  <2>4. nodes' = nodes
    BY DEF Entered
  <2>. QED BY <2>1, <2>2, <2>3, <2>4 DEF Numbers
<1>. QED BY <1>2, <1>3, <1>4, <1>8, <1>10

\* What the calls on the stack are before and after a node is visited.
LEMMA EnteredCalls ==
  ASSUME TarjanInv, LeftGraph, NEW n \in nodes, index[n] = -1, Entered(n)
  PROVE  /\ Len(calls) \in Nat /\ Len(calls') = Len(calls) + 1
         /\ \A i \in 1 .. Len(calls) :
              /\ calls'[i].n = calls[i].n /\ calls[i].n \in nodes /\ calls[i].n # n
              /\ onStack(calls[i].n)
              /\ index'[calls[i].n] = index[calls[i].n]
              /\ index[calls[i].n] \in Nat /\ index[calls[i].n] < index_count
         /\ calls'[Len(calls) + 1].n = n
         /\ \A x : \A y \in succs[x] : Looked(x, y)' => x # n /\ (Looked(x, y) \/ y = n)
         /\ Gone' = Gone
         /\ nodes' = nodes /\ succs' = succs /\ sccs' = sccs
         /\ Components' = Components /\ \A a : Reach(a)' = Reach(a)
<1>1. TarjanTypes /\ Numbers /\ CallPath
  BY DEF TarjanInv
<1>2. Len(calls) \in Nat /\ Len(calls') = Len(calls) + 1
  BY <1>1, StackLaws DEF Entered
<1>3. ASSUME NEW i \in 1 .. Len(calls)
      PROVE  /\ calls'[i].n = calls[i].n /\ calls[i].n \in nodes /\ calls[i].n # n
             /\ onStack(calls[i].n)
             /\ index'[calls[i].n] = index[calls[i].n]
             /\ index[calls[i].n] \in Nat /\ index[calls[i].n] < index_count
  <2>1. onStack(calls[i].n) /\ calls'[i].n = calls[i].n
    BY <1>1 DEF CallPath, Entered
  <2>2. calls[i].n \in nodes /\ index[calls[i].n] \in Nat /\ index[calls[i].n] < index_count
    BY <1>1, <2>1, StackLaws
  <2>3. calls[i].n # n
    BY <2>2
  <2>4. index'[calls[i].n] = index[calls[i].n]
    BY <2>2, <2>3, EnteredStack
  <2>. QED BY <2>1, <2>2, <2>3, <2>4
<1>4. calls'[Len(calls) + 1].n = n /\ calls'[Len(calls) + 1].todo = succs[n]
  BY DEF Entered
<1>5. ASSUME NEW x, NEW y \in succs[x], Looked(x, y)'
      PROVE  x # n /\ (Looked(x, y) \/ y = n)
  <2>1. \A i \in 1 .. Len(calls') : calls'[i].n = x => y \notin calls'[i].todo
    BY <1>5 DEF Looked
  <2>2. x # n
    BY <2>1, <1>2, <1>4
  <2>3. SUFFICES ASSUME NEW i \in 1 .. Len(calls), calls[i].n = x, y \in calls[i].todo PROVE y = n
    BY <2>2 DEF Looked
  <2>4. i \in 1 .. Len(calls') /\ calls'[i].n = x
    BY <1>2, <1>3, <2>3
  <2>. QED BY <2>1, <2>3, <2>4 DEF Entered
<1>6. nodes' = nodes /\ succs' = succs /\ sccs' = sccs
  BY DEF Entered
<1>7. Gone' = Gone
  <2>1. \A x \in nodes : index'[x] # -1 /\ ~onStack(x)' <=> index[x] # -1 /\ ~onStack(x)
    BY EnteredStack
  <2>. QED BY <2>1, <1>6 DEF Gone
<1>. QED BY <1>2, <1>3, <1>4, <1>5, <1>6, <1>7, SameReach

\* n is reached from all of the stack: from the innermost call, whose successor
\* it is.
LEMMA EnteredPaths ==
  ASSUME TarjanInv, LeftGraph, NEW n \in nodes, index[n] = -1, Entered(n)
  PROVE  StackPaths'
<1> DEFINE K == Len(calls)
<1>1. TarjanTypes /\ Numbers /\ CallPath /\ StackPaths
  BY DEF TarjanInv
<1>2. /\ \A x : onStack(x)' <=> onStack(x) \/ x = n
      /\ index'[n] = index_count /\ index_count \in Nat /\ ~onStack(n)
      /\ \A x \in nodes : x # n => index'[x] = index[x]
  BY EnteredStack
<1>3. /\ K \in Nat /\ Len(calls') = K + 1
      /\ \A i \in 1 .. K : /\ calls'[i].n = calls[i].n /\ calls[i].n \in nodes
                           /\ index'[calls[i].n] = index[calls[i].n] /\ onStack(calls[i].n)
      /\ calls'[K + 1].n = n
      /\ nodes' = nodes /\ \A a : Reach(a)' = Reach(a)
  BY EnteredCalls
<1>4. \A x : onStack(x) => x \in nodes /\ x # n /\ index[x] \in Nat /\ index[x] < index_count
  BY <1>1, <1>2, StackLaws
<1>5. \A a \in nodes : a \in Reach(a)
  BY ReachLaws DEF LeftGraph
<1>6. ASSUME NEW x \in nodes, onStack(x) PROVE n \in Reach(x)
  <2>1. PICK i \in 1 .. K : index[calls[i].n] <= index[x] /\ calls[i].n \in Reach(x)
    BY <1>1, <1>6 DEF StackPaths
  <2>2. K # 0 /\ K \in 1 .. K
    BY <2>1, <1>3
  <2>3. index[calls[i].n] <= index[calls[K].n]
    <3>1. CASE i = K
      BY <3>1, <1>3, <1>4
    <3>2. CASE i # K
      BY <3>2, <2>1, <2>2, <1>1, <1>3, <1>4 DEF CallPath
    <3>. QED BY <3>1, <3>2
  <2>4. calls[K].n \in Reach(calls[i].n)
    BY <2>1, <2>2, <2>3, <1>1, <1>3 DEF StackPaths
  <2>5. n \in Reach(calls[K].n)
    <3>1. n \in succs[calls[K].n]
      BY <2>2 DEF Entered
    <3>. QED BY <3>1, <1>3, <1>5, <2>2, ReachLaws DEF LeftGraph
  <2>. QED BY <2>1, <2>4, <2>5, <1>3, <2>2, <1>6, ReachLaws DEF LeftGraph
<1>7. ASSUME NEW x \in nodes, NEW y \in nodes, onStack(x)', onStack(y)', index'[x] <= index'[y]
      PROVE  y \in Reach(x)
  <2>1. CASE y = n /\ x = n
    BY <2>1, <1>5
  <2>2. CASE y = n /\ x # n
    BY <2>2, <1>2, <1>6, <1>7
  <2>3. CASE y # n /\ x = n
    BY <2>3, <1>2, <1>4, <1>7
  <2>4. CASE y # n /\ x # n
    BY <2>4, <1>1, <1>2, <1>7 DEF StackPaths
  <2>. QED BY <2>1, <2>2, <2>3, <2>4
<1>8. ASSUME NEW y \in nodes, onStack(y)'
      PROVE  \E i \in 1 .. Len(calls') : index'[calls'[i].n] <= index'[y] /\ calls'[i].n \in Reach(y)
  <2>1. CASE y = n
    <3>1. K + 1 \in 1 .. Len(calls')
      BY <1>3
    <3>. QED BY <2>1, <3>1, <1>2, <1>3, <1>5
  <2>2. CASE y # n
    <3>1. PICK i \in 1 .. K : index[calls[i].n] <= index[y] /\ calls[i].n \in Reach(y)
      BY <2>2, <1>1, <1>2, <1>8 DEF StackPaths
    <3>2. i \in 1 .. Len(calls') /\ index'[calls'[i].n] = index[calls[i].n] /\ index'[y] = index[y]
      BY <2>2, <1>2, <1>3
    <3>. QED BY <3>1, <3>2, <1>3
  <2>. QED BY <2>1, <2>2
<1>. QED BY <1>3, <1>7, <1>8 DEF StackPaths

\* The lowlink of n is its own number; those of the other calls are not touched.
LEMMA EnteredLowlinks ==
  ASSUME TarjanInv, LeftGraph, NEW n \in nodes, index[n] = -1, Entered(n)
  PROVE  Lowlinks'
<1>0. PICK K : K = Len(calls)
  OBVIOUS
<1>1. TarjanTypes /\ Numbers /\ CallPath /\ Lowlinks
  BY DEF TarjanInv
<1>2. /\ \A x : onStack(x)' <=> onStack(x) \/ x = n
      /\ index'[n] = index_count /\ lowlink'[n] = index_count /\ index_count \in Nat /\ ~onStack(n)
      /\ \A x \in nodes : x # n => index'[x] = index[x] /\ lowlink'[x] = lowlink[x]
  BY EnteredStack
<1>3. /\ K \in Nat /\ Len(calls') = K + 1
      /\ \A i \in 1 .. K : /\ calls'[i].n = calls[i].n /\ calls[i].n \in nodes /\ calls[i].n # n
                           /\ index'[calls[i].n] = index[calls[i].n] /\ onStack(calls[i].n)
                           /\ index[calls[i].n] \in Nat /\ index[calls[i].n] < index_count
      /\ calls'[K + 1].n = n
      /\ nodes' = nodes /\ succs' = succs /\ \A a : Reach(a)' = Reach(a)
  BY <1>0, EnteredCalls
<1>4. \A x : onStack(x) => x \in nodes /\ x # n /\ index[x] \in Nat /\ index[x] < index_count
  BY <1>1, <1>2, StackLaws
<1>5. \A x : \A y \in succs[x] : Looked(x, y)' => x # n /\ (Looked(x, y) \/ y = n)
  BY EnteredCalls
<1>6. ASSUME NEW i \in 1 .. K
      PROVE  /\ lowlink'[calls'[i].n] = lowlink[calls[i].n]
             /\ lowlink[calls[i].n] <= index[calls[i].n] /\ lowlink[calls[i].n] \in Int
             /\ index'[calls'[i].n] = index[calls[i].n]
             /\ \E m \in nodes : /\ onStack(m)' /\ index'[m] = lowlink'[calls'[i].n]
                                 /\ m \in Reach(calls'[i].n)
  <2>1. lowlink'[calls'[i].n] = lowlink[calls[i].n] /\ index'[calls'[i].n] = index[calls[i].n]
    BY <1>2, <1>3
  <2>2. lowlink[calls[i].n] <= index[calls[i].n] /\ lowlink[calls[i].n] \in Int
    BY <1>0, <1>1, <1>3, StackLaws DEF Lowlinks
  <2>3. PICK m \in nodes : onStack(m) /\ index[m] = lowlink[calls[i].n] /\ m \in Reach(calls[i].n)
    BY <1>0, <1>1 DEF Lowlinks
  <2>4. onStack(m)' /\ index'[m] = index[m]
    BY <2>3, <1>2, <1>4
  <2>. QED BY <2>1, <2>2, <2>3, <2>4, <1>3
<1>7. ASSUME NEW i \in 1 .. K, NEW x \in nodes, NEW y \in succs[x],
             onStack(x)', onStack(y)', VisitedBy(x, i)', Looked(x, y)'
      PROVE  lowlink'[calls'[i].n] <= index'[y]
  <2>1. x # n /\ (Looked(x, y) \/ y = n)
    BY <1>5, <1>7
  <2>2. onStack(x) /\ index'[x] = index[x] /\ index[x] \in Nat /\ index[x] < index_count
    BY <2>1, <1>2, <1>4, <1>7
  <2>3. VisitedBy(x, i)
    <3>1. index'[calls'[i].n] <= index'[x]
      BY <1>7 DEF VisitedBy
    <3>2. index[calls[i].n] <= index[x]
      BY <3>1, <2>2, <1>3
    <3>3. ASSUME i < K PROVE index[x] < index[calls[i + 1].n]
      <4>1. i + 1 \in 1 .. K /\ i < Len(calls')
        BY <3>3, <1>3
      <4>2. index'[x] < index'[calls'[i + 1].n]
        BY <4>1, <1>7 DEF VisitedBy
      <4>. QED BY <4>1, <4>2, <2>2, <1>3
    <3>. QED BY <1>0, <3>2, <3>3 DEF VisitedBy
  <2>4. CASE y = n
    <3>1. /\ lowlink[calls[i].n] <= index[calls[i].n] /\ index[calls[i].n] < index_count
          /\ lowlink[calls[i].n] \in Int /\ index[calls[i].n] \in Nat
      BY <1>3, <1>6
    <3>2. lowlink'[calls'[i].n] = lowlink[calls[i].n] /\ index'[y] = index_count
      BY <2>4, <1>2, <1>6
    <3>. QED BY <3>1, <3>2, <1>2
  <2>5. CASE y # n
    <3>1. onStack(y) /\ Looked(x, y) /\ index'[y] = index[y]
      BY <2>1, <2>5, <1>2, <1>4, <1>7
    <3>2. lowlink[calls[i].n] <= index[y]
      BY <3>1, <2>2, <2>3, <1>0, <1>1 DEF Lowlinks
    <3>. QED BY <3>1, <3>2, <1>6
  <2>. QED BY <2>4, <2>5
<1>8. ASSUME NEW x \in nodes, NEW y \in succs[x], onStack(x)', VisitedBy(x, K + 1)', Looked(x, y)'
      PROVE  FALSE
  <2>1. index'[calls'[K + 1].n] <= index'[x]
    BY <1>8 DEF VisitedBy
  <2>2. x # n
    BY <1>5, <1>8
  <2>3. index'[x] = index[x] /\ index[x] \in Nat /\ index[x] < index_count
    BY <2>2, <1>2, <1>4, <1>8
  <2>. QED BY <2>1, <2>3, <1>2, <1>3
<1>9. /\ lowlink'[calls'[K + 1].n] <= index'[calls'[K + 1].n]
      /\ \E m \in nodes : onStack(m)' /\ index'[m] = lowlink'[calls'[K + 1].n] /\ m \in Reach(calls'[K + 1].n)
  <2>1. n \in Reach(n)
    BY ReachLaws DEF LeftGraph
  <2>. QED BY <2>1, <1>2, <1>3
<1>10. \A i \in 1 .. Len(calls') : i \in 1 .. K \/ i = K + 1
  BY <1>3
<1>11. \A i \in 1 .. K : index'[calls'[i].n] = index[calls[i].n]
  BY <1>6
<1>12. \A i \in 1 .. Len(calls') :
         /\ lowlink'[calls'[i].n] <= index'[calls'[i].n]
         /\ \E m \in nodes : onStack(m)' /\ index'[m] = lowlink'[calls'[i].n] /\ m \in Reach(calls'[i].n)
  BY <1>6, <1>9, <1>10
<1>13. \A i \in 1 .. Len(calls') : \A x \in nodes : \A y \in succs[x] :
         onStack(x)' /\ onStack(y)' /\ VisitedBy(x, i)' /\ Looked(x, y)' => lowlink'[calls'[i].n] <= index'[y]
  BY <1>7, <1>8, <1>10
<1>. QED BY <1>3, <1>12, <1>13 DEF Lowlinks

\* A visit keeps the invariant.
LEMMA EnteredTarjan ==
  ASSUME TarjanInv, LeftGraph, NEW n \in nodes, index[n] = -1, Entered(n)
  PROVE  TarjanInv'
<1> DEFINE K == Len(calls)
<1>1. TarjanTypes /\ Numbers /\ CallPath /\ SuccsSeen /\ GoneClosed /\ ComponentsSoFar
  BY DEF TarjanInv
<1>2. /\ TarjanTypes' /\ Numbers'
      /\ \A x : onStack(x)' <=> onStack(x) \/ x = n
      /\ index'[n] = index_count /\ index_count \in Nat
      /\ \A x \in nodes : x # n => index'[x] = index[x]
  BY EnteredStack
<1>3. /\ K \in Nat /\ Len(calls') = K + 1
      /\ \A i \in 1 .. K : /\ calls'[i].n = calls[i].n
                           /\ index'[calls[i].n] = index[calls[i].n] /\ onStack(calls[i].n)
                           /\ index[calls[i].n] \in Nat /\ index[calls[i].n] < index_count
      /\ calls'[K + 1].n = n
  BY EnteredCalls
<1>4. /\ nodes' = nodes /\ succs' = succs /\ Gone' = Gone /\ sccs' = sccs /\ Components' = Components
  BY EnteredCalls
<1>5. \A x : \A y \in succs[x] : Looked(x, y)' => x # n /\ (Looked(x, y) \/ y = n)
  BY EnteredCalls
<1>6. CallPath'
  <2>1. ASSUME NEW i \in 1 .. Len(calls') PROVE onStack(calls[i].n)'
    <3>1. i \in 1 .. K \/ i = K + 1
      BY <1>3
    <3>2. PICK c : c = calls'[i].n
      OBVIOUS
    <3>3. onStack(c) \/ c = n
      BY <3>1, <3>2, <1>3
    <3>. QED BY <3>2, <3>3, <1>2
  <2>4. ASSUME NEW i \in 1 .. Len(calls') PROVE calls'[i].todo \subseteq succs[calls'[i].n]
    <3>1. CASE i \in 1 .. K
      BY <3>1, <1>1, <1>3 DEF CallPath, Entered
    <3>2. CASE i = K + 1
      BY <3>2, <1>3 DEF Entered
    <3>. QED BY <3>1, <3>2, <1>3
  <2>2. ASSUME NEW i \in 1 .. Len(calls'), NEW j \in 1 .. Len(calls'), i < j
        PROVE  index'[calls'[i].n] < index'[calls'[j].n]
    <3>1. i \in 1 .. K
      BY <2>2, <1>3
    <3>2. CASE j = K + 1
      BY <3>1, <3>2, <1>2, <1>3
    <3>3. CASE j \in 1 .. K
      BY <3>1, <3>3, <2>2, <1>1, <1>3 DEF CallPath
    <3>. QED BY <3>2, <3>3, <1>3
  <2>3. ASSUME NEW i \in 1 .. Len(calls') - 1 PROVE calls'[i + 1].n \in succs[calls'[i].n]
    <3>1. i \in 1 .. K
      BY <1>3
    <3>2. CASE i = K
      <4>1. n \in succs[calls[K].n]
        BY <3>1, <1>3 DEF Entered
      <4>. QED BY <4>1, <3>1, <3>2, <1>3
    <3>3. CASE i # K
      <4>1. i \in 1 .. K - 1 /\ i + 1 \in 1 .. K
        BY <3>1, <3>3, <1>3
      <4>. QED BY <4>1, <3>1, <1>1, <1>3 DEF CallPath
    <3>. QED BY <3>2, <3>3
  <2>. QED BY <2>1, <2>2, <2>3, <2>4, <1>4 DEF CallPath
<1>7. SuccsSeen'
  <2>1. ASSUME NEW x \in nodes, index'[x] # -1, NEW y \in succs[x], Looked(x, y)' PROVE index'[y] # -1
    <3>1. x # n /\ (Looked(x, y) \/ y = n) /\ y \in nodes
      BY <1>5, <2>1 DEF LeftGraph
    <3>2. CASE y = n
      BY <3>2, <1>2
    <3>3. CASE y # n
      BY <3>1, <3>3, <2>1, <1>1, <1>2 DEF SuccsSeen
    <3>. QED BY <3>2, <3>3
  <2>. QED BY <2>1, <1>4 DEF SuccsSeen
<1>8. GoneClosed'
  BY <1>1, <1>4 DEF GoneClosed
<1>9. ComponentsSoFar'
  BY <1>1, <1>4 DEF ComponentsSoFar
<1>10. StackPaths' /\ Lowlinks'
  BY EnteredPaths, EnteredLowlinks
<1>. QED BY <1>2, <1>6, <1>7, <1>8, <1>9, <1>10 DEF TarjanInv

\* Last and Front of a sequence that is not empty.
LEMMA FrontAndLast ==
  ASSUME NEW S, NEW s \in Seq(S), s # <<>>
  PROVE  /\ Len(s) \in Nat \ {0}
         /\ Last(s) = s[Len(s)] /\ Last(s) \in S
         /\ Front(s) \in Seq(S) /\ Len(Front(s)) = Len(s) - 1
         /\ \A i \in 1 .. Len(s) - 1 : Front(s)[i] = s[i]
<1>1. Len(s) \in Nat \ {0}
  OBVIOUS
<1>2. Last(s) = s[Len(s)] /\ Last(s) \in S
  BY <1>1 DEF Last
<1> DEFINE f == Front(s)
<1>3. f = [i \in 1 .. Len(s) - 1 |-> s[i]]
  <2>1. Len(s) - 1 \in 0 .. Len(s) /\ f = SubSeq(s, 1, Len(s) - 1)
    BY <1>1 DEF Front
  <2>. HIDE DEF f
  <2>. QED BY <1>1, <2>1
<1>4. \A i \in 1 .. Len(s) - 1 : s[i] \in S
  BY <1>1
<1>. HIDE DEF f
<1>5. f \in Seq(S) /\ Len(f) = Len(s) - 1
  BY <1>1, <1>3, <1>4
<1>6. \A i \in 1 .. Len(s) - 1 : f[i] = s[i]
  BY <1>3
<1>. QED BY <1>1, <1>2, <1>5, <1>6 DEF f

\* The calls after su is crossed off the innermost call's list.
LEMMA TookCalls ==
  ASSUME calls \in Seq(CallSet), calls # <<>>, NEW su
  PROVE  /\ Len(calls) \in Nat \ {0} /\ Call = calls[Len(calls)] /\ Call \in CallSet
         /\ Took(su) \in Seq(CallSet) /\ Len(Took(su)) = Len(calls)
         /\ \A i \in 1 .. Len(calls) - 1 : Took(su)[i] = calls[i]
         /\ Took(su)[Len(calls)].n = Call.n
         /\ Took(su)[Len(calls)].todo = Call.todo \ {su}
<1>1. /\ Len(calls) \in Nat \ {0} /\ Call = calls[Len(calls)] /\ Call \in CallSet
      /\ Front(calls) \in Seq(CallSet) /\ Len(Front(calls)) = Len(calls) - 1
      /\ \A i \in 1 .. Len(calls) - 1 : Front(calls)[i] = calls[i]
  <2>. HIDE DEF CallSet
  <2>. QED BY FrontAndLast DEF Call
<1> DEFINE c == [Call EXCEPT !.todo = @ \ {su}]
<1>2. c \in CallSet /\ c.n = Call.n /\ c.todo = Call.todo \ {su}
  BY <1>1 DEF CallSet
<1>3. Took(su) = Append(Front(calls), c)
  BY DEF Took
<1>. HIDE DEF c
<1>4. /\ Took(su) \in Seq(CallSet) /\ Len(Took(su)) = Len(calls)
      /\ Took(su)[Len(calls)] = c
  BY <1>1, <1>2, <1>3
<1>5. \A i \in 1 .. Len(calls) - 1 : Took(su)[i] = calls[i]
  BY <1>1, <1>2, <1>3
<1>. QED BY <1>1, <1>2, <1>4, <1>5

\* A call for n on top of the calls that are open.
LEMMA CallAdded ==
  ASSUME LeftGraph, NEW n \in nodes, NEW cs \in Seq(CallSet)
  PROVE  LET c == Append(cs, [n |-> n, todo |-> succs[n]])
         IN  /\ c \in Seq(CallSet) /\ Len(c) = Len(cs) + 1
             /\ c[Len(cs) + 1].n = n /\ c[Len(cs) + 1].todo = succs[n]
             /\ \A i \in 1 .. Len(cs) : c[i] = cs[i]
<1> DEFINE d == [n |-> n, todo |-> succs[n]]
<1>1. d \in CallSet /\ d.n = n /\ d.todo = succs[n]
  BY DEF CallSet, LeftGraph
<1>. HIDE DEF d
<1>2. /\ Append(cs, d) \in Seq(CallSet) /\ Len(Append(cs, d)) = Len(cs) + 1
      /\ Append(cs, d)[Len(cs) + 1] = d
      /\ \A i \in 1 .. Len(cs) : Append(cs, d)[i] = cs[i]
  BY <1>1
<1>. QED BY <1>1, <1>2 DEF d

\* traverse is called for a node that no call has come to.
LEMMA TraverseRootTarjan ==
  ASSUME TarjanInv, LeftGraph, TraverseRoot
  PROVE  TarjanInv'
<1>1. PICK n \in nodes : index[n] = -1 /\ EnterTraverse(n, calls)
  BY DEF TraverseRoot
<1>2. calls \in Seq(CallSet) /\ calls = <<>> /\ Len(calls) = 0
  BY DEF TarjanInv, TarjanTypes, TraverseRoot
<1>3. /\ calls' \in Seq(CallSet) /\ Len(calls') = Len(calls) + 1
      /\ calls'[Len(calls) + 1].n = n /\ calls'[Len(calls) + 1].todo = succs[n]
  BY <1>1, <1>2, CallAdded DEF EnterTraverse
<1>4. /\ stack' = Append(stack, n) /\ index_count' = index_count + 1
      /\ index' = [index EXCEPT ![n] = index_count]
      /\ lowlink' = [lowlink EXCEPT ![n] = index_count]
      /\ UNCHANGED <<nodes, succs, sccs>>
  BY <1>1 DEF EnterTraverse, TraverseRoot, graphVars
<1>5. \A i \in 1 .. Len(calls) : FALSE
  BY <1>2
<1>6. Entered(n)
  BY <1>2, <1>3, <1>4, <1>5 DEF Entered
<1>. QED BY <1>1, <1>6, EnteredTarjan

\* traverse is called for a successor that was not visited.
LEMMA TraverseSuccTarjan ==
  ASSUME TarjanInv, LeftGraph, TraverseSucc
  PROVE  TarjanInv'
<1>1. PICK su \in Call.todo : index[su] = -1 /\ EnterTraverse(su, Took(su))
  BY DEF TraverseSucc
<1>2. calls \in Seq(CallSet) /\ calls # <<>>
  BY DEF TarjanInv, TarjanTypes, TraverseSucc
<1>3. /\ Len(calls) \in Nat \ {0} /\ Call = calls[Len(calls)] /\ Call \in CallSet
      /\ Took(su) \in Seq(CallSet) /\ Len(Took(su)) = Len(calls)
      /\ \A i \in 1 .. Len(calls) - 1 : Took(su)[i] = calls[i]
      /\ Took(su)[Len(calls)].n = Call.n
      /\ Took(su)[Len(calls)].todo = Call.todo \ {su}
  BY <1>2, TookCalls
<1>4. su \in nodes /\ su \in succs[Call.n]
  <2>1. Call.todo \subseteq succs[Call.n]
    BY <1>3 DEF TarjanInv, CallPath
  <2>. QED BY <2>1, <1>3 DEF CallSet
<1>5. calls' = Append(Took(su), [n |-> su, todo |-> succs[su]])
  BY <1>1 DEF EnterTraverse
<1>6. /\ calls' \in Seq(CallSet) /\ Len(calls') = Len(calls) + 1
      /\ calls'[Len(calls) + 1].n = su /\ calls'[Len(calls) + 1].todo = succs[su]
      /\ \A i \in 1 .. Len(calls) : calls'[i] = Took(su)[i]
  BY <1>3, <1>4, <1>5, CallAdded
<1>7. ASSUME NEW i \in 1 .. Len(calls)
      PROVE  /\ calls'[i].n = calls[i].n /\ calls'[i].todo \subseteq calls[i].todo
             /\ \A y \in calls[i].todo : y = su \/ y \in calls'[i].todo
  <2>1. CASE i = Len(calls)
    BY <2>1, <1>3, <1>6
  <2>2. CASE i # Len(calls)
    BY <2>2, <1>3, <1>6
  <2>. QED BY <2>1, <2>2
<1>8. Entered(su)
  BY <1>1, <1>3, <1>4, <1>6, <1>7 DEF Entered, EnterTraverse, TraverseSucc, graphVars
<1>. QED BY <1>1, <1>4, <1>8, EnteredTarjan

(***************************************************************************)
(* A successor that was visited before.                                    *)
(***************************************************************************)
LEMMA SeeSuccTarjan ==
  ASSUME TarjanInv, LeftGraph, SeeSucc
  PROVE  TarjanInv'
<1>1. PICK su \in Call.todo :
        /\ index[su] # -1
        /\ calls' = Took(su)
        /\ lowlink' = IF onStack(su) THEN [lowlink EXCEPT ![Call.n] = Lower(index[su], @)]
                      ELSE lowlink
  BY DEF SeeSucc
<1>2. UNCHANGED <<nodes, succs, index, stack, index_count, sccs>>
  BY DEF SeeSucc, graphVars
<1>3. /\ TarjanTypes /\ Numbers /\ CallPath /\ SuccsSeen /\ GoneClosed /\ StackPaths /\ Lowlinks
      /\ ComponentsSoFar
  BY DEF TarjanInv
<1>4. calls \in Seq(CallSet) /\ calls # <<>>
  BY <1>3 DEF TarjanTypes, SeeSucc
<1>5. PICK K : K = Len(calls)
  OBVIOUS
<1>6. PICK n : n = Call.n
  OBVIOUS
<1>7. /\ K \in Nat \ {0} /\ Call = calls[K] /\ Call \in CallSet /\ calls[K].n = n
      /\ calls' \in Seq(CallSet) /\ Len(calls') = K
      /\ \A i \in 1 .. K - 1 : calls'[i] = calls[i]
      /\ calls'[K].n = n
      /\ calls'[K].todo = Call.todo \ {su}
  BY <1>1, <1>4, <1>5, <1>6, TookCalls
<1>8. /\ n \in nodes /\ su \in nodes /\ su \in succs[n] /\ onStack(n)
      /\ n \in Blocks /\ index[n] \in Nat /\ index[su] \in Int /\ lowlink[n] \in Int
  <2>1. calls[K].todo \subseteq succs[n] /\ onStack(n)
    BY <1>3, <1>5, <1>7 DEF CallPath
  <2>2. n \in nodes /\ index[n] \in Nat
    BY <1>3, <2>1, StackLaws
  <2>3. su \in succs[n] /\ su \in nodes
    BY <2>1, <2>2, <1>1, <1>7 DEF LeftGraph
  <2>. QED BY <2>1, <2>2, <2>3, <1>3, StackLaws DEF TarjanTypes
<1>9. \A i \in 1 .. K : calls'[i].n = calls[i].n /\ calls'[i].todo \subseteq calls[i].todo
  <2>1. ASSUME NEW i \in 1 .. K PROVE calls'[i].n = calls[i].n /\ calls'[i].todo \subseteq calls[i].todo
    <3>1. CASE i = K
      BY <3>1, <1>7
    <3>2. CASE i # K
      BY <3>2, <1>7
    <3>. QED BY <3>1, <3>2
  <2>. QED BY <2>1
<1>10. \A x, y : Looked(x, y)' => Looked(x, y) \/ (x = n /\ y = su)
  <2>1. SUFFICES ASSUME NEW x, NEW y, Looked(x, y)', ~(x = n /\ y = su),
                        NEW i \in 1 .. K, calls[i].n = x, y \in calls[i].todo
                 PROVE  FALSE
    BY <1>5 DEF Looked
  <2>2. calls'[i].n = x => y \notin calls'[i].todo
    BY <2>1, <1>7 DEF Looked
  <2>3. CASE i = K
    BY <2>1, <2>2, <2>3, <1>7
  <2>4. CASE i # K
    BY <2>1, <2>2, <2>4, <1>7
  <2>. QED BY <2>3, <2>4
<1>11. /\ \A x : onStack(x)' <=> onStack(x)
       /\ nodes' = nodes /\ succs' = succs /\ index' = index /\ sccs' = sccs
       /\ Components' = Components /\ \A a : Reach(a)' = Reach(a)
  BY <1>2, SameReach DEF onStack
<1>12. Gone' = Gone
  BY <1>11 DEF Gone
<1>13. TarjanTypes'
  <2>1. lowlink' \in [Blocks -> Int]
    BY <1>1, <1>3, <1>8 DEF TarjanTypes, Lower
  <2>2. CallSet' = CallSet
    BY <1>2 DEF CallSet
  <2>. QED BY <2>1, <2>2, <1>2, <1>3, <1>7 DEF TarjanTypes
<1>14. Numbers'
  BY <1>2, <1>3 DEF Numbers
<1>15. CallPath'
  <2>1. ASSUME NEW i \in 1 .. K PROVE onStack(calls[i].n)'
    <3>1. PICK c : c = calls'[i].n
      OBVIOUS
    <3>2. onStack(c)
      BY <3>1, <1>3, <1>5, <1>9 DEF CallPath
    <3>. QED BY <3>1, <3>2, <1>11
  <2>2. ASSUME NEW i \in 1 .. K PROVE calls'[i].todo \subseteq succs[calls'[i].n]
    BY <1>3, <1>5, <1>9 DEF CallPath
  <2>3. \A i, j \in 1 .. K : i < j => index[calls'[i].n] < index[calls'[j].n]
    BY <1>3, <1>5, <1>9 DEF CallPath
  <2>4. ASSUME NEW i \in 1 .. K - 1 PROVE calls'[i + 1].n \in succs[calls'[i].n]
    <3>1. i \in 1 .. K /\ i + 1 \in 1 .. K
      BY <1>7
    <3>. QED BY <3>1, <1>3, <1>5, <1>9 DEF CallPath
  <2>. QED BY <2>1, <2>2, <2>3, <2>4, <1>7, <1>11 DEF CallPath
<1>16. SuccsSeen'
  BY <1>1, <1>3, <1>10, <1>11 DEF SuccsSeen
<1>17. GoneClosed'
  BY <1>3, <1>11, <1>12 DEF GoneClosed
<1>18. ComponentsSoFar'
  BY <1>3, <1>11, <1>12 DEF ComponentsSoFar
<1>19. StackPaths'
  <2>1. \A y \in nodes : onStack(y) =>
          \E i \in 1 .. K : index[calls'[i].n] <= index[y] /\ calls'[i].n \in Reach(y)
    BY <1>3, <1>5, <1>9 DEF StackPaths
  <2>2. \A x, y \in nodes : onStack(x) /\ onStack(y) /\ index[x] <= index[y] => y \in Reach(x)
    BY <1>3 DEF StackPaths
  <2>. QED BY <2>1, <2>2, <1>7, <1>11 DEF StackPaths
<1>20. Lowlinks'
  <2>1. \A x \in nodes : x # n => lowlink'[x] = lowlink[x]
    BY <1>1, <1>3, <1>6 DEF TarjanTypes
  <2>2. /\ onStack(su) => lowlink'[n] = Lower(index[su], lowlink[n])
        /\ ~onStack(su) => lowlink'[n] = lowlink[n]
    BY <1>1, <1>3, <1>6, <1>8 DEF TarjanTypes
  <2>3. lowlink'[n] <= lowlink[n] /\ lowlink'[n] \in Int
    BY <2>2, <1>8 DEF Lower
  <2>4. ASSUME NEW i \in 1 .. K
        PROVE  /\ calls'[i].n = calls[i].n /\ calls[i].n \in nodes /\ onStack(calls[i].n)
               /\ i # K => calls[i].n # n
               /\ index[calls[i].n] \in Nat
    <3>1. calls'[i].n = calls[i].n
      BY <1>9
    <3>2. onStack(calls[i].n)
      BY <1>3, <1>5 DEF CallPath
    <3>3. calls[i].n \in nodes /\ index[calls[i].n] \in Nat
      BY <3>2, <1>3, StackLaws
    <3>4. i # K => index[calls[i].n] < index[n]
      BY <1>3, <1>5, <1>7 DEF CallPath
    <3>. QED BY <3>1, <3>2, <3>3, <3>4, <1>8
  <2>5. ASSUME NEW i \in 1 .. K
        PROVE  /\ lowlink'[calls'[i].n] <= lowlink[calls[i].n]
               /\ lowlink'[calls'[i].n] \in Int /\ lowlink[calls[i].n] \in Int
    <3>1. CASE i = K
      BY <3>1, <2>3, <1>7, <1>8
    <3>2. CASE i # K
      BY <3>2, <2>1, <2>4, <1>3, StackLaws
    <3>. QED BY <3>1, <3>2
  <2>6. ASSUME NEW i \in 1 .. K
        PROVE  \E m \in nodes : onStack(m) /\ index[m] = lowlink'[calls'[i].n] /\ m \in Reach(calls'[i].n)
    <3>1. PICK m \in nodes : onStack(m) /\ index[m] = lowlink[calls[i].n] /\ m \in Reach(calls[i].n)
      BY <1>3, <1>5 DEF Lowlinks
    <3>2. CASE lowlink'[calls'[i].n] = lowlink[calls[i].n]
      BY <3>1, <3>2, <2>4
    <3>3. CASE lowlink'[calls'[i].n] # lowlink[calls[i].n]
      <4>1. i = K
        BY <3>3, <2>1, <2>4
      <4>2. onStack(su) /\ lowlink'[n] = index[su]
        BY <4>1, <3>3, <2>2, <1>7 DEF Lower
      <4>3. su \in Reach(n)
        BY <1>8, ReachLaws DEF LeftGraph
      <4>. QED BY <4>1, <4>2, <4>3, <1>7, <1>8
    <3>. QED BY <3>2, <3>3
  <2>7. ASSUME NEW i \in 1 .. K, NEW x \in nodes, NEW y \in succs[x],
               onStack(x), onStack(y), VisitedBy(x, i)', Looked(x, y)'
        PROVE  lowlink'[calls'[i].n] <= index[y]
    <3>1. VisitedBy(x, i)
      <4>1. index[calls[i].n] <= index[x]
        BY <2>7, <1>9, <1>11 DEF VisitedBy
      <4>2. i < K => index[x] < index[calls[i + 1].n]
        <5>1. i < K => i + 1 \in 1 .. K
          BY <1>7
        <5>. QED BY <5>1, <2>7, <1>7, <1>9, <1>11 DEF VisitedBy
      <4>. QED BY <4>1, <4>2, <1>5 DEF VisitedBy
    <3>2. CASE Looked(x, y)
      <4>1. lowlink[calls[i].n] <= index[y]
        BY <3>1, <3>2, <2>7, <1>3, <1>5 DEF Lowlinks
      <4>2. index[y] \in Int
        BY <2>7, <1>3, StackLaws
      <4>. QED BY <4>1, <4>2, <2>5
    <3>3. CASE x = n /\ y = su
      <4>1. i = K
        <5>1. SUFFICES ASSUME i # K PROVE FALSE
          OBVIOUS
        <5>2. i + 1 \in 1 .. K /\ i < K
          BY <5>1, <1>7
        <5>3. index[n] < index[calls[i + 1].n]
          BY <5>2, <3>1, <3>3, <1>5 DEF VisitedBy
        <5>4. i + 1 = K \/ index[calls[i + 1].n] < index[n]
          BY <5>2, <1>3, <1>5, <1>7 DEF CallPath
        <5>. QED BY <5>2, <5>3, <5>4, <2>4, <1>7, <1>8
      <4>2. lowlink'[n] <= index[su]
        BY <3>3, <2>2, <2>7, <1>8 DEF Lower
      <4>. QED BY <4>1, <4>2, <3>3, <1>7
    <3>. QED BY <3>2, <3>3, <2>7, <1>10
  <2>8. ASSUME NEW i \in 1 .. K PROVE lowlink'[calls'[i].n] <= index[calls'[i].n]
    <3>1. lowlink[calls[i].n] <= index[calls[i].n]
      BY <1>3, <1>5 DEF Lowlinks
    <3>. QED BY <3>1, <2>4, <2>5
  <2>. QED BY <2>6, <2>7, <2>8, <1>7, <1>11 DEF Lowlinks
<1>. QED BY <1>13, <1>14, <1>15, <1>16, <1>17, <1>18, <1>19, <1>20 DEF TarjanInv

(***************************************************************************)
(* The end of a call.                                                      *)
(***************************************************************************)
LEMMA ReturnedCalls ==
  ASSUME TarjanInv, LeftGraph, ReturnFromTraverse
  PROVE  /\ Len(calls) \in Nat \ {0} /\ Call = calls[Len(calls)] /\ Call.todo = {}
         /\ Call.n \in nodes /\ onStack(Call.n) /\ index[Call.n] \in Nat
         /\ Len(calls') = Len(calls) - 1 /\ calls' \in Seq(CallSet)
         /\ \A i \in 1 .. Len(calls) - 1 :
              /\ calls'[i] = calls[i] /\ calls[i].n \in nodes /\ onStack(calls[i].n)
              /\ index[calls[i].n] \in Nat /\ index[calls[i].n] < index[Call.n]
         /\ \A x, y : Looked(x, y)' => Looked(x, y)
         /\ \A x \in nodes : \A y : (\A i \in 1 .. Len(calls) - 1 : calls[i].n # x) => Looked(x, y)
         /\ nodes' = nodes /\ succs' = succs /\ index' = index /\ index_count' = index_count
         /\ Components' = Components /\ \A a : Reach(a)' = Reach(a)
<1>1. TarjanTypes /\ Numbers /\ CallPath
  BY DEF TarjanInv
<1>2. PICK K : K = Len(calls)
  OBVIOUS
<1>3. calls \in Seq(CallSet) /\ calls # <<>>
  BY <1>1 DEF TarjanTypes, ReturnFromTraverse
<1>4. /\ K \in Nat \ {0} /\ Call = calls[K]
      /\ Front(calls) \in Seq(CallSet) /\ Len(Front(calls)) = K - 1
      /\ \A i \in 1 .. K - 1 : Front(calls)[i] = calls[i]
  <2>. HIDE DEF CallSet
  <2>. QED BY <1>2, <1>3, FrontAndLast DEF Call
<1>5. Call.todo = {} /\ calls' = Front(calls)
  BY DEF ReturnFromTraverse
<1>6. nodes' = nodes /\ succs' = succs /\ index' = index /\ index_count' = index_count
  BY DEF ReturnFromTraverse, graphVars
<1>7. \A i \in 1 .. K : onStack(calls[i].n) /\ calls[i].n \in nodes /\ index[calls[i].n] \in Nat
  <2>1. \A i \in 1 .. K : onStack(calls[i].n)
    BY <1>1, <1>2 DEF CallPath
  <2>. QED BY <2>1, <1>1, StackLaws
<1>8. Call.n \in nodes /\ onStack(Call.n) /\ index[Call.n] \in Nat
  BY <1>4, <1>7
<1>9. ASSUME NEW i \in 1 .. K - 1
      PROVE  /\ calls'[i] = calls[i] /\ calls[i].n \in nodes /\ onStack(calls[i].n)
             /\ index[calls[i].n] \in Nat /\ index[calls[i].n] < index[Call.n]
  <2>1. i \in 1 .. K /\ K \in 1 .. K /\ i < K
    BY <1>4
  <2>2. index[calls[i].n] < index[calls[K].n]
    BY <2>1, <1>1, <1>2 DEF CallPath
  <2>. QED BY <2>1, <2>2, <1>4, <1>5, <1>7
<1>10. ASSUME NEW x, NEW y, Looked(x, y)' PROVE Looked(x, y)
  <2>1. SUFFICES ASSUME NEW i \in 1 .. K, calls[i].n = x PROVE y \notin calls[i].todo
    BY <1>2 DEF Looked
  <2>2. CASE i = K
    BY <2>2, <1>4, <1>5
  <2>3. CASE i # K
    <3>1. i \in 1 .. K - 1 /\ Len(calls') = K - 1
      BY <2>3, <1>4, <1>5
    <3>2. calls'[i] = calls[i]
      BY <3>1, <1>9
    <3>3. calls'[i].n = x => y \notin calls'[i].todo
      BY <3>1, <1>10 DEF Looked
    <3>. QED BY <3>2, <3>3, <2>1
  <2>. QED BY <2>2, <2>3
<1>11. ASSUME NEW x \in nodes, NEW y, \A i \in 1 .. K - 1 : calls[i].n # x PROVE Looked(x, y)
  <2>1. SUFFICES ASSUME NEW i \in 1 .. K, calls[i].n = x PROVE y \notin calls[i].todo
    BY <1>2 DEF Looked
  <2>2. i = K
    BY <2>1, <1>4, <1>11
  <2>. QED BY <2>2, <1>4, <1>5
<1>12. Components' = Components /\ \A a : Reach(a)' = Reach(a)
  BY <1>6, SameReach
<1>. QED BY <1>2, <1>4, <1>5, <1>6, <1>8, <1>9, <1>10, <1>11, <1>12

\* What holds after every return, popping or not.
LEMMA ReturnedAlways ==
  ASSUME TarjanInv, LeftGraph, ReturnFromTraverse
  PROVE  /\ lowlink' \in [Blocks -> Int]
         /\ \A x \in nodes : (Len(calls) = 1 \/ x # calls[Len(calls) - 1].n) => lowlink'[x] = lowlink[x]
         /\ Len(calls) > 1 => lowlink'[calls[Len(calls) - 1].n]
                                = Lower(lowlink[Call.n], lowlink[calls[Len(calls) - 1].n])
         /\ \A i \in 1 .. Len(calls') : calls'[i].todo \subseteq succs[calls'[i].n]
         /\ \A i, j \in 1 .. Len(calls') : i < j => index[calls'[i].n] < index[calls'[j].n]
         /\ \A i \in 1 .. Len(calls') - 1 : calls'[i + 1].n \in succs[calls'[i].n]
         /\ SuccsSeen'
<1>1. TarjanTypes /\ Numbers /\ CallPath /\ SuccsSeen
  BY DEF TarjanInv
<1>2. PICK K : K = Len(calls)
  OBVIOUS
<1>3. PICK n : n = Call.n
  OBVIOUS
<1>4. /\ K \in Nat \ {0} /\ n \in nodes
      /\ Len(calls') = K - 1 /\ calls' \in Seq(CallSet)
      /\ \A i \in 1 .. K - 1 : calls'[i] = calls[i] /\ calls[i].n \in nodes
      /\ \A x, y : Looked(x, y)' => Looked(x, y)
      /\ nodes' = nodes /\ succs' = succs /\ index' = index
  BY <1>2, <1>3, ReturnedCalls
<1>5. lowlink' = IF calls' = <<>> THEN lowlink
                 ELSE [lowlink EXCEPT ![Last(calls').n] = Lower(lowlink[Call.n], @)]
  BY DEF ReturnFromTraverse
<1>6. CASE K = 1
  <2>1. calls' = <<>>
    BY <1>4, <1>6
  <2>2. lowlink' = lowlink
    BY <1>5, <2>1
  <2>3. \A i \in 1 .. Len(calls') : FALSE
    BY <1>4, <1>6
  <2>4. SuccsSeen'
    BY <1>1, <1>4 DEF SuccsSeen
  <2>5. Len(calls) = 1 /\ ~(Len(calls) > 1)
    BY <1>2, <1>6
  <2>6. \A i \in 1 .. Len(calls') - 1 : FALSE
    BY <1>4, <1>6
  <2>. QED BY <2>2, <2>3, <2>4, <2>5, <2>6, <1>1 DEF TarjanTypes
<1>7. CASE K # 1
  <2>1. calls' # <<>> /\ Len(calls') \in 1 .. K - 1 /\ K - 1 \in 1 .. K - 1
    BY <1>4, <1>7
  <2>2. Last(calls') = calls[K - 1]
    <3>1. Last(calls') = calls'[Len(calls')]
      BY DEF Last
    <3>. QED BY <2>1, <3>1, <1>4
  <2>3. PICK c : c = calls[K - 1].n
    OBVIOUS
  <2>4. c \in nodes /\ c \in Blocks /\ lowlink[n] \in Int /\ lowlink[c] \in Int
    BY <2>1, <2>3, <1>1, <1>4 DEF TarjanTypes
  <2>5. lowlink' = [lowlink EXCEPT ![c] = Lower(lowlink[n], lowlink[c])]
    BY <1>3, <1>5, <2>1, <2>2, <2>3
  <2>6. lowlink' \in [Blocks -> Int] /\ lowlink'[c] = Lower(lowlink[n], lowlink[c])
        /\ \A x \in nodes : x # c => lowlink'[x] = lowlink[x]
    BY <2>4, <2>5, <1>1 DEF TarjanTypes, Lower
  <2>7. \A i \in 1 .. K - 1 : i \in 1 .. K
    BY <1>4
  <2>8. \A i \in 1 .. K - 1 : calls'[i].todo \subseteq succs[calls'[i].n]
    BY <2>7, <1>1, <1>2, <1>4 DEF CallPath
  <2>9. \A i, j \in 1 .. K - 1 : i < j => index[calls'[i].n] < index[calls'[j].n]
    BY <2>7, <1>1, <1>2, <1>4 DEF CallPath
  <2>10. ASSUME NEW i \in 1 .. (K - 1) - 1 PROVE calls'[i + 1].n \in succs[calls'[i].n]
    <3>1. i \in 1 .. K - 1 /\ i + 1 \in 1 .. K - 1
      BY <1>4
    <3>. QED BY <3>1, <1>1, <1>2, <1>4 DEF CallPath
  <2>11. SuccsSeen'
    BY <1>1, <1>4 DEF SuccsSeen
  <2>. QED BY <2>3, <2>6, <2>8, <2>9, <2>10, <2>11, <1>2, <1>3, <1>4, <1>7
<1>. QED BY <1>6, <1>7

\* A node that leads to one visited before stays on the stack.
LEMMA StaysTarjan ==
  ASSUME TarjanInv, LeftGraph, ReturnFromTraverse, index[Call.n] # lowlink[Call.n]
  PROVE  TarjanInv'
<1>1. /\ TarjanTypes /\ Numbers /\ CallPath /\ GoneClosed /\ StackPaths /\ Lowlinks /\ ComponentsSoFar
  BY DEF TarjanInv
<1>2. PICK K : K = Len(calls)
  OBVIOUS
<1>3. PICK n : n = Call.n
  OBVIOUS
<1>4. /\ K \in Nat \ {0} /\ calls[K].n = n /\ n \in nodes /\ onStack(n) /\ index[n] \in Nat
      /\ Len(calls') = K - 1 /\ calls' \in Seq(CallSet)
      /\ \A i \in 1 .. K - 1 : /\ calls'[i] = calls[i] /\ calls[i].n \in nodes /\ onStack(calls[i].n)
                               /\ index[calls[i].n] \in Nat /\ index[calls[i].n] < index[n]
      /\ \A x, y : Looked(x, y)' => Looked(x, y)
  BY <1>2, <1>3, ReturnedCalls
<1>5. /\ nodes' = nodes /\ succs' = succs /\ index' = index /\ index_count' = index_count
      /\ Components' = Components /\ \A a : Reach(a)' = Reach(a)
  BY ReturnedCalls
<1>6. stack' = stack /\ sccs' = sccs
  BY DEF ReturnFromTraverse
<1>7. \A x : onStack(x)' <=> onStack(x)
  BY <1>6 DEF onStack
<1>8. Gone' = Gone
  BY <1>5, <1>7 DEF Gone
<1>9. /\ lowlink[n] < index[n] /\ lowlink[n] \in Int
      /\ \E m \in nodes : onStack(m) /\ index[m] = lowlink[n] /\ m \in Reach(n)
  <2>1. K \in 1 .. Len(calls)
    BY <1>2, <1>4
  <2>2. lowlink[n] <= index[n] /\ \E m \in nodes : onStack(m) /\ index[m] = lowlink[n] /\ m \in Reach(n)
    BY <2>1, <1>1, <1>4 DEF Lowlinks
  <2>. QED BY <2>2, <1>1, <1>3, <1>4, StackLaws
<1>10. PICK m \in nodes : onStack(m) /\ index[m] = lowlink[n] /\ m \in Reach(n)
  BY <1>9
<1>11. PICK g \in 1 .. K - 1 : calls[g].n \in Reach(n)
  <2>1. PICK i \in 1 .. K : index[calls[i].n] <= index[m] /\ calls[i].n \in Reach(m)
    BY <1>1, <1>2, <1>10 DEF StackPaths
  <2>2. i # K
    BY <2>1, <1>4, <1>9, <1>10
  <2>3. calls[i].n \in Reach(n)
    BY <2>1, <1>4, <1>10, ReachLaws DEF LeftGraph
  <2>. QED BY <2>2, <2>3, <1>4
<1>12. TarjanTypes'
  <2>1. lowlink' \in [Blocks -> Int] /\ CallSet' = CallSet
    BY <1>5, ReturnedAlways DEF CallSet
  <2>. QED BY <2>1, <1>1, <1>4, <1>5, <1>6 DEF TarjanTypes
<1>13. Numbers'
  BY <1>1, <1>5, <1>6 DEF Numbers
<1>14. CallPath'
  <2>1. ASSUME NEW i \in 1 .. K - 1 PROVE onStack(calls[i].n)'
    <3>1. PICK c : c = calls'[i].n
      OBVIOUS
    <3>2. onStack(c)
      BY <3>1, <1>4
    <3>. QED BY <3>1, <3>2, <1>7
  <2>2. /\ \A i \in 1 .. K - 1 : calls'[i].todo \subseteq succs[calls'[i].n]
        /\ \A i, j \in 1 .. K - 1 : i < j => index[calls'[i].n] < index[calls'[j].n]
        /\ \A i \in 1 .. (K - 1) - 1 : calls'[i + 1].n \in succs[calls'[i].n]
    BY <1>4, ReturnedAlways
  <2>. QED BY <2>1, <2>2, <1>4, <1>5 DEF CallPath
<1>15. SuccsSeen'
  BY ReturnedAlways
<1>16. GoneClosed'
  BY <1>1, <1>5, <1>8 DEF GoneClosed
<1>17. ComponentsSoFar'
  BY <1>1, <1>5, <1>6, <1>8 DEF ComponentsSoFar
<1>18. StackPaths'
  <2>1. ASSUME NEW y \in nodes, onStack(y)
        PROVE  \E i \in 1 .. K - 1 : index[calls'[i].n] <= index[y] /\ calls'[i].n \in Reach(y)
    <3>1. PICK i \in 1 .. K : index[calls[i].n] <= index[y] /\ calls[i].n \in Reach(y)
      BY <2>1, <1>1, <1>2 DEF StackPaths
    <3>2. CASE i = K
      <4>1. n \in Reach(y) /\ index[n] <= index[y] /\ index[y] \in Int
        BY <3>1, <3>2, <2>1, <1>1, <1>4, StackLaws
      <4>2. calls[g].n \in Reach(y)
        BY <4>1, <2>1, <1>11, ReachLaws DEF LeftGraph
      <4>3. index[calls[g].n] < index[n] /\ index[calls[g].n] \in Nat /\ calls'[g] = calls[g]
        BY <1>4
      <4>. QED BY <4>1, <4>2, <4>3, <1>4
    <3>3. CASE i # K
      BY <3>1, <3>3, <1>4
    <3>. QED BY <3>2, <3>3
  <2>2. \A x, y \in nodes : onStack(x) /\ onStack(y) /\ index[x] <= index[y] => y \in Reach(x)
    BY <1>1 DEF StackPaths
  <2>. QED BY <2>1, <2>2, <1>4, <1>5, <1>7 DEF StackPaths
<1>19. Lowlinks'
  <2>1. ASSUME NEW i \in 1 .. K - 1
        PROVE  /\ lowlink[calls[i].n] \in Int /\ lowlink[calls[i].n] <= index[calls[i].n]
               /\ lowlink'[calls'[i].n] \in Int
               /\ lowlink'[calls'[i].n] <= lowlink[calls[i].n]
               /\ i # K - 1 => lowlink'[calls'[i].n] = lowlink[calls[i].n]
               /\ i = K - 1 => lowlink'[calls'[i].n] = Lower(lowlink[n], lowlink[calls[i].n])
               /\ index[calls'[i].n] = index[calls[i].n] /\ index[calls[i].n] \in Int
    <3>1. calls'[i] = calls[i] /\ calls[i].n \in nodes /\ index[calls[i].n] \in Int
      BY <1>4
    <3>2. lowlink[calls[i].n] <= index[calls[i].n]
      <4>1. i \in 1 .. Len(calls)
        BY <1>2, <1>4
      <4>. QED BY <4>1, <1>1 DEF Lowlinks
    <3>3. lowlink[calls[i].n] \in Int
      BY <3>1, <1>1, StackLaws
    <3>4. CASE i = K - 1
      <4>1. Len(calls) > 1 /\ i = Len(calls) - 1
        BY <3>4, <1>2, <1>4
      <4>2. lowlink'[calls[i].n] = Lower(lowlink[n], lowlink[calls[i].n])
        BY <4>1, <1>3, ReturnedAlways
      <4>3. /\ Lower(lowlink[n], lowlink[calls[i].n]) <= lowlink[calls[i].n]
            /\ Lower(lowlink[n], lowlink[calls[i].n]) \in Int
        BY <3>3, <1>9 DEF Lower
      <4>. QED BY <3>1, <3>2, <3>3, <3>4, <4>2, <4>3
    <3>5. CASE i # K - 1
      <4>1. i \in 1 .. K /\ K - 1 \in 1 .. K /\ i < K - 1
        BY <3>5, <1>4
      <4>2. index[calls[i].n] < index[calls[K - 1].n]
        BY <4>1, <1>1, <1>2 DEF CallPath
      <4>3. calls[i].n # calls[K - 1].n
        BY <4>2, <3>1
      <4>4. lowlink'[calls[i].n] = lowlink[calls[i].n]
        BY <4>3, <3>1, <1>2, ReturnedAlways
      <4>. QED BY <3>1, <3>2, <3>3, <3>5, <4>4
    <3>. QED BY <3>4, <3>5
  <2>2. ASSUME NEW i \in 1 .. K - 1
        PROVE  \E w \in nodes : onStack(w) /\ index[w] = lowlink'[calls'[i].n] /\ w \in Reach(calls'[i].n)
    <3>0. i \in 1 .. Len(calls) /\ calls'[i] = calls[i] /\ calls[i].n \in nodes
      BY <1>2, <1>4
    <3>1. CASE lowlink'[calls'[i].n] = lowlink[calls[i].n]
      <4>1. PICK w \in nodes : onStack(w) /\ index[w] = lowlink[calls[i].n] /\ w \in Reach(calls[i].n)
        BY <3>0, <1>1 DEF Lowlinks
      <4>. QED BY <4>1, <3>0, <3>1
    <3>2. CASE lowlink'[calls'[i].n] # lowlink[calls[i].n]
      <4>1. i = K - 1 /\ lowlink'[calls'[i].n] = lowlink[n]
        BY <3>2, <2>1 DEF Lower
      <4>2. calls[i + 1].n \in succs[calls[i].n] /\ i + 1 = K
        <5>1. i \in 1 .. Len(calls) - 1 /\ i + 1 = K
          BY <4>1, <1>2, <1>4
        <5>. QED BY <5>1, <1>1 DEF CallPath
      <4>3. n \in Reach(calls[i].n)
        BY <4>2, <3>0, <1>4, ReachLaws DEF LeftGraph
      <4>4. m \in Reach(calls[i].n)
        BY <4>3, <3>0, <1>10, ReachLaws DEF LeftGraph
      <4>. QED BY <4>1, <4>4, <3>0, <1>10
    <3>. QED BY <3>1, <3>2
  <2>3. ASSUME NEW i \in 1 .. K - 1, NEW x \in nodes, NEW y \in succs[x],
               onStack(x), onStack(y), VisitedBy(x, i)', Looked(x, y)
        PROVE  lowlink'[calls'[i].n] <= index[y]
    <3>0. index[y] \in Int /\ index[x] \in Int /\ i \in 1 .. Len(calls) /\ K \in 1 .. Len(calls)
      BY <2>3, <1>1, <1>2, <1>4, StackLaws
    <3>1. index[calls[i].n] <= index[x] /\ (i < K - 1 => index[x] < index[calls[i + 1].n])
      <4>1. index[calls'[i].n] <= index[x] /\ (i < K - 1 => index[x] < index[calls'[i + 1].n])
        BY <2>3, <1>4, <1>5 DEF VisitedBy
      <4>2. i < K - 1 => i + 1 \in 1 .. K - 1
        BY <1>4
      <4>. QED BY <4>1, <4>2, <1>4
    <3>2. CASE VisitedBy(x, i)
      <4>1. lowlink[calls[i].n] <= index[y]
        BY <3>0, <3>2, <2>3, <1>1 DEF Lowlinks
      <4>. QED BY <4>1, <3>0, <2>1
    <3>3. CASE ~VisitedBy(x, i)
      <4>1. i < Len(calls) /\ ~(index[x] < index[calls[i + 1].n])
        BY <3>1, <3>3 DEF VisitedBy
      <4>2. i = K - 1 /\ i + 1 = K
        BY <4>1, <3>1, <1>2, <1>4
      <4>3. VisitedBy(x, K)
        <5>1. index[n] <= index[x]
          BY <4>1, <4>2, <3>0, <1>4
        <5>2. ~(K < Len(calls))
          BY <1>2, <1>4
        <5>. QED BY <5>1, <5>2, <1>4 DEF VisitedBy
      <4>4. lowlink[n] <= index[y]
        BY <4>3, <3>0, <2>3, <1>1, <1>4 DEF Lowlinks
      <4>5. lowlink'[calls'[i].n] <= lowlink[n]
        BY <4>2, <2>1, <1>9 DEF Lower
      <4>. QED BY <4>4, <4>5, <3>0, <2>1, <1>9
    <3>. QED BY <3>2, <3>3
  <2>4. \A i \in 1 .. K - 1 : lowlink'[calls'[i].n] <= index[calls'[i].n]
    BY <2>1
  <2>. QED BY <2>2, <2>3, <2>4, <1>4, <1>5, <1>7 DEF Lowlinks
<1>. QED BY <1>12, <1>13, <1>14, <1>15, <1>16, <1>17, <1>18, <1>19 DEF TarjanInv

(***************************************************************************)
(* The end of a call that pops a component.                                *)
(***************************************************************************)
\* n and what is above it on the stack.
Top(n) == {x \in nodes : onStack(x) /\ index[n] <= index[x]}

\* The stack and the components found after a pop, by Top.
LEMMA PoppedStack ==
  ASSUME TarjanInv, LeftGraph, ReturnFromTraverse, index[Call.n] = lowlink[Call.n]
  PROVE  /\ \A x : onStack(x)' <=> onStack(x) /\ index[x] < index[Call.n]
         /\ sccs' = IF Cardinality(Top(Call.n)) = 1 THEN sccs ELSE sccs \union {Top(Call.n)}
         /\ stack' \in Seq(nodes)
         /\ \A i \in 1 .. Len(stack') : index[stack'[i]] # -1
         /\ \A i, j \in 1 .. Len(stack') : i < j => index[stack'[i]] < index[stack'[j]]
<1>1. TarjanTypes /\ Numbers
  BY DEF TarjanInv
<1>2. PICK n : n = Call.n
  OBVIOUS
<1>3. n \in nodes /\ onStack(n) /\ index[n] \in Nat
  BY <1>2, ReturnedCalls
<1> DEFINE at == CHOOSE i \in DOMAIN stack : stack[i] = n
           set == {stack[i] : i \in at .. Len(stack)}
<1>4. Len(stack) \in Nat /\ DOMAIN stack = 1 .. Len(stack)
      /\ \A i \in 1 .. Len(stack) : stack[i] \in nodes
  BY <1>1 DEF TarjanTypes
<1>5. \A x : onStack(x) <=> \E i \in 1 .. Len(stack) : stack[i] = x
  BY <1>1, StackLaws
<1>6. at \in 1 .. Len(stack) /\ stack[at] = n
  <2>1. \E i \in DOMAIN stack : stack[i] = n
    BY <1>3, <1>4, <1>5
  <2>. QED BY <2>1, <1>4
<1>7. /\ stack' = SubSeq(stack, 1, at - 1)
      /\ sccs' = IF Cardinality(set) = 1 THEN sccs ELSE sccs \union {set}
  BY <1>2 DEF ReturnFromTraverse
<1>. HIDE DEF at
<1>8. \A i \in 1 .. Len(stack) : index[stack[i]] \in Int
  BY <1>1, <1>4, StackLaws
<1>9. \A i \in 1 .. Len(stack) : i < at <=> index[stack[i]] < index[n]
  <2>1. SUFFICES ASSUME NEW i \in 1 .. Len(stack) PROVE i < at <=> index[stack[i]] < index[n]
    OBVIOUS
  <2>2. i < at => index[stack[i]] < index[n]
    BY <1>1, <1>6 DEF Numbers
  <2>3. at < i => index[n] < index[stack[i]]
    BY <1>1, <1>6 DEF Numbers
  <2>4. i = at => index[stack[i]] = index[n]
    BY <1>6
  <2>. QED BY <2>2, <2>3, <2>4, <1>3, <1>4, <1>6, <1>8
<1>10. /\ Len(stack') = at - 1 /\ stack' \in Seq(nodes)
       /\ \A i \in 1 .. at - 1 : stack'[i] = stack[i]
  <2>1. stack \in Seq(nodes)
    BY <1>1 DEF TarjanTypes
  <2>2. at - 1 \in 0 .. Len(stack)
    BY <1>4, <1>6
  <2>3. stack' = [i \in 1 .. at - 1 |-> stack[i]]
    BY <2>1, <2>2, <1>4, <1>7
  <2>4. \A i \in 1 .. at - 1 : stack[i] \in nodes
    BY <2>2, <1>4
  <2>. QED BY <2>2, <2>3, <2>4
<1>11. \A x : onStack(x)' <=> \E i \in 1 .. at - 1 : stack[i] = x
  <2>1. DOMAIN stack' = 1 .. at - 1
    BY <1>6, <1>10
  <2>. QED BY <2>1, <1>10 DEF onStack, Range
<1>12. ASSUME NEW x PROVE onStack(x)' <=> onStack(x) /\ index[x] < index[n]
  <2>1. ASSUME onStack(x)' PROVE onStack(x) /\ index[x] < index[n]
    <3>1. PICK i \in 1 .. at - 1 : stack[i] = x
      BY <1>11, <2>1
    <3>2. i \in 1 .. Len(stack) /\ i < at
      BY <1>4, <1>6
    <3>. QED BY <3>1, <3>2, <1>5, <1>9
  <2>2. ASSUME onStack(x), index[x] < index[n] PROVE onStack(x)'
    <3>1. PICK i \in 1 .. Len(stack) : stack[i] = x
      BY <1>5, <2>2
    <3>2. i \in 1 .. at - 1
      BY <3>1, <2>2, <1>4, <1>6, <1>9
    <3>. QED BY <3>1, <3>2, <1>11
  <2>. QED BY <2>1, <2>2
<1>13. set = Top(n)
  <2>1. ASSUME NEW i \in at .. Len(stack) PROVE stack[i] \in Top(n)
    <3>1. i \in 1 .. Len(stack) /\ ~(i < at)
      BY <1>4, <1>6
    <3>2. index[n] <= index[stack[i]]
      BY <3>1, <1>3, <1>8, <1>9
    <3>. QED BY <3>1, <3>2, <1>4, <1>5 DEF Top
  <2>2. ASSUME NEW x \in Top(n) PROVE x \in set
    <3>1. PICK i \in 1 .. Len(stack) : stack[i] = x
      BY <1>5, <2>2 DEF Top
    <3>2. ~(index[stack[i]] < index[n])
      BY <3>1, <2>2, <1>3, <1>8 DEF Top
    <3>3. i \in at .. Len(stack)
      BY <3>2, <1>4, <1>6, <1>9
    <3>. QED BY <3>1, <3>3
  <2>. QED BY <2>1, <2>2
<1>14. /\ \A i \in 1 .. at - 1 : index[stack[i]] # -1
       /\ \A i, j \in 1 .. at - 1 : i < j => index[stack[i]] < index[stack[j]]
  <2>1. \A i \in 1 .. at - 1 : i \in 1 .. Len(stack)
    BY <1>4, <1>6
  <2>. QED BY <2>1, <1>1 DEF Numbers
<1>15. /\ \A i \in 1 .. Len(stack') : index[stack'[i]] # -1
       /\ \A i, j \in 1 .. Len(stack') : i < j => index[stack'[i]] < index[stack'[j]]
  BY <1>10, <1>14
<1>. QED BY <1>2, <1>7, <1>10, <1>12, <1>13, <1>15

\* What is popped leads to nothing else that was not gone before.
LEMMA TopClosed ==
  ASSUME TarjanInv, LeftGraph, ReturnFromTraverse, index[Call.n] = lowlink[Call.n],
         NEW x \in Top(Call.n), NEW y \in succs[x]
  PROVE  y \in Gone \union Top(Call.n)
<1>1. TarjanTypes /\ Numbers /\ SuccsSeen /\ Lowlinks
  BY DEF TarjanInv
<1>2. PICK K : K = Len(calls)
  OBVIOUS
<1>3. PICK n : n = Call.n
  OBVIOUS
<1>4. /\ K \in Nat \ {0} /\ K \in 1 .. Len(calls) /\ calls[K].n = n /\ n \in nodes /\ index[n] \in Nat
      /\ \A i \in 1 .. K - 1 : index[calls[i].n] \in Nat /\ index[calls[i].n] < index[n]
  BY <1>2, <1>3, ReturnedCalls
<1>5. x \in nodes /\ onStack(x) /\ index[n] <= index[x] /\ index[x] \in Nat /\ y \in nodes
  BY <1>1, <1>3, StackLaws DEF Top, LeftGraph
<1>6. Looked(x, y)
  <2>1. \A i \in 1 .. K - 1 : calls[i].n # x
    BY <1>4, <1>5
  <2>. QED BY <2>1, <1>2, <1>5, ReturnedCalls
<1>7. index[y] # -1
  BY <1>1, <1>5, <1>6 DEF SuccsSeen
<1>8. ASSUME onStack(y) PROVE y \in Top(n)
  <2>1. VisitedBy(x, K)
    BY <1>2, <1>4, <1>5 DEF VisitedBy
  <2>2. lowlink[n] <= index[y]
    BY <2>1, <1>1, <1>4, <1>5, <1>6, <1>8 DEF Lowlinks
  <2>. QED BY <2>2, <1>3, <1>5, <1>8 DEF Top
<1>. QED BY <1>3, <1>5, <1>7, <1>8 DEF Gone

\* What is popped is strongly connected, and neither it nor what was gone before
\* leads to the rest of the stack.
LEMMA TopIsClass ==
  ASSUME TarjanInv, LeftGraph, ReturnFromTraverse, index[Call.n] = lowlink[Call.n]
  PROVE  /\ Strong(Top(Call.n)) /\ Call.n \in Top(Call.n)
         /\ \A x \in Gone : Reach(x) \subseteq Gone
         /\ \A x \in Top(Call.n) : Reach(x) \subseteq Gone \union Top(Call.n)
         /\ Gone \intersect Top(Call.n) = {}
<1>1. TarjanTypes /\ Numbers /\ CallPath /\ GoneClosed /\ StackPaths
  BY DEF TarjanInv
<1>2. PICK K : K = Len(calls)
  OBVIOUS
<1>3. PICK n : n = Call.n
  OBVIOUS
<1>4. /\ K \in Nat \ {0} /\ calls[K].n = n /\ n \in nodes /\ index[n] \in Nat /\ onStack(n)
      /\ \A i \in 1 .. K - 1 : /\ index[calls[i].n] \in Nat /\ index[calls[i].n] < index[n]
                               /\ calls[i].n \in nodes /\ onStack(calls[i].n)
  BY <1>2, <1>3, ReturnedCalls
<1>5. n \in Top(n) /\ Top(n) \subseteq nodes
  BY <1>4 DEF Top
<1>6. Gone \intersect Top(n) = {} /\ Gone \subseteq nodes
  BY DEF Gone, Top
<1>7. ASSUME NEW x \in Gone PROVE Reach(x) \subseteq Gone
  BY <1>1, <1>6, ReachLaws DEF GoneClosed, LeftGraph
<1>8. ASSUME NEW x \in Top(n) PROVE Reach(x) \subseteq Gone \union Top(n)
  <2>1. \A z \in Gone \union Top(n) : \A y \in succs[z] : y \in Gone \union Top(n)
    BY <1>1, <1>3, TopClosed DEF GoneClosed
  <2>. QED BY <2>1, <1>5, ReachLaws DEF LeftGraph
<1>9. ASSUME NEW x \in Top(n), NEW y \in Top(n) PROVE y \in Reach(x)
  <2>1. x \in nodes /\ onStack(x) /\ y \in nodes /\ onStack(y) /\ index[n] <= index[y]
    BY DEF Top
  <2>2. PICK i \in 1 .. K : index[calls[i].n] <= index[x] /\ calls[i].n \in Reach(x)
    BY <2>1, <1>1, <1>2 DEF StackPaths
  <2>3. calls[i].n \in nodes /\ onStack(calls[i].n) /\ index[calls[i].n] <= index[n]
    <3>1. i = K \/ i \in 1 .. K - 1
      BY <1>4
    <3>. QED BY <3>1, <1>4
  <2>4. n \in Reach(calls[i].n) /\ y \in Reach(n)
    BY <2>1, <2>3, <1>1, <1>4 DEF StackPaths
  <2>5. n \in Reach(x)
    BY <2>1, <2>2, <2>4, ReachLaws DEF LeftGraph
  <2>. QED BY <2>1, <2>4, <2>5, ReachLaws DEF LeftGraph
<1>10. Strong(Top(n))
  BY <1>5, <1>9 DEF Strong
<1>. QED BY <1>3, <1>5, <1>6, <1>7, <1>8, <1>10

\* It is a component unless it is one node, and no other component is gone now.
LEMMA TopIsComponent ==
  ASSUME TarjanInv, LeftGraph, ReturnFromTraverse, index[Call.n] = lowlink[Call.n]
  PROVE  \A C : (C \in Components /\ C \subseteq Gone \union Top(Call.n))
                  <=> (C \in sccs \/ (C = Top(Call.n) /\ Cardinality(C) # 1))
<1>1. PICK T : T = Top(Call.n)
  OBVIOUS
<1>2. PICK n : n = Call.n
  OBVIOUS
<1>3. /\ Strong(T) /\ n \in T
      /\ \A x \in Gone : Reach(x) \subseteq Gone
      /\ \A x \in T : Reach(x) \subseteq Gone \union T
      /\ Gone \intersect T = {}
  BY <1>1, <1>2, TopIsClass
<1>4. IsFiniteSet(nodes) /\ T \subseteq nodes
  BY <1>3 DEF LeftGraph, Strong
<1>5. \A C : C \in sccs <=> C \in Components /\ C \subseteq Gone
  BY DEF TarjanInv, ComponentsSoFar
<1>6. ASSUME Cardinality(T) # 1 PROVE T \in Components
  <2>1. IsFiniteSet(T) /\ Cardinality(T) \in Nat /\ Cardinality(T) # 0
    BY <1>3, <1>4, FS_Subset, FS_CardinalityType, FS_EmptySet
  <2>2. Cardinality(T) > 1
    BY <2>1, <1>6
  <2>3. PICK D \in Components : T \subseteq D
    BY <2>2, <1>3, <1>4, StrongHasComponent
  <2>4. D \subseteq T
    <3>1. SUFFICES ASSUME NEW d \in D, d \notin T PROVE FALSE
      OBVIOUS
    <3>2. d \in Reach(n) /\ n \in Reach(d)
      BY <2>3, <1>3, <1>4, ComponentLaws DEF Strong
    <3>3. d \in Gone
      BY <3>1, <3>2, <1>3
    <3>. QED BY <3>2, <3>3, <1>3
  <2>5. D = T
    BY <2>3, <2>4
  <2>. QED BY <2>5
<1>7. ASSUME NEW C \in Components, C \subseteq Gone \union T PROVE C \in sccs \/ (C = T /\ Cardinality(C) # 1)
  <2>1. CASE C \subseteq Gone
    BY <2>1, <1>5
  <2>2. CASE ~(C \subseteq Gone)
    <3>1. PICK z \in C : z \in T
      BY <2>2, <1>7
    <3>2. T \subseteq C
      BY <3>1, <1>3, <1>4, StrongInside
    <3>3. ASSUME NEW d \in C, d \in Gone PROVE FALSE
      <4>1. z \in Reach(d)
        BY <3>1, <1>4, ComponentLaws DEF Strong
      <4>. QED BY <4>1, <3>1, <3>3, <1>3
    <3>4. C = T
      BY <3>2, <3>3, <1>7
    <3>5. Cardinality(C) > 1 /\ IsFiniteSet(C)
      BY <1>4, ComponentLaws
    <3>6. Cardinality(C) # 1
      BY <3>5
    <3>. QED BY <3>4, <3>6
  <2>. QED BY <2>1, <2>2
<1>. QED BY <1>1, <1>5, <1>6, <1>7

\* A pop keeps the invariant: the lowlink of the caller is below what is popped.
LEMMA PopsTarjan ==
  ASSUME TarjanInv, LeftGraph, ReturnFromTraverse, index[Call.n] = lowlink[Call.n]
  PROVE  TarjanInv'
<1>1. /\ TarjanTypes /\ Numbers /\ CallPath /\ GoneClosed /\ StackPaths /\ Lowlinks /\ ComponentsSoFar
  BY DEF TarjanInv
<1>2. PICK K : K = Len(calls)
  OBVIOUS
<1>3. PICK n : n = Call.n
  OBVIOUS
<1>4. /\ K \in Nat \ {0} /\ calls[K].n = n /\ n \in nodes /\ onStack(n) /\ index[n] \in Nat
      /\ Len(calls') = K - 1 /\ calls' \in Seq(CallSet)
      /\ \A i \in 1 .. K - 1 : /\ calls'[i] = calls[i] /\ calls[i].n \in nodes /\ onStack(calls[i].n)
                               /\ index[calls[i].n] \in Nat /\ index[calls[i].n] < index[n]
      /\ \A x, y : Looked(x, y)' => Looked(x, y)
  BY <1>2, <1>3, ReturnedCalls
<1>5. /\ nodes' = nodes /\ succs' = succs /\ index' = index /\ index_count' = index_count
      /\ Components' = Components /\ \A a : Reach(a)' = Reach(a)
  BY ReturnedCalls
<1>6. PICK T : T = Top(n)
  OBVIOUS
<1>7. /\ \A x : onStack(x)' <=> onStack(x) /\ index[x] < index[n]
      /\ sccs' = IF Cardinality(T) = 1 THEN sccs ELSE sccs \union {T}
      /\ stack' \in Seq(nodes)
      /\ \A i \in 1 .. Len(stack') : index[stack'[i]] # -1
      /\ \A i, j \in 1 .. Len(stack') : i < j => index[stack'[i]] < index[stack'[j]]
  BY <1>3, <1>6, PoppedStack
<1>8. Gone' = Gone \union T
  <2>1. \A x \in nodes : index[x] \in Int
    BY <1>1, StackLaws
  <2>2. \A x : onStack(x) => index[x] # -1
    <3>1. \A x : onStack(x) => index[x] \in Nat
      BY <1>1, StackLaws
    <3>. QED BY <3>1
  <2>3. \A x \in nodes : (index[x] # -1 /\ ~onStack(x)') <=> x \in Gone \/ x \in T
    BY <2>1, <2>2, <1>4, <1>6, <1>7 DEF Gone, Top
  <2>4. Gone \subseteq nodes /\ T \subseteq nodes
    BY <1>6 DEF Gone, Top
  <2>5. Gone' = {x \in nodes : index[x] # -1 /\ ~onStack(x)'}
    BY <1>5 DEF Gone
  <2>. QED BY <2>3, <2>4, <2>5
<1>9. TarjanTypes'
  <2>1. lowlink' \in [Blocks -> Int] /\ CallSet' = CallSet
    BY <1>5, ReturnedAlways DEF CallSet
  <2>. QED BY <2>1, <1>1, <1>4, <1>5, <1>7 DEF TarjanTypes
<1>10. Numbers'
  BY <1>1, <1>5, <1>7 DEF Numbers
<1>11. CallPath'
  <2>1. ASSUME NEW i \in 1 .. K - 1 PROVE onStack(calls[i].n)'
    <3>1. PICK c : c = calls'[i].n
      OBVIOUS
    <3>2. onStack(c) /\ index[c] < index[n]
      BY <3>1, <1>4
    <3>. QED BY <3>1, <3>2, <1>7
  <2>2. /\ \A i \in 1 .. K - 1 : calls'[i].todo \subseteq succs[calls'[i].n]
        /\ \A i, j \in 1 .. K - 1 : i < j => index[calls'[i].n] < index[calls'[j].n]
        /\ \A i \in 1 .. (K - 1) - 1 : calls'[i + 1].n \in succs[calls'[i].n]
    BY <1>4, ReturnedAlways
  <2>. QED BY <2>1, <2>2, <1>4, <1>5 DEF CallPath
<1>12. SuccsSeen'
  BY ReturnedAlways
<1>13. GoneClosed'
  <2>1. \A x \in Gone \union T : \A y \in succs[x] : y \in Gone \union T
    BY <1>1, <1>3, <1>6, TopClosed DEF GoneClosed
  <2>. QED BY <2>1, <1>5, <1>8 DEF GoneClosed
<1>14. ComponentsSoFar'
  <2>1. \A C : C \in sccs' <=> C \in sccs \/ (C = T /\ Cardinality(C) # 1)
    BY <1>7
  <2>2. \A C : C \in sccs' <=> C \in Components /\ C \subseteq Gone \union T
    BY <2>1, <1>3, <1>6, TopIsComponent
  <2>. QED BY <2>2, <1>5, <1>8 DEF ComponentsSoFar
<1>15. StackPaths'
  <2>1. ASSUME NEW y \in nodes, onStack(y)'
        PROVE  \E i \in 1 .. K - 1 : index[calls'[i].n] <= index[y] /\ calls'[i].n \in Reach(y)
    <3>0. onStack(y) /\ index[y] < index[n] /\ index[y] \in Nat
      BY <2>1, <1>1, <1>7, StackLaws
    <3>1. PICK i \in 1 .. K : index[calls[i].n] <= index[y] /\ calls[i].n \in Reach(y)
      BY <3>0, <1>1, <1>2 DEF StackPaths
    <3>2. i # K
      BY <3>0, <3>1, <1>4
    <3>. QED BY <3>1, <3>2, <1>4
  <2>2. \A x, y \in nodes : onStack(x)' /\ onStack(y)' /\ index[x] <= index[y] => y \in Reach(x)
    BY <1>1, <1>7 DEF StackPaths
  <2>. QED BY <2>1, <2>2, <1>4, <1>5 DEF StackPaths
<1>16. Lowlinks'
  <2>1. ASSUME NEW i \in 1 .. K - 1
        PROVE  /\ lowlink[calls[i].n] \in Int /\ lowlink[calls[i].n] <= index[calls[i].n]
               /\ lowlink'[calls'[i].n] = lowlink[calls[i].n]
               /\ index[calls'[i].n] = index[calls[i].n] /\ index[calls[i].n] \in Int
    <3>1. calls'[i] = calls[i] /\ calls[i].n \in nodes /\ index[calls[i].n] \in Int
          /\ index[calls[i].n] < index[n]
      BY <1>4
    <3>2. lowlink[calls[i].n] <= index[calls[i].n]
      <4>1. i \in 1 .. Len(calls)
        BY <1>2, <1>4
      <4>. QED BY <4>1, <1>1 DEF Lowlinks
    <3>3. lowlink[calls[i].n] \in Int
      BY <3>1, <1>1, StackLaws
    <3>4. CASE i = K - 1
      <4>1. Len(calls) > 1 /\ i = Len(calls) - 1
        BY <3>4, <1>2, <1>4
      <4>2. lowlink'[calls[i].n] = Lower(lowlink[n], lowlink[calls[i].n])
        BY <4>1, <1>3, ReturnedAlways
      <4>3. lowlink[n] = index[n]
        BY <1>3
      <4>4. Lower(lowlink[n], lowlink[calls[i].n]) = lowlink[calls[i].n]
        BY <4>3, <3>1, <3>2, <3>3, <1>4 DEF Lower
      <4>. QED BY <3>1, <3>2, <3>3, <4>2, <4>4
    <3>5. CASE i # K - 1
      <4>1. i \in 1 .. K /\ K - 1 \in 1 .. K /\ i < K - 1
        BY <3>5, <1>4
      <4>2. index[calls[i].n] < index[calls[K - 1].n]
        BY <4>1, <1>1, <1>2 DEF CallPath
      <4>3. calls[i].n # calls[K - 1].n
        BY <4>2, <3>1
      <4>4. lowlink'[calls[i].n] = lowlink[calls[i].n]
        BY <4>3, <3>1, <1>2, ReturnedAlways
      <4>. QED BY <3>1, <3>2, <3>3, <4>4
    <3>. QED BY <3>4, <3>5
  <2>2. ASSUME NEW i \in 1 .. K - 1
        PROVE  \E w \in nodes : onStack(w)' /\ index[w] = lowlink'[calls'[i].n] /\ w \in Reach(calls'[i].n)
    <3>0. i \in 1 .. Len(calls) /\ calls'[i] = calls[i] /\ index[calls[i].n] < index[n]
      BY <1>2, <1>4
    <3>1. PICK w \in nodes : onStack(w) /\ index[w] = lowlink[calls[i].n] /\ w \in Reach(calls[i].n)
      BY <3>0, <1>1 DEF Lowlinks
    <3>2. index[w] < index[n]
      BY <3>0, <3>1, <2>1, <1>4
    <3>. QED BY <3>0, <3>1, <3>2, <2>1, <1>7
  <2>3. ASSUME NEW i \in 1 .. K - 1, NEW x \in nodes, NEW y \in succs[x],
               onStack(x)', onStack(y)', VisitedBy(x, i)', Looked(x, y)
        PROVE  lowlink'[calls'[i].n] <= index[y]
    <3>0. onStack(x) /\ onStack(y) /\ index[x] < index[n]
      BY <2>3, <1>7
    <3>1. index[calls'[i].n] <= index[x] /\ (i < K - 1 => index[x] < index[calls'[i + 1].n])
      BY <2>3, <1>4, <1>5 DEF VisitedBy
    <3>2. i < K => index[x] < index[calls[i + 1].n]
      <4>1. CASE i = K - 1
        <5>1. calls[i + 1].n = n
          BY <4>1, <1>4
        <5>. QED BY <5>1, <3>0
      <4>2. CASE i # K - 1
        <5>1. i < K - 1 /\ i + 1 \in 1 .. K - 1
          BY <4>2, <1>4
        <5>. QED BY <5>1, <3>1, <1>4
      <4>. QED BY <4>1, <4>2
    <3>3. VisitedBy(x, i)
      BY <3>1, <3>2, <1>2, <1>4 DEF VisitedBy
    <3>4. i \in 1 .. Len(calls)
      BY <1>2, <1>4
    <3>5. lowlink[calls[i].n] <= index[y]
      BY <3>0, <3>3, <3>4, <2>3, <1>1 DEF Lowlinks
    <3>. QED BY <3>5, <2>1
  <2>4. \A i \in 1 .. K - 1 : lowlink'[calls'[i].n] <= index[calls'[i].n]
    BY <2>1
  <2>. QED BY <2>2, <2>3, <2>4, <1>4, <1>5 DEF Lowlinks
<1>. QED BY <1>9, <1>10, <1>11, <1>12, <1>13, <1>14, <1>15, <1>16 DEF TarjanInv

\* The end of a call keeps the invariant.
LEMMA ReturnFromTraverseTarjan ==
  ASSUME TarjanInv, LeftGraph, ReturnFromTraverse
  PROVE  TarjanInv'
BY StaysTarjan, PopsTarjan

(***************************************************************************)
(* The invariant of the search.                                            *)
(***************************************************************************)
GraphTypes == succs \in [Blocks -> SUBSET Blocks] /\ prevs \in [Blocks -> SUBSET Blocks]

\* The result holds the loops of the headers H, and for every block in one the
\* base of the smallest.
StoredFor(H) ==
  /\ H \subseteq Headers
  /\ loop_set = {NaturalLoop(h) : h \in H}
  /\ DOMAIN base2loop = H
  /\ \A h \in H : base2loop[h] = NaturalLoop(h) /\ loop2base[NaturalLoop(h)] = h
  /\ DOMAIN loop2base = loop_set
  /\ DOMAIN bb2base = UNION loop_set
  /\ \A b \in DOMAIN bb2base : \E r \in H :
       /\ bb2base[b] = r /\ b \in NaturalLoop(r)
       /\ \A h \in H : b \in NaturalLoop(h) => NaturalLoop(r) \subseteq NaturalLoop(h)

\* A loop that is left and meets one whose base was removed is nested in it.
Nested ==
  \A r \in reserved : \A h \in Headers :
    h \in nodes /\ NaturalLoop(r) \intersect NaturalLoop(h) # {} => NaturalLoop(h) \subseteq NaturalLoop(r)

RoundInv == GraphTypes /\ TarjanTypes /\ LeftOver /\ LoopsLeft /\ Nested /\ StoredFor(reserved)

\* The components whose bases are still to be removed: loops that are left, not
\* inside of another one.
SccsInv ==
  /\ \A C \in sccs : \E h \in Headers : h \in nodes /\ C = NaturalLoop(h)
  /\ \A C, D \in sccs : C # D => C \intersect D = {}
  /\ \A C \in sccs : \A h \in Headers :
       h \in nodes /\ NaturalLoop(h) \intersect C # {} => NaturalLoop(h) \subseteq C

Traversing == step = "scc" /\ RoundInv /\ TarjanInv
Removing == step = "bases" /\ RoundInv /\ SccsInv /\ stack = <<>> /\ calls = <<>>
Finished ==
  /\ step = "done" /\ StoredFor(Headers) /\ GraphTypes /\ TarjanTypes
  /\ nodes = {} /\ reserved = {} /\ sccs = {} /\ stack = <<>> /\ calls = <<>>

SearchInv == Idle \/ Traversing \/ Removing \/ Finished

\* The loops are the function's: they do not change.
LEMMA SameLoops ==
  ASSUME func' = func
  PROVE  /\ CFG' = CFG /\ Headers' = Headers /\ (Suitable' <=> Suitable)
         /\ \A h : NaturalLoop(h)' = NaturalLoop(h)
         /\ \A b : SuccsOf(func, b)' = SuccsOf(func, b)
         /\ \A b : PrevsOf(func, b)' = PrevsOf(func, b)
<1>1. CFG' = CFG
  BY DEF CFG, SuccsOf
<1>2. \A h : Latches(h)' = Latches(h)
  BY <1>1 DEF Latches
<1>3. \A h : NaturalLoop(h)' = NaturalLoop(h)
  BY <1>1, <1>2 DEF NaturalLoop
<1>4. Headers' = Headers
  BY <1>2, <1>3 DEF Headers
<1>5. Suitable' <=> Suitable
  BY <1>1 DEF Suitable
<1>. QED BY <1>1, <1>3, <1>4, <1>5 DEF SuccsOf, PrevsOf

\* StoredFor is about the function and the result only.
LEMMA SameStored ==
  ASSUME func' = func, UNCHANGED resultVars
  PROVE  \A H : StoredFor(H)' <=> StoredFor(H)
<1>1. loop_set' = loop_set /\ base2loop' = base2loop /\ loop2base' = loop2base /\ bb2base' = bb2base
  BY DEF resultVars
<1>2. Headers' = Headers /\ \A h : NaturalLoop(h)' = NaturalLoop(h)
  BY SameLoops
<1>. QED BY <1>1, <1>2 DEF StoredFor

\* The part of the invariant that is about the graph that is left.
LEMMA SameLeft ==
  ASSUME func' = func, UNCHANGED graphVars
  PROVE  /\ LeftOver' <=> LeftOver
         /\ LoopsLeft' <=> LoopsLeft
         /\ Nested' <=> Nested
         /\ GraphTypes' <=> GraphTypes
<1>1. nodes' = nodes /\ succs' = succs /\ prevs' = prevs /\ reserved' = reserved
  BY DEF graphVars
<1>2. /\ Headers' = Headers /\ \A h : NaturalLoop(h)' = NaturalLoop(h)
      /\ \A b : SuccsOf(func, b)' = SuccsOf(func, b)
      /\ \A b : PrevsOf(func, b)' = PrevsOf(func, b)
  BY SameLoops
<1>3. LeftOver' <=> LeftOver
  BY <1>1, <1>2 DEF LeftOver
<1>4. LoopsLeft' <=> LoopsLeft
  BY <1>1, <1>2 DEF LoopsLeft
<1>5. Nested' <=> Nested
  BY <1>1, <1>2 DEF Nested
<1>6. GraphTypes' <=> GraphTypes
  BY <1>1 DEF GraphTypes
<1>. QED BY <1>3, <1>4, <1>5, <1>6

\* The search runs on a finite graph without edges out of it.
LEMMA LeftOverGraph ==
  ASSUME Suitable, LeftOver
  PROVE  LeftGraph
BY LeftEdges DEF LeftGraph

\* Nothing visited yet.
LEMMA FreshTarjan ==
  ASSUME TarjanTypes', IsFiniteSet(nodes'), stack' = <<>>, calls' = <<>>, sccs' = {},
         \A n \in nodes' : index'[n] = -1
  PROVE  TarjanInv'
<1>1. Len(stack') = 0 /\ Len(calls') = 0 /\ Range(stack') = {}
  BY DEF Range
<1>2. \A x : ~onStack(x)'
  BY <1>1 DEF onStack
<1>3. Gone' = {}
  BY DEF Gone
<1>4. Numbers'
  BY <1>1 DEF Numbers
<1>5. CallPath'
  BY <1>1 DEF CallPath
<1>6. SuccsSeen'
  BY DEF SuccsSeen
<1>7. GoneClosed'
  BY <1>3 DEF GoneClosed
<1>8. StackPaths'
  BY <1>2 DEF StackPaths
<1>9. Lowlinks'
  BY <1>1 DEF Lowlinks
<1>10. ComponentsSoFar'
  <2>1. \A C : C \in Components' => Cardinality(C) > 1
    BY DEF Components
  <2>2. ASSUME NEW C \in Components', C \subseteq {} PROVE FALSE
    <3>1. C = {}
      BY <2>2
    <3>. QED BY <2>1, <3>1, FS_EmptySet
  <2>3. \A C : C \in sccs' <=> C \in Components' /\ C \subseteq Gone'
    BY <2>2, <1>3
  <2>. QED BY <2>3 DEF ComponentsSoFar
<1>. QED BY <1>4, <1>5, <1>6, <1>7, <1>8, <1>9, <1>10 DEF TarjanInv

\* All blocks are left when the graph is built.
LEMMA BuildCfgStep ==
  ASSUME Suitable, Idle, build_cfg
  PROVE  SearchInv'
<1>1. /\ nodes' = Blocks /\ step' = "scc" /\ func' = func /\ reserved' = {} /\ sccs' = {}
      /\ succs' = [b \in Blocks |-> SuccsOf(func, b)]
      /\ prevs' = [b \in Blocks |-> PrevsOf(func, b)]
      /\ index' = [b \in Blocks |-> -1] /\ lowlink' = [b \in Blocks |-> -1]
      /\ stack' = <<>> /\ index_count' = 0 /\ calls' = <<>>
      /\ loop_set' = {} /\ base2loop' = <<>> /\ loop2base' = <<>> /\ bb2base' = <<>>
  BY DEF build_cfg, Idle, tarjanVars, resultVars
<1>2. /\ Headers' = Headers /\ \A h : NaturalLoop(h)' = NaturalLoop(h)
      /\ \A b : SuccsOf(func, b)' = SuccsOf(func, b)
      /\ \A b : PrevsOf(func, b)' = PrevsOf(func, b)
  BY <1>1, SameLoops
<1>3. \A b \in Blocks : SuccsOf(func, b) \subseteq Blocks /\ PrevsOf(func, b) \subseteq Blocks
  <2>1. \A b \in Blocks : func.succ[b] \in Seq(Blocks) /\ func.pre[b] \in Seq(Blocks)
    BY DEF Suitable, FunctionGraph
  <2>2. \A s \in Seq(Blocks) : Range(s) \subseteq Blocks
    BY DEF Range
  <2>. QED BY <2>1, <2>2 DEF SuccsOf, PrevsOf
<1>4. GraphTypes'
  BY <1>1, <1>3 DEF GraphTypes
<1>5. TarjanTypes'
  BY <1>1 DEF TarjanTypes
<1>6. LeftOver'
  BY <1>1, <1>2, <1>3 DEF LeftOver
<1>7. LoopsLeft'
  <2>1. \A h \in Headers : NaturalLoop(h) \subseteq Blocks
    BY HeaderDominates DEF Headers
  <2>. QED BY <2>1, <1>1, <1>2 DEF LoopsLeft
<1>8. Nested'
  BY <1>1 DEF Nested
<1>9. StoredFor(reserved)'
  BY <1>1 DEF StoredFor
<1>10. TarjanInv'
  BY <1>1, <1>5, FreshTarjan DEF Suitable
<1>. QED BY <1>1, <1>4, <1>5, <1>6, <1>7, <1>8, <1>9, <1>10 DEF SearchInv, Traversing, RoundInv

\* The steps of a traversal change neither the graph that is left nor the result.
LEMMA TraverseStep ==
  ASSUME Suitable, Traversing, TraverseRoot \/ TraverseSucc \/ SeeSucc \/ ReturnFromTraverse
  PROVE  Traversing'
<1>1. step' = "scc" /\ func' = func /\ UNCHANGED graphVars /\ UNCHANGED resultVars
  <2>1. CASE TraverseRoot
    BY <2>1 DEF TraverseRoot, Traversing
  <2>2. CASE TraverseSucc
    BY <2>2 DEF TraverseSucc, Traversing
  <2>3. CASE SeeSucc
    BY <2>3 DEF SeeSucc, Traversing
  <2>4. CASE ReturnFromTraverse
    BY <2>4 DEF ReturnFromTraverse, Traversing
  <2>. QED BY <2>1, <2>2, <2>3, <2>4
<1>2. RoundInv /\ TarjanInv /\ LeftGraph
  BY LeftOverGraph DEF Traversing, RoundInv
<1>3. TarjanInv'
  BY <1>2, TraverseRootTarjan, TraverseSuccTarjan, SeeSuccTarjan, ReturnFromTraverseTarjan
<1>4. GraphTypes' /\ LeftOver' /\ LoopsLeft' /\ Nested'
  BY <1>1, <1>2, SameLeft DEF RoundInv
<1>5. StoredFor(reserved)'
  <2>1. reserved' = reserved
    BY <1>1 DEF graphVars
  <2>2. PICK H : H = reserved
    OBVIOUS
  <2>3. StoredFor(H)'
    BY <1>1, <1>2, <2>2, SameStored DEF RoundInv
  <2>. QED BY <2>1, <2>2, <2>3
<1>. QED BY <1>1, <1>3, <1>4, <1>5 DEF Traversing, RoundInv, TarjanInv

\* At the end of a traversal the stack is empty and all components are found.
LEMMA AllFound ==
  ASSUME Suitable, Traversing, TraversalEnded
  PROVE  stack = <<>> /\ calls = <<>> /\ sccs = Components
<1>1. TarjanTypes /\ StackPaths /\ ComponentsSoFar /\ Numbers
  BY DEF Traversing, TarjanInv
<1>2. calls = <<>> /\ Len(calls) = 0 /\ \A n \in nodes : index[n] # -1
  BY DEF TraversalEnded
<1>3. \A y \in nodes : ~onStack(y)
  BY <1>1, <1>2 DEF StackPaths
<1>4. stack = <<>>
  <2>1. SUFFICES ASSUME stack # <<>> PROVE FALSE
    OBVIOUS
  <2>2. 1 \in 1 .. Len(stack)
    BY <2>1, <1>1 DEF TarjanTypes
  <2>3. onStack(stack[1]) /\ stack[1] \in nodes
    BY <2>2, <1>1, StackLaws
  <2>. QED BY <2>3, <1>3
<1>5. Gone = nodes
  BY <1>2, <1>3 DEF Gone
<1>6. \A C \in Components : C \subseteq nodes
  BY LeftEdges, ComponentLaws DEF Traversing, RoundInv, Strong
<1>. QED BY <1>1, <1>2, <1>4, <1>5, <1>6 DEF ComponentsSoFar

\* The components found are loops apart from each other; when there are none, no
\* header is left.
LEMMA SccsFoundStep ==
  ASSUME Suitable, Traversing, SccsFound
  PROVE  SearchInv'
<1>1. stack = <<>> /\ calls = <<>> /\ sccs = Components
  BY AllFound DEF SccsFound
<1>2. LeftOver /\ LoopsLeft /\ Nested /\ GraphTypes /\ TarjanTypes /\ StoredFor(reserved) /\ IsFiniteSet(nodes)
  BY LeftEdges DEF Traversing, RoundInv
<1>3. /\ func' = func /\ UNCHANGED <<succs, prevs, tarjanVars, sccs, resultVars>>
  BY DEF SccsFound
<1>4. /\ index' = index /\ lowlink' = lowlink /\ stack' = <<>> /\ calls' = <<>> /\ index_count' = index_count
      /\ succs' = succs /\ prevs' = prevs /\ sccs' = sccs
  BY <1>1, <1>3 DEF tarjanVars
<1>5. CASE sccs = {}
  <2>1. step' = "done" /\ reserved' = {} /\ nodes' = {}
    BY <1>5 DEF SccsFound
  <2>2. Headers = reserved
    <3>1. Headers \subseteq Blocks
      BY DEF Headers
    <3>2. \A h \in Headers : h \notin nodes
      BY <1>1, <1>2, <1>5, LoopInComponent
    <3>. QED BY <3>1, <3>2, <1>2 DEF LeftOver, StoredFor
  <2>3. StoredFor(Headers)'
    <3>1. PICK H : H = Headers
      OBVIOUS
    <3>2. StoredFor(H)' /\ Headers' = H
      BY <3>1, <2>2, <1>2, <1>3, SameStored, SameLoops
    <3>. QED BY <3>2
  <2>4. GraphTypes'
    BY <1>2, <1>4 DEF GraphTypes
  <2>5. TarjanTypes'
    BY <1>2, <1>4, <2>1 DEF TarjanTypes
  <2>. QED BY <2>1, <2>3, <2>4, <2>5, <1>4, <1>5 DEF SearchInv, Finished
<1>6. CASE sccs # {}
  <2>1. step' = "bases" /\ reserved' = reserved /\ nodes' = nodes
    BY <1>6 DEF SccsFound
  <2>2. GraphTypes' /\ LeftOver' /\ LoopsLeft' /\ Nested'
    <3>1. UNCHANGED graphVars
      BY <1>4, <2>1 DEF graphVars
    <3>. QED BY <3>1, <1>2, <1>3, SameLeft
  <2>3. StoredFor(reserved)'
    <3>1. PICK H : H = reserved
      OBVIOUS
    <3>2. StoredFor(H)' /\ reserved' = H
      BY <3>1, <2>1, <1>2, <1>3, SameStored
    <3>. QED BY <3>2
  <2>4. TarjanTypes'
    <3>1. CallSet' = CallSet
      BY <2>1 DEF CallSet
    <3>. QED BY <3>1, <1>2, <1>4, <2>1 DEF TarjanTypes
  <2>5. SccsInv
    <3>1. \A C \in sccs : \E h \in Headers : h \in nodes /\ C = NaturalLoop(h)
      BY <1>1, <1>2, ComponentIsLoop
    <3>2. \A C, D \in sccs : C # D => C \intersect D = {}
      BY <1>1, <1>2, ComponentsApart
    <3>3. \A C \in sccs : \A h \in Headers :
            h \in nodes /\ NaturalLoop(h) \intersect C # {} => NaturalLoop(h) \subseteq C
      BY <1>1, <1>2, LoopInComponent
    <3>. QED BY <3>1, <3>2, <3>3 DEF SccsInv
  <2>6. SccsInv'
    <3>1. Headers' = Headers /\ \A h : NaturalLoop(h)' = NaturalLoop(h)
      BY <1>3, SameLoops
    <3>. QED BY <3>1, <2>1, <2>5, <1>4 DEF SccsInv
  <2>. QED BY <2>1, <2>2, <2>3, <2>4, <2>6, <1>4 DEF SearchInv, Removing, RoundInv
<1>. QED BY <1>5, <1>6

\* A round begins with nothing visited.
LEMMA NextRoundStep ==
  ASSUME Suitable, Removing, NextRound
  PROVE  Traversing'
<1>1. /\ step' = "scc" /\ func' = func /\ UNCHANGED <<graphVars, calls, sccs, resultVars>>
      /\ index' = [b \in Blocks |-> IF b \in nodes THEN -1 ELSE index[b]]
      /\ lowlink' = [b \in Blocks |-> IF b \in nodes THEN -1 ELSE lowlink[b]]
      /\ index_count' = 0 /\ stack' = <<>> /\ sccs = {}
  BY DEF NextRound
<1>2. LeftOver /\ LoopsLeft /\ Nested /\ GraphTypes /\ TarjanTypes /\ StoredFor(reserved)
      /\ IsFiniteSet(nodes) /\ nodes \subseteq Blocks /\ calls = <<>>
  BY LeftEdges DEF Removing, RoundInv
<1>3. nodes' = nodes /\ reserved' = reserved
  BY <1>1 DEF graphVars
<1>4. GraphTypes' /\ LeftOver' /\ LoopsLeft' /\ Nested'
  BY <1>1, <1>2, SameLeft
<1>5. StoredFor(reserved)'
  <2>1. PICK H : H = reserved
    OBVIOUS
  <2>2. StoredFor(H)' /\ reserved' = H
    BY <2>1, <1>1, <1>2, <1>3, SameStored
  <2>. QED BY <2>2
<1>6. TarjanTypes'
  <2>1. index' \in [Blocks -> Int] /\ lowlink' \in [Blocks -> Int]
    BY <1>1, <1>2 DEF TarjanTypes
  <2>2. calls' = <<>>
    BY <1>1, <1>2
  <2>. QED BY <2>1, <2>2, <1>1, <1>2, <1>3 DEF TarjanTypes
<1>7. TarjanInv'
  <2>1. \A n \in nodes' : index'[n] = -1
    BY <1>1, <1>2, <1>3
  <2>. QED BY <2>1, <1>1, <1>2, <1>3, <1>6, FreshTarjan
<1>. QED BY <1>1, <1>4, <1>5, <1>6, <1>7 DEF Traversing, RoundInv

(***************************************************************************)
(* The base of a component is stored and removed.                          *)
(***************************************************************************)
\* The component that is processed is a loop, and its header is its base.
LEMMA ProcessedLoop ==
  ASSUME Suitable, Removing, ProcessScc
  PROVE  \E h \in Headers :
           /\ h \in nodes /\ NaturalLoop(h) \in sccs /\ NaturalLoop(h) \subseteq nodes
           /\ StoreLoop(NaturalLoop(h), h) /\ RemoveBase(h)
           /\ sccs' = sccs \ {NaturalLoop(h)} /\ step' = "bases"
<1>1. LeftOver /\ LoopsLeft /\ SccsInv /\ step = "bases"
  BY DEF Removing, RoundInv
<1>2. PICK scc \in sccs : \E base \in find_loop_base(scc) :
        IF base = NoBB
        THEN step' = "abort" /\ UNCHANGED <<graphVars, sccs, resultVars>>
        ELSE /\ StoreLoop(scc, base) /\ RemoveBase(base)
             /\ sccs' = sccs \ {scc} /\ UNCHANGED step
  BY DEF ProcessScc
<1>3. PICK h \in Headers : h \in nodes /\ scc = NaturalLoop(h)
  BY <1>1 DEF SccsInv
<1>4. NaturalLoop(h) \subseteq nodes
  BY <1>1, <1>3 DEF LoopsLeft
<1>5. find_loop_base(scc) = {h}
  BY <1>1, <1>3, <1>4, BaseIsHeader
<1>6. h # NoBB
  BY <1>1, <1>3 DEF LeftOver, Suitable
<1>7. StoreLoop(scc, h) /\ RemoveBase(h) /\ sccs' = sccs \ {scc} /\ step' = step
  BY <1>2, <1>5, <1>6
<1>. QED BY <1>1, <1>3, <1>4, <1>7

\* RemoveBase removes every edge from or to the base, whichever list has it.
LEMMA RemoveBaseLeft ==
  ASSUME Suitable, LeftOver, GraphTypes, NEW h \in nodes, RemoveBase(h), func' = func
  PROVE  LeftOver' /\ GraphTypes' /\ nodes' = nodes \ {h} /\ reserved' = reserved \union {h}
<1>1. /\ nodes' = nodes \ {h} /\ reserved' = reserved \union {h}
      /\ prevs' = [b \in Blocks |-> IF b \in succs[h] THEN prevs[b] \ {h} ELSE prevs[b]]
      /\ succs' = [b \in Blocks |-> IF b \in prevs'[h] THEN succs[b] \ {h} ELSE succs[b]]
  BY DEF RemoveBase
<1>2. \A b : SuccsOf(func, b)' = SuccsOf(func, b) /\ PrevsOf(func, b)' = PrevsOf(func, b)
  BY SameLoops
<1>3. /\ nodes \subseteq Blocks /\ reserved = Blocks \ nodes /\ h \in Blocks
      /\ \A b \in nodes : /\ succs[b] = SuccsOf(func, b) \intersect nodes
                          /\ prevs[b] = PrevsOf(func, b) \intersect nodes
      /\ \A r \in reserved : succs[r] \intersect nodes = SuccsOf(func, r) \intersect nodes
  BY DEF LeftOver
<1>4. GraphTypes'
  <2>1. prevs' \in [Blocks -> SUBSET Blocks]
    BY <1>1 DEF GraphTypes
  <2>2. succs' \in [Blocks -> SUBSET Blocks]
    BY <1>1 DEF GraphTypes
  <2>. QED BY <2>1, <2>2 DEF GraphTypes
<1>5. ASSUME NEW b \in nodes, b # h
      PROVE  /\ h \in succs[b] <=> b \in prevs'[h]
             /\ b \in succs[h] <=> h \in prevs[b]
  <2>1. h \in SuccsOf(func, b) <=> b \in PrevsOf(func, h)
    BY <1>3, EdgesByLists
  <2>2. b \in SuccsOf(func, h) <=> h \in PrevsOf(func, b)
    BY <1>3, EdgesByLists
  <2>3. b \in prevs'[h] <=> b \in prevs[h]
    BY <1>1, <1>3, <1>5
  <2>. QED BY <2>1, <2>2, <2>3, <1>3
<1>6. ASSUME NEW b \in nodes'
      PROVE  /\ succs'[b] = SuccsOf(func, b) \intersect nodes'
             /\ prevs'[b] = PrevsOf(func, b) \intersect nodes'
  <2>1. b \in nodes /\ b # h /\ b \in Blocks
    BY <1>1, <1>3, <1>6
  <2>2. succs'[b] = succs[b] \ {h}
    BY <2>1, <1>1, <1>5
  <2>3. prevs'[b] = prevs[b] \ {h}
    BY <2>1, <1>1, <1>5
  <2>. QED BY <2>1, <2>2, <2>3, <1>1, <1>3
<1>7. ASSUME NEW r \in reserved'
      PROVE  succs'[r] \intersect nodes' = SuccsOf(func, r) \intersect nodes'
  <2>1. r \in Blocks /\ (r \in reserved \/ r = h)
    BY <1>1, <1>3
  <2>2. succs'[r] \intersect nodes' = succs[r] \intersect nodes'
    BY <2>1, <1>1
  <2>3. succs[r] \intersect nodes = SuccsOf(func, r) \intersect nodes
    BY <2>1, <1>3
  <2>. QED BY <2>2, <2>3, <1>1
<1>8. nodes' \subseteq Blocks /\ reserved' = Blocks \ nodes'
  BY <1>1, <1>3
<1>9. LeftOver'
  BY <1>2, <1>6, <1>7, <1>8 DEF LeftOver
<1>. QED BY <1>1, <1>4, <1>9

\* A loop stored last is inside of every stored loop that it meets.
LEMMA StoreLoopStored ==
  ASSUME Suitable, LeftOver, Nested, StoredFor(reserved), NEW h \in Headers, h \in nodes,
         StoreLoop(NaturalLoop(h), h), func' = func, reserved' = reserved \union {h}
  PROVE  StoredFor(reserved)'
<1>1. PICK L : L = NaturalLoop(h)
  OBVIOUS
<1>2. /\ loop_set' = loop_set \union {L}
      /\ base2loop' = IF h \in DOMAIN base2loop THEN base2loop ELSE With(base2loop, h, L)
      /\ loop2base' = With(loop2base, L, h)
      /\ bb2base' = [b \in DOMAIN bb2base \union L |-> IF b \in L THEN h ELSE bb2base[b]]
  BY <1>1 DEF StoreLoop
<1>3. /\ reserved \subseteq Headers
      /\ loop_set = {NaturalLoop(r) : r \in reserved}
      /\ DOMAIN base2loop = reserved
      /\ \A r \in reserved : base2loop[r] = NaturalLoop(r) /\ loop2base[NaturalLoop(r)] = r
      /\ DOMAIN loop2base = loop_set
      /\ DOMAIN bb2base = UNION loop_set
      /\ \A b \in DOMAIN bb2base : \E r \in reserved :
           /\ bb2base[b] = r /\ b \in NaturalLoop(r)
           /\ \A m \in reserved : b \in NaturalLoop(m) => NaturalLoop(r) \subseteq NaturalLoop(m)
  BY DEF StoredFor
<1>4. Headers' = Headers /\ \A m : NaturalLoop(m)' = NaturalLoop(m)
  BY SameLoops
<1>5. h \notin reserved /\ h \in L /\ Headers \subseteq Blocks
  BY <1>1, InLoop DEF LeftOver, Headers
<1>6. base2loop' = With(base2loop, h, L)
  BY <1>2, <1>3, <1>5
<1>7. \A r \in reserved : NaturalLoop(r) # L
  <2>1. SUFFICES ASSUME NEW r \in reserved, NaturalLoop(r) = L PROVE FALSE
    OBVIOUS
  <2>2. r \in NaturalLoop(h) /\ h \in NaturalLoop(r) /\ r \in Blocks /\ h \in Blocks
    BY <2>1, <1>1, <1>3, <1>5, InLoop
  <2>. QED BY <2>2, <1>5, OneHeader
<1>8. loop_set' = {NaturalLoop(r) : r \in reserved'}
  BY <1>1, <1>2, <1>3
<1>9. /\ DOMAIN base2loop' = reserved'
      /\ \A r \in reserved' : base2loop'[r] = NaturalLoop(r)
  BY <1>1, <1>3, <1>5, <1>6 DEF With
<1>10. DOMAIN loop2base' = loop_set'
  BY <1>2, <1>3 DEF With
<1>11. ASSUME NEW r \in reserved' PROVE loop2base'[NaturalLoop(r)] = r
  <2>1. CASE r = h
    BY <2>1, <1>1, <1>2 DEF With
  <2>2. CASE r # h
    <3>1. r \in reserved /\ NaturalLoop(r) # L /\ NaturalLoop(r) \in loop_set
      BY <2>2, <1>3, <1>7
    <3>. QED BY <3>1, <1>2, <1>3 DEF With
  <2>. QED BY <2>1, <2>2
<1>12. DOMAIN bb2base' = UNION loop_set'
  BY <1>2, <1>3
<1>13. ASSUME NEW b \in DOMAIN bb2base'
       PROVE  \E r \in reserved' :
                /\ bb2base'[b] = r /\ b \in NaturalLoop(r)
                /\ \A m \in reserved' : b \in NaturalLoop(m) => NaturalLoop(r) \subseteq NaturalLoop(m)
  <2>1. CASE b \in L
    <3>1. bb2base'[b] = h
      BY <2>1, <1>2
    <3>2. \A m \in reserved : b \in NaturalLoop(m) => L \subseteq NaturalLoop(m)
      BY <2>1, <1>1 DEF Nested
    <3>. QED BY <3>1, <3>2, <2>1, <1>1
  <2>2. CASE b \notin L
    <3>1. b \in DOMAIN bb2base /\ bb2base'[b] = bb2base[b]
      BY <2>2, <1>2
    <3>2. PICK r \in reserved : /\ bb2base[b] = r /\ b \in NaturalLoop(r)
                                /\ \A m \in reserved : b \in NaturalLoop(m) => NaturalLoop(r) \subseteq NaturalLoop(m)
      BY <3>1, <1>3
    <3>. QED BY <3>1, <3>2, <2>2, <1>1
  <2>. QED BY <2>1, <2>2
<1>14. reserved' \subseteq Headers
  BY <1>3
<1>. QED BY <1>4, <1>8, <1>9, <1>10, <1>11, <1>12, <1>13, <1>14 DEF StoredFor

\* The other loops are left whole: none but the component's has the base.
LEMMA ProcessSccStep ==
  ASSUME Suitable, Removing, ProcessScc
  PROVE  Removing'
<1>1. PICK h \in Headers :
        /\ h \in nodes /\ NaturalLoop(h) \in sccs /\ NaturalLoop(h) \subseteq nodes
        /\ StoreLoop(NaturalLoop(h), h) /\ RemoveBase(h)
        /\ sccs' = sccs \ {NaturalLoop(h)} /\ step' = "bases"
  BY ProcessedLoop
<1>2. PICK L : L = NaturalLoop(h)
  OBVIOUS
<1>3. /\ LeftOver /\ LoopsLeft /\ Nested /\ GraphTypes /\ TarjanTypes /\ StoredFor(reserved)
      /\ SccsInv /\ stack = <<>> /\ calls = <<>>
  BY DEF Removing, RoundInv
<1>4. func' = func /\ UNCHANGED tarjanVars
  BY DEF ProcessScc
<1>5. LeftOver' /\ GraphTypes' /\ nodes' = nodes \ {h} /\ reserved' = reserved \union {h}
  BY <1>1, <1>3, <1>4, RemoveBaseLeft
<1>6. StoredFor(reserved)'
  BY <1>1, <1>3, <1>4, <1>5, StoreLoopStored
<1>7. Headers' = Headers /\ \A m : NaturalLoop(m)' = NaturalLoop(m)
  BY <1>4, SameLoops
<1>8. h \in L /\ L \in sccs /\ Headers \subseteq Blocks /\ \A m : m \in NaturalLoop(m)
  BY <1>1, <1>2, InLoop DEF Headers
<1>9. /\ \A C \in sccs : \E m \in Headers : m \in nodes /\ C = NaturalLoop(m)
      /\ \A C, D \in sccs : C # D => C \intersect D = {}
      /\ \A C \in sccs : \A m \in Headers :
           m \in nodes /\ NaturalLoop(m) \intersect C # {} => NaturalLoop(m) \subseteq C
  BY <1>3 DEF SccsInv
<1>10. LoopsLeft'
  <2>1. SUFFICES ASSUME NEW m \in Headers, m \in nodes' PROVE NaturalLoop(m) \subseteq nodes'
    BY <1>7 DEF LoopsLeft
  <2>2. m \in nodes /\ m # h /\ NaturalLoop(m) \subseteq nodes
    BY <2>1, <1>3, <1>5 DEF LoopsLeft
  <2>3. h \notin NaturalLoop(m)
    <3>1. SUFFICES ASSUME h \in NaturalLoop(m) PROVE FALSE
      OBVIOUS
    <3>2. NaturalLoop(m) \subseteq L
      BY <3>1, <2>2, <1>8, <1>9
    <3>3. m \in NaturalLoop(h)
      BY <3>2, <1>2, <1>8
    <3>. QED BY <3>1, <3>3, <2>2, <1>8, OneHeader
  <2>. QED BY <2>2, <2>3, <1>5
<1>11. Nested'
  <2>1. ASSUME NEW r \in reserved', NEW m \in Headers, m \in nodes',
               NaturalLoop(r) \intersect NaturalLoop(m) # {}
        PROVE  NaturalLoop(m) \subseteq NaturalLoop(r)
    <3>1. CASE r = h
      BY <3>1, <2>1, <1>2, <1>5, <1>8, <1>9
    <3>2. CASE r # h
      BY <3>2, <2>1, <1>3, <1>5 DEF Nested
    <3>. QED BY <3>1, <3>2
  <2>. QED BY <2>1, <1>7 DEF Nested
<1>12. SccsInv'
  <2>1. \A C \in sccs' : C \in sccs /\ C # L
    BY <1>1, <1>2
  <2>2. ASSUME NEW C \in sccs' PROVE \E m \in Headers : m \in nodes' /\ C = NaturalLoop(m)
    <3>1. PICK m \in Headers : m \in nodes /\ C = NaturalLoop(m)
      BY <2>1, <1>9
    <3>2. m # h
      BY <3>1, <2>1, <1>2
    <3>. QED BY <3>1, <3>2, <1>5
  <2>3. \A C, D \in sccs' : C # D => C \intersect D = {}
    BY <2>1, <1>9
  <2>4. \A C \in sccs' : \A m \in Headers :
          m \in nodes' /\ NaturalLoop(m) \intersect C # {} => NaturalLoop(m) \subseteq C
    BY <2>1, <1>5, <1>9
  <2>. QED BY <2>2, <2>3, <2>4, <1>7 DEF SccsInv
<1>13. stack' = <<>> /\ calls' = <<>> /\ index' = index /\ lowlink' = lowlink /\ index_count' = index_count
  BY <1>3, <1>4 DEF tarjanVars
<1>14. TarjanTypes'
  <2>1. nodes' \subseteq Blocks
    BY <1>5 DEF LeftOver
  <2>. QED BY <2>1, <1>3, <1>13 DEF TarjanTypes
<1>. QED BY <1>1, <1>5, <1>6, <1>10, <1>11, <1>12, <1>13, <1>14 DEF Removing, RoundInv

(***************************************************************************)
(* All steps keep the invariant.                                           *)
(***************************************************************************)
LEMMA SearchStart == Idle => SearchInv
BY DEF SearchInv

\* Every step of the search keeps the invariant.
LEMMA SearchKept ==
  ASSUME SearchInv, Suitable, Next
  PROVE  SearchInv'
<1>1. CASE build_cfg
  <2>1. Idle
    BY <1>1 DEF build_cfg, SearchInv, Traversing, Removing, Finished
  <2>. QED BY <2>1, <1>1, BuildCfgStep
<1>2. CASE TraverseRoot \/ TraverseSucc \/ SeeSucc \/ ReturnFromTraverse
  <2>1. step = "scc"
    BY <1>2 DEF TraverseRoot, TraverseSucc, SeeSucc, ReturnFromTraverse
  <2>2. Traversing
    BY <2>1 DEF SearchInv, Idle, Removing, Finished
  <2>3. Traversing'
    BY <2>2, <1>2, TraverseStep
  <2>. QED BY <2>3 DEF SearchInv
<1>3. CASE SccsFound
  <2>1. Traversing
    BY <1>3 DEF SccsFound, SearchInv, Idle, Removing, Finished
  <2>. QED BY <2>1, <1>3, SccsFoundStep
<1>4. CASE ProcessScc
  <2>1. Removing
    BY <1>4 DEF ProcessScc, SearchInv, Idle, Traversing, Finished
  <2>2. Removing'
    BY <2>1, <1>4, ProcessSccStep
  <2>. QED BY <2>2 DEF SearchInv
<1>5. CASE NextRound
  <2>1. Removing
    BY <1>5 DEF NextRound, SearchInv, Idle, Traversing, Finished
  <2>2. Traversing'
    BY <2>1, <1>5, NextRoundStep
  <2>. QED BY <2>2 DEF SearchInv
<1>. QED BY <1>1, <1>2, <1>3, <1>4, <1>5 DEF Next

\* A step that changes nothing keeps it as well.
LEMMA SearchIdles ==
  ASSUME SearchInv, UNCHANGED vars
  PROVE  SearchInv'
<1>1. /\ func' = func /\ step' = step /\ UNCHANGED graphVars /\ UNCHANGED tarjanVars /\ sccs' = sccs
      /\ UNCHANGED resultVars
  BY DEF vars
<1>2. /\ nodes' = nodes /\ succs' = succs /\ prevs' = prevs /\ reserved' = reserved
      /\ index' = index /\ lowlink' = lowlink /\ stack' = stack /\ index_count' = index_count
      /\ calls' = calls /\ loop_set' = loop_set /\ base2loop' = base2loop /\ loop2base' = loop2base
      /\ bb2base' = bb2base
  BY <1>1 DEF graphVars, tarjanVars, resultVars
<1>3. /\ LeftOver' <=> LeftOver
      /\ LoopsLeft' <=> LoopsLeft
      /\ Nested' <=> Nested
      /\ GraphTypes' <=> GraphTypes
  BY <1>1, SameLeft
<1>4. /\ StoredFor(reserved) => StoredFor(reserved)'
      /\ StoredFor(Headers) => StoredFor(Headers)'
  <2>1. PICK H : H = reserved
    OBVIOUS
  <2>2. PICK J : J = Headers
    OBVIOUS
  <2>3. reserved' = H /\ Headers' = J
    BY <2>1, <2>2, <1>1, <1>2, SameLoops
  <2>4. (StoredFor(H) => StoredFor(H)') /\ (StoredFor(J) => StoredFor(J)')
    BY <1>1, SameStored
  <2>. QED BY <2>1, <2>2, <2>3, <2>4
<1>5. TarjanTypes' <=> TarjanTypes
  <2>1. CallSet' = CallSet
    BY <1>2 DEF CallSet
  <2>. QED BY <2>1, <1>2 DEF TarjanTypes
<1>6. SccsInv' <=> SccsInv
  <2>1. Headers' = Headers /\ \A m : NaturalLoop(m)' = NaturalLoop(m)
    BY <1>1, SameLoops
  <2>. QED BY <2>1, <1>1, <1>2 DEF SccsInv
<1>7. TarjanInv' <=> TarjanInv
  <2>1. Components' = Components /\ \A a : Reach(a)' = Reach(a)
    BY <1>2, SameReach
  <2>2. \A x : onStack(x)' <=> onStack(x)
    BY <1>2 DEF onStack
  <2>3. \A x, y : Looked(x, y)' <=> Looked(x, y)
    BY <1>2 DEF Looked
  <2>4. \A x, i : VisitedBy(x, i)' <=> VisitedBy(x, i)
    BY <1>2 DEF VisitedBy
  <2>5. Gone' = Gone
    BY <2>2, <1>2 DEF Gone
  <2>6. Numbers' <=> Numbers
    BY <1>2 DEF Numbers
  <2>7. CallPath' <=> CallPath
    BY <1>2 DEF CallPath, onStack
  <2>8. SuccsSeen' <=> SuccsSeen
    BY <2>3, <1>2 DEF SuccsSeen
  <2>9. GoneClosed' <=> GoneClosed
    BY <2>5, <1>2 DEF GoneClosed
  <2>10. StackPaths' <=> StackPaths
    BY <2>1, <2>2, <1>2 DEF StackPaths
  <2>11. Lowlinks' <=> Lowlinks
    BY <2>1, <2>2, <2>3, <2>4, <1>2 DEF Lowlinks
  <2>12. ComponentsSoFar' <=> ComponentsSoFar
    BY <2>1, <2>5, <1>1 DEF ComponentsSoFar
  <2>. QED BY <2>6, <2>7, <2>8, <2>9, <2>10, <2>11, <2>12, <1>5 DEF TarjanInv
<1>8. CASE Idle
  <2>1. Idle'
    BY <1>1, <1>2, <1>8 DEF Idle
  <2>. QED BY <2>1 DEF SearchInv
<1>9. CASE Traversing
  BY <1>1, <1>3, <1>4, <1>5, <1>7, <1>9 DEF SearchInv, Traversing, RoundInv
<1>10. CASE Removing
  BY <1>1, <1>2, <1>3, <1>4, <1>5, <1>6, <1>10 DEF SearchInv, Removing, RoundInv
<1>11. CASE Finished
  BY <1>1, <1>2, <1>3, <1>4, <1>5, <1>11 DEF SearchInv, Finished
<1>. QED BY <1>8, <1>9, <1>10, <1>11 DEF SearchInv

(***************************************************************************)
(* What the invariant means for the result and on the way to it.           *)
(***************************************************************************)
LEMMA StoredTypes ==
  ASSUME Suitable, NEW H, StoredFor(H)
  PROVE  loop_set \subseteq SUBSET Blocks /\ DOMAIN bb2base \subseteq Blocks
<1>1. \A h \in H : NaturalLoop(h) \subseteq Blocks
  BY HeaderDominates DEF StoredFor, Headers
<1>. QED BY <1>1 DEF StoredFor

\* Types before the search.
LEMMA IdleTyped ==
  ASSUME Idle
  PROVE  TypeOK
BY DEF Idle, TypeOK, Range

\* TypeOK.
LEMMA SearchTyped ==
  ASSUME SearchInv, Suitable
  PROVE  TypeOK
<1>1. CASE Idle
  BY <1>1, IdleTyped
<1>2. ASSUME TarjanTypes, GraphTypes, NEW H, StoredFor(H), reserved \subseteq Blocks,
             sccs \subseteq SUBSET Blocks, step \in {"idle", "scc", "bases", "done", "abort"}
      PROVE  TypeOK
  <2>1. loop_set \subseteq SUBSET Blocks /\ DOMAIN bb2base \subseteq Blocks
    BY <1>2, StoredTypes
  <2>2. Range(stack) \subseteq nodes
    BY <1>2 DEF Range, TarjanTypes
  <2>3. ASSUME NEW i \in DOMAIN calls PROVE calls[i].n \in nodes /\ calls[i].todo \subseteq Blocks
    <3>1. calls[i] \in CallSet
      BY <1>2 DEF TarjanTypes
    <3>. QED BY <3>1, <1>2 DEF CallSet, TarjanTypes
  <2>. QED BY <2>1, <2>2, <2>3, <1>2 DEF TypeOK, TarjanTypes, GraphTypes
<1>3. CASE Traversing
  <2>1. reserved \subseteq Blocks /\ nodes \subseteq Blocks /\ IsFiniteSet(nodes)
    BY <1>3, LeftEdges DEF Traversing, RoundInv, LeftOver
  <2>2. \A C \in sccs : C \in Components
    BY <1>3 DEF Traversing, TarjanInv, ComponentsSoFar
  <2>3. sccs \subseteq SUBSET Blocks
    BY <2>1, <2>2, ComponentLaws DEF Strong
  <2>. QED BY <2>1, <2>3, <1>2, <1>3 DEF Traversing, RoundInv
<1>4. CASE Removing
  <2>1. reserved \subseteq Blocks
    BY <1>4 DEF Removing, RoundInv, LeftOver
  <2>2. \A h \in Headers : NaturalLoop(h) \subseteq Blocks
    BY HeaderDominates DEF Headers
  <2>3. sccs \subseteq SUBSET Blocks
    BY <2>2, <1>4 DEF Removing, SccsInv
  <2>. QED BY <2>1, <2>3, <1>2, <1>4 DEF Removing, RoundInv
<1>5. CASE Finished
  BY <1>2, <1>5 DEF Finished
<1>. QED BY <1>1, <1>3, <1>4, <1>5 DEF SearchInv

\* BaseFound.
LEMMA SearchBases ==
  ASSUME SearchInv
  PROVE  BaseFound
BY DEF SearchInv, BaseFound, Idle, Traversing, Removing, Finished

\* ComponentsCorrect.
LEMMA SearchComponents ==
  ASSUME SearchInv, Suitable
  PROVE  ComponentsCorrect
<1>1. SUFFICES ASSUME Traversing
               PROVE  /\ sccs \subseteq Components
                      /\ TraversalEnded => sccs = Components
                      /\ \A n \in nodes : succs[n] \subseteq nodes
  BY DEF SearchInv, Idle, Removing, Finished, ComponentsCorrect
<1>2. sccs \subseteq Components
  BY <1>1 DEF Traversing, TarjanInv, ComponentsSoFar
<1>3. TraversalEnded => sccs = Components
  BY <1>1, AllFound
<1>4. \A n \in nodes : succs[n] \subseteq nodes
  BY <1>1, LeftEdges DEF Traversing, RoundInv
<1>. QED BY <1>2, <1>3, <1>4

\* At the end the loops of all headers are stored.
LEMMA StoredAtEnd ==
  ASSUME SearchInv, step = "done"
  PROVE  StoredFor(Headers)
BY DEF SearchInv, Idle, Traversing, Removing, Finished

\* LoopsNatural.
LEMMA SearchLoops ==
  ASSUME SearchInv
  PROVE  LoopsNatural
BY StoredAtEnd DEF LoopsNatural, StoredFor

\* get_inner_loop at the end, by headers.
LEMMA InnerLoop ==
  ASSUME SearchInv, step = "done", NEW b
  PROVE  /\ (\A h \in Headers : b \notin NaturalLoop(h)) => get_inner_loop(b) = NoLoop
         /\ (\E h \in Headers : b \in NaturalLoop(h)) =>
              \E r \in Headers :
                /\ get_inner_loop(b) = NaturalLoop(r) /\ b \in NaturalLoop(r)
                /\ \A h \in Headers : b \in NaturalLoop(h) => NaturalLoop(r) \subseteq NaturalLoop(h)
<1>1. StoredFor(Headers)
  BY StoredAtEnd
<1>2. b \in DOMAIN bb2base <=> \E h \in Headers : b \in NaturalLoop(h)
  BY <1>1 DEF StoredFor
<1>3. CASE b \notin DOMAIN bb2base
  BY <1>2, <1>3 DEF get_inner_loop
<1>4. CASE b \in DOMAIN bb2base
  <2>1. PICK r \in Headers : /\ bb2base[b] = r /\ b \in NaturalLoop(r)
                             /\ \A h \in Headers : b \in NaturalLoop(h) => NaturalLoop(r) \subseteq NaturalLoop(h)
    BY <1>1, <1>4 DEF StoredFor
  <2>2. get_inner_loop(b) = NaturalLoop(r)
    BY <1>1, <1>4, <2>1 DEF StoredFor, get_inner_loop
  <2>. QED BY <2>1, <2>2
<1>. QED BY <1>3, <1>4

\* InnermostLoop.
LEMMA SearchInner ==
  ASSUME SearchInv
  PROVE  InnermostLoop
<1>1. SUFFICES ASSUME step = "done", NEW b \in Blocks
               PROVE  LET around == {L \in loop_set : b \in L}
                      IN  IF around = {} THEN get_inner_loop(b) = NoLoop
                          ELSE /\ get_inner_loop(b) \in around
                               /\ \A L \in around : get_inner_loop(b) \subseteq L
  BY DEF InnermostLoop
<1> DEFINE around == {L \in loop_set : b \in L}
<1>2. loop_set = {NaturalLoop(h) : h \in Headers}
  BY <1>1, StoredAtEnd DEF StoredFor
<1>3. CASE \A h \in Headers : b \notin NaturalLoop(h)
  <2>1. around = {}
    BY <1>2, <1>3
  <2>2. get_inner_loop(b) = NoLoop
    BY <1>1, <1>3, InnerLoop
  <2>. QED BY <2>1, <2>2
<1>4. CASE \E h \in Headers : b \in NaturalLoop(h)
  <2>1. PICK r \in Headers :
          /\ get_inner_loop(b) = NaturalLoop(r) /\ b \in NaturalLoop(r)
          /\ \A h \in Headers : b \in NaturalLoop(h) => NaturalLoop(r) \subseteq NaturalLoop(h)
    BY <1>1, <1>4, InnerLoop
  <2>2. get_inner_loop(b) \in around /\ \A L \in around : get_inner_loop(b) \subseteq L
    BY <2>1, <1>2
  <2>. QED BY <2>2
<1>. QED BY <1>3, <1>4

\* A loop is around the loop of h, and not the same, when it has h and a block
\* that leads to h from outside.
LEMMA LoopsAround ==
  ASSUME Suitable, NEW h \in Headers, NEW m \in Headers,
         NEW p \in Blocks \ NaturalLoop(h), <<p, h>> \in CFG
  PROVE  (NaturalLoop(h) # NaturalLoop(m) /\ NaturalLoop(h) \subseteq NaturalLoop(m))
           <=> (p \in NaturalLoop(m) /\ h \in NaturalLoop(m))
<1>1. h \in Blocks /\ m \in Blocks /\ h \in NaturalLoop(h) /\ m \in NaturalLoop(m)
  BY InLoop DEF Headers
<1>2. ASSUME NaturalLoop(h) # NaturalLoop(m), NaturalLoop(h) \subseteq NaturalLoop(m)
      PROVE  p \in NaturalLoop(m) /\ h \in NaturalLoop(m)
  <2>1. h \in NaturalLoop(m) /\ h # m
    BY <1>1, <1>2
  <2>. QED BY <2>1, <1>1, LoopEntry
<1>3. ASSUME p \in NaturalLoop(m), h \in NaturalLoop(m)
      PROVE  NaturalLoop(h) # NaturalLoop(m) /\ NaturalLoop(h) \subseteq NaturalLoop(m)
  BY <1>1, <1>3, LoopsNest
<1>. QED BY <1>2, <1>3

\* Where a block enters a loop by br, every loop that has the block has the
\* header it leads to.
LEMMA BrInside ==
  ASSUME Suitable, EnteredByBr, NEW h \in Headers, NEW m \in Headers,
         NEW p \in Blocks \ NaturalLoop(h), <<p, h>> \in CFG, p \in NaturalLoop(m)
  PROVE  h \in NaturalLoop(m)
<1>1. h \in Blocks
  BY DEF Headers
<1>2. p \in PrevsOf(func, h) \ NaturalLoop(h)
  BY <1>1, EdgesByLists
<1>3. Len(func.succ[p]) = 1 /\ func.succ[p] \in Seq(Blocks)
  BY <1>2 DEF EnteredByBr, Suitable, FunctionGraph
<1>4. SuccsOf(func, p) = {func.succ[p][1]}
  BY <1>3 DEF SuccsOf, Range
<1>5. PICK e \in CFG : e[1] = p /\ e[2] \in NaturalLoop(m)
  BY LoopGoesOn
<1>6. e[2] \in SuccsOf(func, p) /\ h \in SuccsOf(func, p)
  BY <1>5 DEF CFG
<1>. QED BY <1>4, <1>5, <1>6

\* ParentLoopCorrect: the block whose innermost loop get_parent_loop takes is in
\* a loop exactly when the loop is around the given one.
LEMMA SearchParent ==
  ASSUME SearchInv, Suitable
  PROVE  ParentLoopCorrect
<1>1. SUFFICES ASSUME step = "done", EnteredByBr, NEW L \in loop_set
               PROVE  LET around == {M \in loop_set : L # M /\ L \subseteq M}
                      IN  IF around = {} THEN get_parent_loop(L) = NoLoop
                          ELSE /\ get_parent_loop(L) \in around
                               /\ \A M \in around : get_parent_loop(L) \subseteq M
  BY DEF ParentLoopCorrect
<1> DEFINE around == {M \in loop_set : L # M /\ L \subseteq M}
<1>2. /\ loop_set = {NaturalLoop(m) : m \in Headers}
      /\ \A m \in Headers : loop2base[NaturalLoop(m)] = m
  BY <1>1, StoredAtEnd DEF StoredFor
<1>3. PICK h \in Headers : L = NaturalLoop(h)
  BY <1>2
<1>4. h \in Blocks /\ loop2base[L] = h
  BY <1>2, <1>3 DEF Headers
<1> DEFINE pre == func.pre[h]
           outside == {i \in DOMAIN pre : pre[i] \notin L}
           first == CHOOSE i \in outside : \A j \in outside : i <= j
           outer == get_inner_loop(pre[first])
<1>5. get_parent_loop(L) = IF outside # {} /\ h \in outer THEN outer ELSE NoLoop
  BY <1>4 DEF get_parent_loop
<1>6. pre \in Seq(Blocks) /\ DOMAIN pre = 1 .. Len(pre) /\ Len(pre) \in Nat
  BY <1>4 DEF Suitable, FunctionGraph
<1>7. outside # {}
  <2>1. PICK q \in Blocks \ L : <<q, h>> \in CFG
    BY <1>3, OutsideEntry
  <2>2. q \in Range(pre)
    BY <2>1, <1>4, EdgesByLists DEF PrevsOf
  <2>3. PICK i \in DOMAIN pre : pre[i] = q
    BY <2>2 DEF Range
  <2>4. i \in outside
    BY <2>1, <2>3
  <2>. QED BY <2>4
<1>8. first \in outside
  <2>1. outside \subseteq Nat
    BY <1>6
  <2>. HIDE DEF outside
  <2>2. \E i \in outside : \A j \in outside : i <= j
    BY <1>7, <2>1, Least
  <2>. QED BY <2>2
<1>9. PICK p : p = pre[first]
  OBVIOUS
<1>10. p \in Blocks \ NaturalLoop(h) /\ <<p, h>> \in CFG
  <2>. HIDE DEF first, pre
  <2>1. first \in DOMAIN pre /\ pre[first] \notin L
    BY <1>8
  <2>2. p \in Blocks \ L
    BY <2>1, <1>6, <1>9
  <2>3. p \in Range(pre)
    BY <2>1, <1>9 DEF Range
  <2>4. p \in PrevsOf(func, h)
    BY <2>3 DEF PrevsOf, pre
  <2>. QED BY <2>2, <2>4, <1>3, <1>4, EdgesByLists
<1>11. \A m \in Headers : (L # NaturalLoop(m) /\ L \subseteq NaturalLoop(m)) <=> p \in NaturalLoop(m)
  BY <1>1, <1>3, <1>10, LoopsAround, BrInside
<1>12. \A M : M \in around <=> \E m \in Headers : M = NaturalLoop(m) /\ p \in NaturalLoop(m)
  BY <1>2, <1>11
<1>13. outer = get_inner_loop(p)
  BY <1>9
<1>. HIDE DEF around, outer, outside
<1>14. CASE \A m \in Headers : p \notin NaturalLoop(m)
  <2>1. around = {}
    BY <1>12, <1>14
  <2>2. outer = NoLoop
    BY <1>1, <1>13, <1>14, InnerLoop
  <2>3. get_parent_loop(L) = NoLoop
    BY <2>2, <1>5
  <2>. QED BY <2>1, <2>3 DEF around
<1>15. CASE \E m \in Headers : p \in NaturalLoop(m)
  <2>1. PICK r \in Headers :
          /\ outer = NaturalLoop(r) /\ p \in NaturalLoop(r)
          /\ \A m \in Headers : p \in NaturalLoop(m) => NaturalLoop(r) \subseteq NaturalLoop(m)
    BY <1>1, <1>13, <1>15, InnerLoop
  <2>2. h \in outer
    BY <2>1, <1>1, <1>10, BrInside
  <2>3. get_parent_loop(L) = outer
    BY <2>2, <1>5, <1>7
  <2>4. outer \in around /\ \A M \in around : outer \subseteq M
    BY <2>1, <1>12
  <2>. QED BY <2>3, <2>4 DEF around
<1>. QED BY <1>14, <1>15
=============================================================================
