------------------------------ MODULE FlowGraph ------------------------------
(***************************************************************************)
(* Vocabulary of control-flow graphs for the properties of the builder and *)
(* of the passes: a graph is a set of nodes N, a set of edges              *)
(* E \subseteq N \X N and an entry node r.  Nothing here models code; these *)
(* are the textbook definitions the code is compared with.  Where a proof  *)
(* needs reachability it is stated by closed sets.                         *)
(***************************************************************************)
EXTENDS Integers, FiniteSets, SequencesExt

Closed(S, E) == \A e \in E : e[1] \in S => e[2] \in S

\* Every node of C is reachable from r: it is in every closed set that has r.
AllReachableFrom(r, C, N, E) ==
  \A S \in SUBSET N : r \in S /\ Closed(S, E) => C \subseteq S

\* The lists g.succ and g.pre describe one graph on N, all of which is reachable
\* from r, where no edge ends: what a pass takes a function with blocks N to be.
FunctionGraph(g, N, r) ==
  /\ g.succ \in [N -> Seq(N)] /\ g.pre \in [N -> Seq(N)]
  /\ \A a, b \in N : a \in Range(g.pre[b]) <=> b \in Range(g.succ[a])
  /\ AllReachableFrom(r, N, N, {e \in N \X N : e[2] \in Range(g.succ[e[1]])})
  /\ g.pre[r] = <<>>

\* The nodes reachable from r along edges of E, in Cardinality(N) rounds: the
\* smallest closed set that has r (lemma ReachableLeast of FlowGraph_proofs).
Reachable(r, N, E) ==
  LET succs == [a \in N |-> {b \in N : <<a, b>> \in E}]
      rounds[k \in 0 .. Cardinality(N) - 1] ==
        IF k = 0 THEN {r}
        ELSE LET reached == rounds[k - 1]
             IN  reached \union UNION {succs[a] : a \in reached}
  IN  rounds[Cardinality(N) - 1]

Without(E, d) == {e \in E : d \notin {e[1], e[2]}}

\* d dominates b: no path from the entry reaches b without d.
Dominates(d, b, r, N, E) ==
  d = b \/ d = r \/ b \notin Reachable(r, N \ {d}, Without(E, d))

StrictlyDominates(d, b, r, N, E) == d # b /\ Dominates(d, b, r, N, E)

\* The immediate dominator: the strict dominator every other one dominates.
ImmediateDominators(b, r, N, E) ==
  {d \in N : /\ StrictlyDominates(d, b, r, N, E)
             /\ \A c \in N : StrictlyDominates(c, b, r, N, E)
                                => Dominates(c, d, r, N, E)}

\* The dominance frontier of a: where the dominance of a stops.
DominanceFrontier(a, r, N, E) ==
  {b \in N : /\ ~StrictlyDominates(a, b, r, N, E)
             /\ \E p \in N : <<p, b>> \in E /\ Dominates(a, p, r, N, E)}

\* No cycle: no edge starts where a path from its end leads.
Acyclic(N, E) == \A e \in E : e[1] \notin Reachable(e[2], N, E)

\* Reducible: only edges back to a dominator close a cycle.
Reducible(r, N, E) ==
  LET back == {e \in E : Dominates(e[2], e[1], r, N, E)}
  IN  Acyclic(N, E \ back)
=============================================================================
