------------------------------ MODULE MCPasses ------------------------------
(***************************************************************************)
(* Graphs for the passes: every function of NSmall blocks in which all are *)
(* reachable and none branches to the entry, with at most two successors   *)
(* per block in both orders, as br and cond_br record them, and the        *)
(* predecessors in ascending order; the entry's first successor is named 2 *)
(* and its second 3.  A chain of blocks leads to it, so that all functions *)
(* have NBlocks blocks.  Shapes are graphs of six blocks: nested and       *)
(* irreducible loops, which take more than two sweeps.                     *)
(***************************************************************************)
EXTENDS Passes

CONSTANTS NBlocks, NSmall

MCBlocks == 1 .. NBlocks
MCEntry == 1

Targets == 2 .. NSmall
SuccLists == {<<>>} \union {<<a>> : a \in Targets}
             \union {p \in Targets \X Targets : p[1] # p[2]}

Sorted(S) == SetToSortSeq(S, <)
PredsOf(succ, b) == {a \in MCBlocks : b \in Range(succ[a])}
AsGraph(succ) ==
  [succ |-> succ, pre |-> [b \in MCBlocks |-> Sorted(PredsOf(succ, b))],
   loop_search |-> FALSE]
AllReached(succ) ==
  Reachable(1, 1 .. NSmall, {e \in (1 .. NSmall) \X Targets : e[2] \in Range(succ[e[1]])})
    = 1 .. NSmall

\* The function succ after a chain of blocks.
AfterChain(succ) ==
  LET n == NBlocks - NSmall
  IN  [b \in 1 .. n |-> <<b + 1>>] \o
      [b \in 1 .. NSmall |-> [i \in DOMAIN succ[b] |-> succ[b][i] + n]]

SmallGraphs ==
  {AsGraph(AfterChain(<<x[1]>> \o x[2])) :
     x \in {y \in {<<2>>, <<2, 3>>} \X [1 .. NSmall - 1 -> SuccLists] :
              AllReached(<<y[1]>> \o y[2])}}

\* Both orders of every predecessor list.
BothOrders(succ) ==
  LET g == AsGraph(succ) IN {g, [g EXCEPT !.pre = [b \in MCBlocks |-> Reverse(g.pre[b])]]}

Shapes == UNION {BothOrders(succ) : succ \in {
  <<<<2, 3>>, <<4>>, <<5>>, <<5, 6>>, <<4>>, <<4, 5>>>>,       \* irreducible, chained
  <<<<2>>, <<3, 6>>, <<4, 5>>, <<3>>, <<2>>, <<>>>>,           \* nested loops
  <<<<6, 5>>, <<>>, <<2, 4>>, <<3, 2>>, <<3>>, <<4, 2>>>>,     \* two entries to a loop
  <<<<3, 2>>, <<4, 5>>, <<5, 6>>, <<6>>, <<6, 2>>, <<3>>>>,
  <<<<2, 4>>, <<3, 2>>, <<2, 6>>, <<5, 3>>, <<4, 6>>, <<>>>>}}

\* LoopSearch: loops in loops and after loops, entered by br as the builder
\* enters them or directly; two edges back to one base; a loop of one block.
Searched == {
  <<<<2>>, <<3, 6>>, <<4, 5>>, <<3>>, <<2>>, <<>>>>,           \* while in while
  <<<<2>>, <<3, 6>>, <<4>>, <<5, 2>>, <<4>>, <<>>>>,           \* the same, entered by br
  <<<<2>>, <<3, 4>>, <<2>>, <<5>>, <<6>>, <<5>>>>,             \* while after while
  <<<<2>>, <<3, 5>>, <<4>>, <<3, 2>>, <<6, 2>>, <<5>>>>,       \* two loops in a loop
  <<<<2>>, <<3, 6>>, <<4, 5>>, <<2>>, <<2>>, <<>>>>,           \* if in while, two edges back
  <<<<2>>, <<3>>, <<4, 2>>, <<5, 3>>, <<4, 6>>, <<>>>>,        \* three nested loops
  <<<<2>>, <<3, 5>>, <<3, 4>>, <<2>>, <<6>>, <<>>>>}           \* a loop of one block inside
SearchGraphs == {[AsGraph(succ) EXCEPT !.loop_search = TRUE] : succ \in Searched}
MCGraphs == SmallGraphs \union Shapes \union SearchGraphs
=============================================================================
