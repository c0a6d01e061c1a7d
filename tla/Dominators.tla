----------------------------- MODULE Dominators -----------------------------
(***************************************************************************)
(* The pass Dominators (optimization/Dominators.cpp) on one function:      *)
(* post-order numbering by depth-first search, the iterative computation   *)
(* of immediate dominators over the reverse post-order, dominance          *)
(* frontiers and the dominator tree.                                       *)
(*                                                                         *)
(* A step is one iteration of the innermost loop the code is in.  The      *)
(* recursion of post_order_visit is the variable stack.  A failed assert   *)
(* stops the pass in phase "abort"; so does a runner that becomes null,    *)
(* which in the code would climb from null to null for ever.               *)
(***************************************************************************)
EXTENDS Integers, Sequences, SequencesExt, FlowGraph

CONSTANTS
  Blocks,   \* the basic blocks of the function
  Entry,    \* get_entry_block()
  Graphs    \* the functions considered: successor and predecessor lists

NoBB == 0   \* nullptr

SuccsIn(g, b) == Range(g.succ[b])
EdgesOf(g) == {e \in Blocks \X Blocks : e[2] \in SuccsIn(g, e[1])}

ASSUME BlocksAssumption ==
  IsFiniteSet(Blocks) /\ Entry \in Blocks /\ NoBB \notin Blocks

\* What the builder establishes of every function it finishes (theorem
\* BuiltFunctionsSuitDominators of CFGBuilder_proofs).
ASSUME GraphsAssumption == \A g \in Graphs : FunctionGraph(g, Blocks, Entry)

VARIABLES
  graph,           \* the function: an element of Graphs
  phase,           \* the loop the pass is in
  visited, stack,  \* of post_order_visit: [bb, i] is a call at its i-th successor
  post_order_id_,  \* std::map: 0 for a block that has not been numbered
  post_order,      \* reverse_post_order_ before it is reversed
  idom_, changed,  \* of create_idom
  at,              \* index in post_order of the block being processed
  k,               \* index of the predecessor being processed
  pred, new_idom,  \* locals of create_idom
  b1, b2,          \* locals of intersect
  todo, runner,    \* of create_dominance_frontier: pairs of a block and the
                   \* index of a predecessor, and the climbing block
  dom_frontier_, dom_tree_succ_blocks_

idomVars == <<idom_, changed, at, k, pred, new_idom, b1, b2>>
resultVars == <<todo, runner, dom_frontier_, dom_tree_succ_blocks_>>
dfsVars == <<visited, stack, post_order_id_, post_order>>
vars == <<graph, phase, dfsVars, idomVars, resultVars>>

\* Mutant of Init: successors counted from 0.
InitIndexZero ==
  /\ graph \in Graphs
  /\ phase = "dfs"
  /\ visited = {Entry}
  /\ stack = <<[bb |-> Entry, i |-> 0]>>
  /\ post_order_id_ = [b \in Blocks |-> 0]
  /\ post_order = <<>>
  /\ idom_ = [b \in Blocks |-> NoBB]
  /\ changed = FALSE /\ at = 0 /\ k = 0
  /\ pred = NoBB /\ new_idom = NoBB /\ b1 = NoBB /\ b2 = NoBB
  /\ todo = {} /\ runner = NoBB
  /\ dom_frontier_ = [b \in Blocks |-> {}]
  /\ dom_tree_succ_blocks_ = [b \in Blocks |-> {}]

Init ==
  /\ graph \in Graphs
  /\ phase = "dfs"
  /\ visited = {Entry}
  /\ stack = <<[bb |-> Entry, i |-> 1]>>
  /\ post_order_id_ = [b \in Blocks |-> 0]
  /\ post_order = <<>>
  /\ idom_ = [b \in Blocks |-> NoBB]
  /\ changed = FALSE /\ at = 0 /\ k = 0
  /\ pred = NoBB /\ new_idom = NoBB /\ b1 = NoBB /\ b2 = NoBB
  /\ todo = {} /\ runner = NoBB
  /\ dom_frontier_ = [b \in Blocks |-> {}]
  /\ dom_tree_succ_blocks_ = [b \in Blocks |-> {}]

(***************************************************************************)
(* create_reverse_post_order                                               *)
(***************************************************************************)
Top == Last(stack)
Succ == graph.succ[Top.bb]

\* The next successor of the innermost call: visited before it is entered.
VisitSuccessor ==
  /\ phase = "dfs" /\ stack # <<>> /\ Top.i <= Len(Succ)
  /\ LET b == Succ[Top.i]
         advanced == Append(Front(stack), [Top EXCEPT !.i = @ + 1])
     IN  IF b \in visited
         THEN stack' = advanced /\ UNCHANGED visited
         ELSE /\ visited' = visited \union {b}
              /\ stack' = Append(advanced, [bb |-> b, i |-> 1])
  /\ UNCHANGED <<graph, phase, post_order_id_, post_order, idomVars, resultVars>>

\* All successors done: the block gets the next number and the call returns.
FinishVisit ==
  /\ phase = "dfs" /\ stack # <<>> /\ Top.i > Len(Succ)
  /\ post_order_id_' = [post_order_id_ EXCEPT ![Top.bb] = Len(post_order)]
  /\ post_order' = Append(post_order, Top.bb)
  /\ stack' = Front(stack)
  /\ UNCHANGED <<graph, phase, visited, idomVars, resultVars>>

(***************************************************************************)
(* create_idom: sweeps over the reverse post-order until nothing changes.  *)
(***************************************************************************)
FirstSweep ==
  /\ phase = "dfs" /\ stack = <<>>
  /\ idom_' = [b \in Blocks |-> IF b = Entry THEN Entry ELSE NoBB]
  /\ phase' = "sweep"
  /\ changed' = FALSE
  /\ at' = Len(post_order)          \* the last one numbered comes first
  /\ UNCHANGED <<graph, dfsVars, k, pred, new_idom, b1, b2, resultVars>>

\* Mutant of NextSweep: the links are reset inside the loop.
NextSweepReset ==
  /\ phase = "sweep" /\ at = 0 /\ changed
  /\ idom_' = [b \in Blocks |-> IF b = Entry THEN Entry ELSE NoBB]
  /\ changed' = FALSE
  /\ at' = Len(post_order)
  /\ UNCHANGED <<graph, phase, dfsVars, k, pred, new_idom, b1, b2, resultVars>>

NextSweep ==
  /\ phase = "sweep" /\ at = 0 /\ changed
  /\ changed' = FALSE
  /\ at' = Len(post_order)
  /\ UNCHANGED <<graph, phase, dfsVars, idom_, k, pred, new_idom, b1, b2, resultVars>>

bb == post_order[at]
Pre == graph.pre[bb]
HasIdom(b) == idom_[b] # NoBB
WithIdom == {i \in 1 .. Len(Pre) : HasIdom(Pre[i])}

SkipRoot ==
  /\ phase = "sweep" /\ at > 0 /\ bb = Entry
  /\ at' = at - 1
  /\ UNCHANGED <<graph, phase, dfsVars, idom_, changed, k, pred, new_idom, b1, b2, resultVars>>

\* The first predecessor that has an immediate dominator; assert(pred).
FindPred ==
  /\ phase = "sweep" /\ at > 0 /\ bb # Entry
  /\ IF WithIdom = {}
     THEN phase' = "abort" /\ UNCHANGED <<pred, new_idom, k>>
     ELSE \E first \in WithIdom :
            /\ \A i \in WithIdom : first <= i
            /\ pred' = Pre[first]
            /\ new_idom' = Pre[first]
            /\ k' = 1
            /\ phase' = "preds"
  /\ UNCHANGED <<graph, dfsVars, idom_, changed, at, b1, b2, resultVars>>

SkipPred ==
  /\ phase = "preds" /\ k <= Len(Pre)
  /\ Pre[k] = pred \/ ~HasIdom(Pre[k])
  /\ k' = k + 1
  /\ UNCHANGED <<graph, phase, dfsVars, idom_, changed, at, pred, new_idom, b1, b2, resultVars>>

\* Mutant of CallIntersect: a predecessor without an idom is not skipped.
CallIntersectAny ==
  /\ phase = "preds" /\ k <= Len(Pre) /\ Pre[k] # pred
  /\ b1' = Pre[k]
  /\ b2' = new_idom
  /\ phase' = "intersect"
  /\ UNCHANGED <<graph, dfsVars, idom_, changed, at, k, pred, new_idom, resultVars>>

\* Mutant of CallIntersect: the first climb is made before any comparison.
CallIntersectClimbFirst ==
  /\ phase = "preds" /\ k <= Len(Pre)
  /\ Pre[k] # pred /\ HasIdom(Pre[k])
  /\ b1' = idom_[Pre[k]]
  /\ b2' = new_idom
  /\ phase' = "intersect"
  /\ UNCHANGED <<graph, dfsVars, idom_, changed, at, k, pred, new_idom, resultVars>>

CallIntersect ==
  /\ phase = "preds" /\ k <= Len(Pre)
  /\ Pre[k] # pred /\ HasIdom(Pre[k])
  /\ b1' = Pre[k]
  /\ b2' = new_idom
  /\ phase' = "intersect"
  /\ UNCHANGED <<graph, dfsVars, idom_, changed, at, k, pred, new_idom, resultVars>>

\* intersect: the block with the smaller number climbs; assert(get_idom(.)).
ClimbB1 ==
  /\ phase = "intersect" /\ post_order_id_[b1] < post_order_id_[b2]
  /\ IF HasIdom(b1)
     THEN b1' = idom_[b1] /\ UNCHANGED phase
     ELSE phase' = "abort" /\ UNCHANGED b1
  /\ UNCHANGED <<graph, dfsVars, idom_, changed, at, k, pred, new_idom, b2, resultVars>>

ClimbB2 ==
  /\ phase = "intersect" /\ post_order_id_[b2] < post_order_id_[b1]
  /\ IF HasIdom(b2)
     THEN b2' = idom_[b2] /\ UNCHANGED phase
     ELSE phase' = "abort" /\ UNCHANGED b2
  /\ UNCHANGED <<graph, dfsVars, idom_, changed, at, k, pred, new_idom, b1, resultVars>>

\* Mutant of IntersectReturns: the predecessor itself is returned.
IntersectReturnsPred ==
  /\ phase = "intersect" /\ b1 = b2
  /\ new_idom' = Pre[k]
  /\ k' = k + 1
  /\ phase' = "preds"
  /\ UNCHANGED <<graph, dfsVars, idom_, changed, at, pred, b1, b2, resultVars>>

IntersectReturns ==
  /\ phase = "intersect" /\ b1 = b2
  /\ new_idom' = b1
  /\ k' = k + 1
  /\ phase' = "preds"
  /\ UNCHANGED <<graph, dfsVars, idom_, changed, at, pred, b1, b2, resultVars>>

\* Mutant of SetIdom: changed is set whether or not the link changes.
SetIdomAlwaysChanged ==
  /\ phase = "preds" /\ k > Len(Pre)
  /\ idom_' = [idom_ EXCEPT ![bb] = new_idom]
  /\ changed' = TRUE
  /\ at' = at - 1
  /\ phase' = "sweep"
  /\ UNCHANGED <<graph, dfsVars, k, pred, new_idom, b1, b2, resultVars>>

SetIdom ==
  /\ phase = "preds" /\ k > Len(Pre)
  /\ idom_' = [idom_ EXCEPT ![bb] = new_idom]
  /\ changed' = (changed \/ idom_[bb] # new_idom)
  /\ at' = at - 1
  /\ phase' = "sweep"
  /\ UNCHANGED <<graph, dfsVars, k, pred, new_idom, b1, b2, resultVars>>

(***************************************************************************)
(* create_dominance_frontier and create_dom_tree_succ                      *)
(***************************************************************************)
\* Mutant of JoinBlocks: more than two predecessors.
JoinBlocksThree == {b \in Blocks : Len(graph.pre[b]) > 2}

JoinBlocks == {b \in Blocks : Len(graph.pre[b]) >= 2}

\* Every predecessor of a block with two or more: the pairs still to process.
StartFrontier ==
  /\ phase = "sweep" /\ at = 0 /\ ~changed
  /\ phase' = "frontier"
  /\ todo' = UNION {{b} \X (1 .. Len(graph.pre[b])) : b \in JoinBlocks}
  /\ UNCHANGED <<graph, dfsVars, idomVars, runner, dom_frontier_, dom_tree_succ_blocks_>>

\* The pair being processed.  Frontiers are sets, so that the order in which
\* the pairs are taken makes no difference.
Pair == CHOOSE x \in todo : TRUE

StartRunner ==
  /\ phase = "frontier" /\ todo # {}
  /\ runner' = graph.pre[Pair[1]][Pair[2]]
  /\ phase' = "runner"
  /\ UNCHANGED <<graph, dfsVars, idomVars, todo, dom_frontier_, dom_tree_succ_blocks_>>

RunnerClimbs ==
  /\ phase = "runner" /\ runner # idom_[Pair[1]]
  /\ dom_frontier_' = [dom_frontier_ EXCEPT ![runner] = @ \union {Pair[1]}]
  /\ IF HasIdom(runner)
     THEN runner' = idom_[runner] /\ UNCHANGED phase
     ELSE phase' = "abort" /\ UNCHANGED runner
  /\ UNCHANGED <<graph, dfsVars, idomVars, todo, dom_tree_succ_blocks_>>

RunnerStops ==
  /\ phase = "runner" /\ runner = idom_[Pair[1]]
  /\ todo' = todo \ {Pair}
  /\ phase' = "frontier"
  /\ UNCHANGED <<graph, dfsVars, idomVars, runner, dom_frontier_, dom_tree_succ_blocks_>>

CreateDomTreeSucc ==
  /\ phase = "frontier" /\ todo = {}
  /\ dom_tree_succ_blocks_' =
       [b \in Blocks |-> {c \in Blocks : idom_[c] = b /\ c # b}]
  /\ phase' = "done"
  /\ UNCHANGED <<graph, dfsVars, idomVars, todo, runner, dom_frontier_>>

Done == phase = "done" /\ UNCHANGED vars

Next ==
  \/ VisitSuccessor \/ FinishVisit
  \/ FirstSweep \/ NextSweep \/ SkipRoot \/ FindPred \/ SkipPred \/ CallIntersect
  \/ ClimbB1 \/ ClimbB2 \/ IntersectReturns \/ SetIdom
  \/ StartFrontier \/ StartRunner \/ RunnerClimbs \/ RunnerStops
  \/ CreateDomTreeSucc
  \/ Done

Spec == Init /\ [][Next]_vars

(***************************************************************************)
(* Properties.                                                             *)
(***************************************************************************)
MaybeBB == Blocks \union {NoBB}

Types ==
  /\ phase \in {"dfs", "sweep", "preds", "intersect", "frontier", "runner",
                "done", "abort"}
  /\ visited \subseteq Blocks
  /\ stack \in Seq([bb : Blocks, i : Nat \ {0}])
  /\ post_order_id_ \in [Blocks -> Nat]
  /\ post_order \in Seq(Blocks)
  /\ idom_ \in [Blocks -> MaybeBB]
  /\ changed \in BOOLEAN
  /\ at \in Nat /\ k \in Nat
  /\ {pred, new_idom, b1, b2, runner} \subseteq MaybeBB
  /\ todo \subseteq JoinBlocks \X Nat
  /\ dom_frontier_ \in [Blocks -> SUBSET Blocks]
  /\ dom_tree_succ_blocks_ \in [Blocks -> SUBSET Blocks]

\* The blocks that maps and lists are looked up with in the phase the pass is
\* in are blocks of the function, not null, and so is every position in range:
\* of a call's successor (or one past the last), of the block a sweep has
\* reached, of its predecessor and of those of the join blocks.  When the
\* sweeps are over every block has a parent to be added to in the tree.
LookupsInRange ==
  /\ \A n \in 1 .. Len(stack) : stack[n].i <= Len(graph.succ[stack[n].bb]) + 1
  /\ phase \in {"sweep", "preds", "intersect"} => at <= Len(post_order)
  /\ phase \in {"preds", "intersect"} =>
       at > 0 /\ k > 0 /\ {pred, new_idom} \subseteq Blocks
  /\ phase = "intersect" => k <= Len(Pre) /\ {b1, b2} \subseteq Blocks
  /\ \A x \in todo : x[2] \in 1 .. Len(graph.pre[x[1]])
  /\ phase = "runner" => todo # {} /\ runner \in Blocks
  /\ phase \in {"frontier", "runner", "done"} => \A b \in Blocks : idom_[b] \in Blocks

\* Type invariant: the variables keep their types, and nothing is looked up
\* with a null block or past the end of a list.
TypeOK == Types /\ LookupsInRange

\* No assert of create_idom and intersect fails and no null block is followed:
\* the block being processed has a predecessor with an immediate dominator,
\* and climbing never runs out of them.
NoAbort == phase # "abort"

\* Every link of the tree under construction leads to a block numbered later:
\* the links have no cycle and intersect comes to an end.
IdomNumberedLater ==
  \A b \in Blocks \ {Entry} :
     HasIdom(b) => /\ HasIdom(idom_[b])
                   /\ post_order_id_[b] < post_order_id_[idom_[b]]

\* The ancestors of b in the tree built so far.
Ancestors(b) ==
  Reachable(b, {c \in Blocks : HasIdom(c)},
            {<<c, idom_[c]>> : c \in {d \in Blocks : HasIdom(d)}})

\* The tree only ever errs by having too many ancestors: in every state of
\* the iteration each dominator of a block is among its ancestors.
DominatorsAreAncestors ==
  phase \in {"sweep", "frontier"} =>
    LET E == EdgesOf(graph)
    IN  \A b \in {c \in Blocks : HasIdom(c)} :
          {d \in Blocks : Dominates(d, b, Entry, Blocks, E)} \subseteq Ancestors(b)

\* A block's immediate dominator, once set, only moves towards the root:
\* this is why the sweeps come to an end.
IdomOnlyRises ==
  [][\A b \in Blocks : HasIdom(b) /\ phase # "dfs" =>
        HasIdom(b)' /\ post_order_id_[idom_[b]] <= post_order_id_[idom_'[b]]]_vars

\* The result: idom_ is the immediate dominator of every block but the entry,
\* dom_frontier_ its dominance frontier and dom_tree_succ_blocks_ the tree.
ResultCorrect ==
  phase = "done" =>
    LET E == EdgesOf(graph)
    IN  /\ idom_[Entry] = Entry
        /\ \A b \in Blocks \ {Entry} :
             {idom_[b]} = ImmediateDominators(b, Entry, Blocks, E)
        /\ \A b \in Blocks :
             /\ dom_frontier_[b] = DominanceFrontier(b, Entry, Blocks, E)
             /\ dom_tree_succ_blocks_[b] =
                  {c \in Blocks \ {Entry} : b \in ImmediateDominators(c, Entry, Blocks, E)}
=============================================================================
