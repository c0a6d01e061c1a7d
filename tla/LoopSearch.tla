------------------------------ MODULE LoopSearch ------------------------------
(***************************************************************************)
(* The pass LoopSearch (optimization/LoopSearch.cpp) on one function: the  *)
(* strongly connected components of the flow graph are the outermost       *)
(* loops; the base of each is taken out of the graph and the components of *)
(* what is left are the loops nested in them, until there are none.        *)
(*                                                                         *)
(* The containers of the code are unordered sets of pointers, so that the  *)
(* order in which nodes, successors and components are taken is any order. *)
(* The recursion of traverse is the variable calls.  A null loop base,     *)
(* which the code would dereference, stops the pass in step "abort".       *)
(***************************************************************************)
EXTENDS Integers, Sequences, FlowGraph

CONSTANTS
  Blocks,   \* the basic blocks of the function
  Entry     \* get_entry_block()

VARIABLES
  func,                  \* the function: successor and predecessor lists
  step,                  \* the loop run() is in
  nodes, succs, prevs,   \* the flow graph, from which bases are removed
  index, lowlink, stack, index_count,   \* of Tarjan's algorithm; -1: not visited
  calls,                 \* of traverse: [n, todo] is a call and its successors to come
  sccs, reserved,        \* components found in this round; bases removed so far
  loop_set, base2loop, loop2base, bb2base   \* the result

graphVars == <<nodes, succs, prevs, reserved>>
tarjanVars == <<index, lowlink, stack, index_count, calls>>
resultVars == <<loop_set, base2loop, loop2base, bb2base>>
vars == <<func, step, graphVars, tarjanVars, sccs, resultVars>>

NoBB == 0   \* nullptr
Lower(a, b) == IF a < b THEN a ELSE b
With(f, x, y) == [z \in DOMAIN f \union {x} |-> IF z = x THEN y ELSE f[z]]

SuccsOf(g, b) == Range(g.succ[b])
PrevsOf(g, b) == Range(g.pre[b])

Idle ==
  /\ step = "idle"
  /\ nodes = {} /\ sccs = {} /\ reserved = {}
  /\ succs = [b \in Blocks |-> {}] /\ prevs = [b \in Blocks |-> {}]
  /\ index = [b \in Blocks |-> -1] /\ lowlink = [b \in Blocks |-> -1]
  /\ stack = <<>> /\ index_count = 0 /\ calls = <<>>
  /\ loop_set = {} /\ base2loop = <<>> /\ loop2base = <<>> /\ bb2base = <<>>

build_cfg ==
  /\ step = "idle"
  /\ nodes' = Blocks
  /\ succs' = [b \in Blocks |-> SuccsOf(func, b)]
  /\ prevs' = [b \in Blocks |-> PrevsOf(func, b)]
  /\ step' = "scc"
  /\ UNCHANGED <<func, reserved, tarjanVars, sccs, resultVars>>

(***************************************************************************)
(* strongly_connected_components and traverse                              *)
(***************************************************************************)
\* What traverse does to n before its loop over the successors.
EnterTraverse(n, callers) ==
  /\ index' = [index EXCEPT ![n] = index_count]
  /\ lowlink' = [lowlink EXCEPT ![n] = index_count]
  /\ index_count' = index_count + 1
  /\ stack' = Append(stack, n)
  /\ calls' = Append(callers, [n |-> n, todo |-> succs[n]])

TraverseRoot ==
  /\ step = "scc" /\ calls = <<>>
  /\ \E n \in nodes : index[n] = -1 /\ EnterTraverse(n, calls)
  /\ UNCHANGED <<func, step, graphVars, sccs, resultVars>>

Call == Last(calls)
Took(su) == Append(Front(calls), [Call EXCEPT !.todo = @ \ {su}])
onStack(n) == n \in Range(stack)

TraverseSucc ==
  /\ step = "scc" /\ calls # <<>>
  /\ \E su \in Call.todo : index[su] = -1 /\ EnterTraverse(su, Took(su))
  /\ UNCHANGED <<func, step, graphVars, sccs, resultVars>>

\* Mutant of SeeSucc: a successor that has left the stack is counted too.
SeeSuccOffStack ==
  /\ step = "scc" /\ calls # <<>>
  /\ \E su \in Call.todo :
       /\ index[su] # -1
       /\ calls' = Took(su)
       /\ lowlink' = [lowlink EXCEPT ![Call.n] = Lower(index[su], @)]
  /\ UNCHANGED <<func, step, graphVars, index, stack, index_count, sccs, resultVars>>

SeeSucc ==
  /\ step = "scc" /\ calls # <<>>
  /\ \E su \in Call.todo :
       /\ index[su] # -1
       /\ calls' = Took(su)
       /\ lowlink' = IF onStack(su)
                     THEN [lowlink EXCEPT ![Call.n] = Lower(index[su], @)]
                     ELSE lowlink
  /\ UNCHANGED <<func, step, graphVars, index, stack, index_count, sccs, resultVars>>

\* Mutant of ReturnFromTraverse: the root itself stays on the stack.
ReturnFromTraverseKeep ==
  /\ step = "scc" /\ calls # <<>> /\ Call.todo = {}
  /\ LET n == Call.n
         at == CHOOSE i \in DOMAIN stack : stack[i] = n
         set == {stack[i] : i \in at .. Len(stack)}
     IN  IF index[n] = lowlink[n]
         THEN /\ stack' = SubSeq(stack, 1, at)
              /\ sccs' = IF Cardinality(set) = 1 THEN sccs ELSE sccs \union {set}
         ELSE UNCHANGED <<stack, sccs>>
  /\ calls' = Front(calls)
  /\ lowlink' = IF calls' = <<>> THEN lowlink
                ELSE [lowlink EXCEPT ![Last(calls').n] = Lower(lowlink[Call.n], @)]
  /\ UNCHANGED <<func, step, graphVars, index, index_count, resultVars>>

\* The end of a call: a root pops its component, of which only one of several
\* blocks is kept, and the caller takes the lowlink of the node just visited.
ReturnFromTraverse ==
  /\ step = "scc" /\ calls # <<>> /\ Call.todo = {}
  /\ LET n == Call.n
         at == CHOOSE i \in DOMAIN stack : stack[i] = n
         set == {stack[i] : i \in at .. Len(stack)}
     IN  IF index[n] = lowlink[n]
         THEN /\ stack' = SubSeq(stack, 1, at - 1)
              /\ sccs' = IF Cardinality(set) = 1 THEN sccs ELSE sccs \union {set}
         ELSE UNCHANGED <<stack, sccs>>
  /\ calls' = Front(calls)
  /\ lowlink' = IF calls' = <<>> THEN lowlink
                ELSE [lowlink EXCEPT ![Last(calls').n] = Lower(lowlink[Call.n], @)]
  /\ UNCHANGED <<func, step, graphVars, index, index_count, resultVars>>

TraversalEnded == calls = <<>> /\ \A n \in nodes : index[n] # -1

SccsFound ==
  /\ step = "scc" /\ TraversalEnded
  /\ step' = IF sccs = {} THEN "done" ELSE "bases"
  /\ reserved' = IF sccs = {} THEN {} ELSE reserved
  /\ nodes' = IF sccs = {} THEN {} ELSE nodes
  /\ UNCHANGED <<func, succs, prevs, tarjanVars, sccs, resultVars>>

(***************************************************************************)
(* run: the base of every component                                        *)
(***************************************************************************)
\* Mutant of find_loop_base: bases removed earlier are not looked at.
FindLoopBaseNoReserved(set) ==
  LET entered == {n \in set : \E prev \in prevs[n] : prev \notin set}
  IN  IF entered # {} THEN entered ELSE {NoBB}

\* Mutant of find_loop_base: any node of the component.
FindLoopBaseAny(set) == set

\* The candidates; the code takes the last one its iteration meets.
find_loop_base(set) ==
  LET entered == {n \in set : \E prev \in prevs[n] : prev \notin set}
      fromReserved == {n \in set : \E res \in reserved : n \in succs[res]}
  IN  IF entered # {} THEN entered
      ELSE IF fromReserved # {} THEN fromReserved ELSE {NoBB}

\* Mutant of StoreLoop: a block keeps the base of the first loop stored.
StoreLoopOuter(set, base) ==
  /\ loop_set' = loop_set \union {set}
  /\ base2loop' = With(base2loop, base, set)
  /\ loop2base' = With(loop2base, set, base)
  /\ bb2base' = [b \in DOMAIN bb2base \union set |->
                   IF b \in DOMAIN bb2base THEN bb2base[b] ELSE base]

StoreLoop(set, base) ==
  /\ loop_set' = loop_set \union {set}
  /\ base2loop' = IF base \in DOMAIN base2loop THEN base2loop
                  ELSE With(base2loop, base, set)
  /\ loop2base' = With(loop2base, set, base)
  /\ bb2base' = [b \in DOMAIN bb2base \union set |->
                   IF b \in set THEN base ELSE bb2base[b]]

RemoveBase(base) ==
  /\ nodes' = nodes \ {base}
  /\ prevs' = [b \in Blocks |-> IF b \in succs[base] THEN prevs[b] \ {base} ELSE prevs[b]]
  /\ succs' = [b \in Blocks |-> IF b \in prevs'[base] THEN succs[b] \ {base} ELSE succs[b]]
  /\ reserved' = reserved \union {base}

ProcessScc ==
  /\ step = "bases"
  /\ \E scc \in sccs : \E base \in find_loop_base(scc) :
       IF base = NoBB
       THEN step' = "abort" /\ UNCHANGED <<graphVars, sccs, resultVars>>
       ELSE /\ StoreLoop(scc, base)
            /\ RemoveBase(base)
            /\ sccs' = sccs \ {scc}
            /\ UNCHANGED step
  /\ UNCHANGED <<func, tarjanVars>>

\* All bases removed: the nodes left are marked unvisited and searched again.
NextRound ==
  /\ step = "bases" /\ sccs = {}
  /\ step' = "scc"
  /\ index' = [b \in Blocks |-> IF b \in nodes THEN -1 ELSE index[b]]
  /\ lowlink' = [b \in Blocks |-> IF b \in nodes THEN -1 ELSE lowlink[b]]
  /\ index_count' = 0 /\ stack' = <<>>
  /\ UNCHANGED <<func, graphVars, calls, sccs, resultVars>>

Next ==
  \/ build_cfg \/ TraverseRoot \/ TraverseSucc \/ SeeSucc \/ ReturnFromTraverse
  \/ SccsFound \/ ProcessScc \/ NextRound

(***************************************************************************)
(* The queries of later passes                                             *)
(***************************************************************************)
NoLoop == {}   \* nullptr: no loop is empty

get_inner_loop(b) == IF b \in DOMAIN bb2base THEN base2loop[bb2base[b]] ELSE NoLoop

\* Mutant of get_parent_loop: the innermost loop of the base itself.
GetParentLoopOfBase(loop) == get_inner_loop(loop2base[loop])

\* The first predecessor of the base outside the loop decides.
get_parent_loop(loop) ==
  LET base == loop2base[loop]
      outside == {i \in DOMAIN func.pre[base] : func.pre[base][i] \notin loop}
      first == CHOOSE i \in outside : \A j \in outside : i <= j
      outer == get_inner_loop(func.pre[base][first])
  IN  IF outside # {} /\ base \in outer THEN outer ELSE NoLoop

(***************************************************************************)
(* Properties, of functions whose loops have one entry each (CFGBuilder:   *)
(* LoopsReducible) and whose entry has no predecessor.                     *)
(***************************************************************************)
CFG == {e \in Blocks \X Blocks : e[2] \in SuccsOf(func, e[1])}

\* Type invariant.
TypeOK ==
  /\ step \in {"idle", "scc", "bases", "done", "abort"}
  /\ nodes \subseteq Blocks /\ reserved \subseteq Blocks
  /\ succs \in [Blocks -> SUBSET Blocks] /\ prevs \in [Blocks -> SUBSET Blocks]
  /\ index \in [Blocks -> Int] /\ lowlink \in [Blocks -> Int]
  /\ index_count \in Nat
  /\ Range(stack) \subseteq nodes
  /\ \A i \in DOMAIN calls : calls[i].n \in nodes /\ calls[i].todo \subseteq Blocks
  /\ sccs \subseteq SUBSET Blocks /\ loop_set \subseteq SUBSET Blocks
  /\ DOMAIN bb2base \subseteq Blocks

\* Every component has a base: the null pointer find_loop_base may return is
\* never dereferenced, although the removal of a base erases it from the
\* predecessors of components not processed yet.
BaseFound == step # "abort"

\* The components of two or more nodes of what is left of the graph.
Components ==
  LET left == {e \in nodes \X nodes : e[2] \in succs[e[1]]}
      reached == [a \in nodes |-> Reachable(a, nodes, left)]
  IN  {C \in {{b \in reached[a] : a \in reached[b]} : a \in nodes} : Cardinality(C) > 1}

\* Every set popped off the stack is a component of the graph that is left,
\* and at the end of the traversal all of them have been found; no visit
\* leads to a base that has been removed.
ComponentsCorrect ==
  step = "scc" =>
    /\ sccs # {} => sccs \subseteq Components
    /\ TraversalEnded => sccs = Components
    /\ \A n \in nodes : succs[n] \subseteq nodes

\* The natural loop of h: h and the blocks that reach an edge back to h
\* without passing it.
Latches(h) == {t \in Blocks : <<t, h>> \in CFG /\ Dominates(h, t, Entry, Blocks, CFG)}
NaturalLoop(h) ==
  LET inside == Without(CFG, h)
  IN  {h} \union {b \in Blocks \ {h} :
                    Reachable(b, Blocks \ {h}, inside) \intersect Latches(h) # {}}
\* A loop of one block has no component of its own and is not reported.
Headers == {h \in Blocks : Latches(h) # {} /\ Cardinality(NaturalLoop(h)) > 1}

\* The result: exactly the natural loops of more than one block, each with
\* its header as base.
LoopsNatural ==
  step = "done" =>
    /\ loop_set = {NaturalLoop(h) : h \in Headers}
    /\ \A h \in Headers :
         /\ h \in DOMAIN base2loop /\ base2loop[h] = NaturalLoop(h)
         /\ loop2base[NaturalLoop(h)] = h

\* get_inner_loop returns the smallest loop around the block: inner loops are
\* stored after the loops that contain them.
InnermostLoop ==
  step = "done" =>
    \A b \in Blocks :
      LET around == {L \in loop_set : b \in L}
      IN  IF around = {} THEN get_inner_loop(b) = NoLoop
          ELSE /\ get_inner_loop(b) \in around
               /\ \A L \in around : get_inner_loop(b) \subseteq L

\* Every loop is entered through an unconditional branch, as the builder
\* enters one (create_br(conditionBB)).
EnteredByBr ==
  \A h \in Headers : \A p \in PrevsOf(func, h) \ NaturalLoop(h) : Len(func.succ[p]) = 1

\* get_parent_loop, which looks at one predecessor only, returns the smallest
\* loop around the loop, and none for an outermost one.
ParentLoopCorrect ==
  step = "done" /\ EnteredByBr =>
    \A L \in loop_set :
      LET around == {M \in loop_set : L # M /\ L \subseteq M}
      IN  IF around = {} THEN get_parent_loop(L) = NoLoop
          ELSE /\ get_parent_loop(L) \in around
               /\ \A M \in around : get_parent_loop(L) \subseteq M
=============================================================================
