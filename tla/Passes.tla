-------------------------------- MODULE Passes --------------------------------
(***************************************************************************)
(* PassManager::run: the passes one after the other on the same function.  *)
(* With -mem2reg -loop-search these are Dominators, which Mem2Reg runs     *)
(* first and which changes no edge, and then LoopSearch.                   *)
(***************************************************************************)
EXTENDS Dominators

\* A function is compiled with -loop-search or without; those with are as the
\* builder makes them (CFGBuilder: LoopsReducible).
ASSUME SearchAssumption ==
  \A g \in Graphs :
    /\ g.loop_search \in BOOLEAN
    /\ g.loop_search => Reducible(Entry, Blocks, EdgesOf(g))

VARIABLES
  step, nodes, succs, prevs, index, lowlink, scc_stack, index_count,
  calls, sccs, reserved, loop_set, base2loop, loop2base, bb2base   \* of LoopSearch

Loops == INSTANCE LoopSearch WITH func <- graph, stack <- scc_stack

searchVars == <<step, nodes, succs, prevs, index, lowlink, scc_stack, index_count,
                calls, sccs, reserved, loop_set, base2loop, loop2base, bb2base>>
passVars == <<vars, searchVars>>

RunDominators == Next /\ UNCHANGED searchVars
RunLoopSearch ==
  phase = "done" /\ graph.loop_search /\ Loops!Next /\ UNCHANGED vars

PassesDone == phase = "done" /\ (graph.loop_search => step = "done")
PassesInit == Init /\ Loops!Idle
PassesNext == RunDominators \/ RunLoopSearch
PassesSpec == PassesInit /\ [][PassesNext]_passVars /\ WF_passVars(PassesNext)

\* The result of Dominators, which LoopSearch leaves alone (UNCHANGED vars):
\* looked at before LoopSearch starts.
DominatorsCorrect == step = "idle" => ResultCorrect

\* The type invariant of LoopSearch.
SearchTypeOK == Loops!TypeOK

\* See LoopSearch.
BaseFound == Loops!BaseFound
ComponentsCorrect == Loops!ComponentsCorrect
LoopsNatural == Loops!LoopsNatural
InnermostLoop == Loops!InnermostLoop
ParentLoopCorrect == Loops!ParentLoopCorrect

\* Both passes come to an end: a round of LoopSearch always removes a base.
Terminates == <>PassesDone
=============================================================================
