# Specifications of the C-minus-f compiler

This directory holds TLA+ specifications of the compiler in this repository: it
translates C-minus-f programs to a light form of LLVM IR (`src/lightir`) and
runs passes over that IR (`src/optimization`). The modules are checked with TLC
on small instances; some results are proved for all instances with TLAPS.

Paths below are relative to the repository's root; `PROJECT.json` maps each
definition to the lines it models.

## 1. Inventory

| Component | State | Operations | Interaction | Modelled |
|---|---|---|---|---|
| Lexer `src/lexer`, `src/parser/lexical_analyzer.l` | line and column counters | one action per token | tokens to the parser | no |
| Parser `src/parser/syntax_analyzer.y`, `src/common/syntax_tree.c` | the parse stack, the syntax tree | shift, reduce (`node`) | tree to the AST | `Parser`, `SourceText` |
| AST `src/common/ast.cpp` | the AST; the printer's depth | `transform_node_iter`, `ASTPrinter` | visited by the builder | `AST` |
| Builder, statements `src/cminusfc/cminusf_builder.cpp` | insertion point `BB_`, call stack, blocks | one `visit` per node kind | creates blocks and branches of LightIR | `CFGBuilder` |
| Builder, expressions and declarations (same file) | `Res`, `arg`, `need_as_address`, scopes | `visit` of every node | appends instructions | `CminusfBuilder` |
| Scopes `include/cminusf_builder.hpp` | stack of maps | `enter`, `exit`, `push`, `find` | used by the builder | `Scope` |
| LightIR types, values, instructions `src/lightir/Type.cpp`, `Module.cpp`, `Instruction.cpp` | the module | `create_...` | made by the builder | `LightIR` |
| LightIR blocks and branches `src/lightir/BasicBlock.cpp`, `Instruction.cpp` | `instr_list_`, `pre_bbs_`, `succ_bbs_` | `create`, `add_instruction`, `create_br`, `create_cond_br` | read by every pass | in `CFGBuilder`, `LightIR` |
| LightIR uses `src/lightir/Value.cpp`, `User.cpp` | `operands_`, `use_list_` | `set_operand`, `replace_all_use_with`, `remove_use` | used by Mem2Reg | `UseDef`, `Operands` |
| Naming `src/lightir/Function.cpp` | `name_`, `seq_cnt_` | `set_instr_name` | by `main` and `print` | `Names`, in `Mem2RegRun` |
| `Dominators` `src/optimization/Dominators.cpp` | numbers, `idom_`, frontiers, tree | `run` | reads the edge lists, serves Mem2Reg | `Dominators` |
| `Mem2Reg` | phi nodes, `var_val_stack` | `generate_phi`, `re_name`, `remove_alloca` | reads Dominators, rewrites LightIR | `Mem2Reg`, `Mem2RegRun` |
| `LoopSearch` | Tarjan stack, `bb2base`, loops | `run` and queries | reads the edge lists | `LoopSearch` |
| `ActiveVars`, `ConstPropagation`, `LoopInvHoist` | none | stubs | - | no: exercises left open |
| Driver `cminusfc.cpp`, `PassManager.hpp` | flags, pass list | parse options, run stages and passes | everything | stages in `FrontEnd`, passes in `Passes` |
| Runtime `src/io/io.c` | none | `input`, `output`, `outputFloat`, `neg_idx_except` | called by the compiled program | in `Execution` |
| Logging | none | formatting | - | no |

The program is sequential: what is hard is not concurrency but long sequences
of legal calls. The visitor is recursive and keeps its position in a shared
insertion point, so every statement kind must leave that point where its parent
expects it, after any nesting. The passes rely on what the builder made
(mirrored edge lists, no unreachable block, reducible loops) without checking
it; they iterate to a fixed point from half-computed information, and they
recurse. What would make each component correct:

* Builder: the finished function is well formed (one terminator per block, both
  edge lists agree, every block is reachable and reaches a return, loops are
  reducible with one header each).
* Dominators: no assert fails, the sweeps terminate, and the result is the
  immediate-dominator relation, the frontiers and the tree.
* Parser, AST: the tree is that of the program, whatever lists, precedences and
  optional parts the grammar goes through.
* Builder, expressions: no assertion of LightIR fails, the instructions are well
  typed, no stale `Res` is used, and the emitted code does what the language
  says.
* Mem2Reg: a load is replaced by the value a store or phi gave its variable on
  every path, the stacks are balanced, every use is redirected.
* LoopSearch: every strongly connected set has one base; the loops found nest.
* UseDef: `use_list_` and `operands_` describe the same relation.
* Scope: `find` returns the binding of the innermost enclosing declaration.

## 2. Plan

Done in this order, most important behaviour first:

1. `FlowGraph`: the vocabulary of control-flow graphs (definitions only).
2. `CFGBuilder` with `MCCFGBuilder` and `CFGBuilder_proofs`.
3. `FlowGraph_proofs`, facts about dominance for any graph; `Dominators` with
   `Dominators_proofs`, which uses them.
4. `Mem2Reg`, and `Mem2RegRun`, which runs the function before and after the
   pass side by side; it takes from `Dominators` what that module shows. `Names`
   numbers its values before and after. `Mem2Reg_proofs`, with `FlowGraph_proofs`,
   and `Mem2RegRun_proofs` on top of it.
5. `Operands` (abstract) and `UseDef`, which implements it, with `UseDef_proofs`:
   this is why `Mem2Reg` may redirect all uses of a value in one step.
6. `LoopSearch`, and `Passes`, which runs it after `Dominators` on one function,
   with `MCPasses` and `LoopSearch_proofs`.
7. The front end: `Parser`, `AST`, `SourceText`, `LightIR`, `Scope`,
   `CminusfBuilder`, `Execution`, composed in `FrontEnd` and compared with
   `CminusSemantics` (abstract) on the programs of `MCFrontEnd`. Of these
   `CminusfBuilder_proofs` takes the builder by itself, with any syntax trees.

The lexer's positions and the driver's options are left out (section 7).

Modules that are proved about take their bounds as CONSTANTS with named
assumptions and use no RECURSIVE operator. `Parser`, `AST`, `SourceText` and
`CminusSemantics` follow trees and use RECURSIVE operators, so that they, and
`FrontEnd`, are for TLC only. `CminusfBuilder` knows of trees only what its constant
`Nodes` and the assumption on it say, and needs no recursion.

## 3. Modules

### FlowGraph

Textbook definitions over a set of nodes and a set of edges: closed sets,
reachability, dominators, frontiers, reducibility. It models no code; the
modules below are compared with it. `AllReachableFrom` states reachability by
closed sets (every set that has the entry and is closed under the edges has the
node), which a proof can use without recursion; `Reachable` computes it by a
recursive function on the number of rounds. `FlowGraph_proofs` shows what both
mean: that `Reachable` is the least closed set, and the laws of dominance.

### CFGBuilder

One function body. `frames` is the C++ call stack of the visitor: a frame for
each `visit` method that has called `accept` on a child and still has work to
do, with the blocks it keeps in locals (`conditionBB`, `retBB`, `curTrueBB`,
...). `pc` says what the innermost method does next: visit a statement, visit an
expression, or go on after a child. `BB_` is the builder's insertion point,
`bbs` the function's blocks with label, instructions and both edge lists.

The program under compilation is chosen while it is compiled: `NextStatement`
and the `Visit...` actions pick any statement kind, so that a run covers all
bodies. Each `visit` method is cut at its calls of `accept`:

| Method | Actions |
|---|---|
| `ASTFunDeclaration` | `Init`, `FinishFunction` |
| `ASTCompoundStmt` | `VisitCompoundStmt`, `NextStatement`, `EndCompoundStmt` |
| `ASTExpressionStmt` | `VisitEmpty`, `VisitExpressionStmt`, `FinishExpressionStmt` |
| `ASTSelectionStmt` | `VisitSelectionStmt`, `BranchIf`, `FinishIf`, `BranchIfElse`, `StartElse`, `FinishIfElse` |
| `ASTIterationStmt` | `VisitIterationStmt`, `BranchWhile`, `FinishWhile` |
| `ASTReturnStmt` | `VisitReturnStmt`, `FinishReturn` |
| `ASTVar` with an index | `VisitVarIndexed` |

Instructions are "br", "ret" and "op"; adjacent ops are merged because no
property counts them. Expressions without array accesses emit straight-line
code: zero or one op (`MaybeOp`). Labels are those of the code; the two blocks of an
index check have the name of the array in theirs (`FailLabel`, `PassLabel`), so
`ArrayNames` gives the names that may be accessed, and `LabelsAssumption` says that
such a label is none of the fixed ones.

### Dominators

One function, given by its edge lists; `Graphs` are lists as `CFGBuilder` is
shown to produce them (mirrored, all reachable, no edge to the entry). A step is
one iteration of the innermost loop; `phase` names the loop. The recursion of
`post_order_visit` is the variable `stack`. A failed assert, and a null runner
(in the code an endless loop from null to null), end in phase "abort".

### Mem2Reg and Mem2RegRun

One function: `prog` as the builder made it, `code` as the pass rewrites it. An
instruction is an alloca, a load, a store, a phi or a "use", which stands for
every other instruction with an operand. `frames` is the recursion of `re_name`
(`Call` holds its locals), `var_val_stack` the global of that name and `known`
its keys, which outlive their values. Sets of pointers are iterated in address
order, which nothing in the program fixes: work lists and children are taken in
any order. `replace_all_use_with` rewrites every operand that is the load.

`ProgramsAssumption` says which functions are considered. The graph is as
`CFGBuilder` makes it: `BuiltFunctionsSuitDominators` proves the edge lists,
reachability and that no edge leads to the entry, and lists that mirror each other
have no entry twice. `df` and `kids` are what `ComputesDominators` proves of
`Dominators`. `ProperCode` is what the builder's instructions look like: no phi, each instruction a
value of its own, and a loaded value is used after the load, in its block or
below it in the dominator tree (the builder keeps a value in `Res` only while
the statement is visited that computes it; `OperandsAvailable` of `frontend`
checks this). `Kept` is the deletion of a set of instructions; it is a recursive
function, where `SelectSeq` could not be reasoned about.

| Function | Actions |
|---|---|
| `generate_phi` | `Init` (step 1), `PlacePhis` |
| `re_name` | `StartRename`, `PushPhis`, `ReplaceLoad`, `KeepLoad`, `PushStore`, `SkipInstr`, `InstrsDone`, `FillPhis`, `SuccsDone`, `EnterChild`, `Leave` |
| `remove_alloca` | `RemoveAlloca` |

`Mem2RegRun` adds two machines that run `prog.code` (variables in memory) and
`code` (phis, read in parallel) along the same path, a block at a time. A
variable that was never set is `Undef` and may be anything afterwards. (`With` is
`@@` on the registers, and the run of a block is a recursive function, because the
proofs unfold them.) The semantics of LightIR is that of LLVM IR, which is not in this repository. It
also follows `main` around the pass: `NameValues` (`set_print_name`, before the
passes) and `PrintFunction` (`Function::print`, which names what the pass added)
call `set_instr_name` of `Names`, with the counter `seq_cnt_` kept in between. The
values of the function are given by their places (`Values`), and what is in the map
`seq` when one is come to is what stands earlier and had no name (`Before`).

### LoopSearch and Passes

`LoopSearch` is `run` on one function: `build_cfg`, Tarjan's algorithm with the
recursion of `traverse` in `calls`, then for each component its base
(`find_loop_base`), the tables (`StoreLoop`) and the removal of the base, and the
next round. The code keeps nodes, successors and components in unordered sets of
pointers: their order is nondeterministic. A component without a base, where the
code follows a null pointer, ends in step "abort". The queries `get_inner_loop`
and `get_parent_loop` are operators.

`Passes` is `PassManager::run`: `Dominators` (run by Mem2Reg) and then
`LoopSearch` on the same function.

### The front end

`FrontEnd` is `main` from the text of a program to the end of its run. Each stage
is a module:

| Module | Code | How |
|---|---|---|
| `SourceText` | - | the tokens of a program, with the parentheses its tree needs |
| `Parser` | `syntax_analyzer.y` | the grammar as data; the SLR automaton computed from it, with bison's two stacks; where both are possible it shifts, as bison does with the else of nested ifs |
| `AST` | `ast.hpp`, `ast.cpp` | one record for every node class; `Transform` is `transform_node_iter`; `Printed` is `ASTPrinter`, each `visit` method with its own `add_depth` and `remove_depth` and its early returns, as a function from the depth before to the lines and the depth after |
| `Scope` | `class Scope` | a sequence of functions from names to values |
| `LightIR` | `Type`, `Module`, `Instruction`, `IRBuilder` | the module as one record; every `create_` computes its result type and turns `ok` off where the code asserts or follows null |
| `CminusfBuilder` | `cminusf_builder.cpp` | `stack` is the C++ stack; a frame has the node, `pc` (how far its method is) and the locals; an action goes from one `accept` to the next |
| `Execution` | LLVM and `io.c` | one instruction per step: `calls`, `memory`, `unread` input, `output` |
| `CminusSemantics` | `Documentations/common/cminusf.md` | the reference: `Meaning(p, in)` is what a program prints; not taken from the compiler |

`CFGBuilder` has every body and abstracts expressions; `CminusfBuilder` has
every detail and takes the programs made of `Nodes`. `NodesAssumption` says what the
classes of `ast.hpp` allow a node's children to be (an `ASTVar` has at most one, an
expression; the first child of an assignment is an `ASTVar`; ...) and no more: a
program with undeclared names or wrong types is one of them. In the runs `Nodes` are
the nodes of the given programs. `BuilderSpec` runs `run_visitor` on any program
among them; `FrontEnd` runs it on the tree that the parser and `AST` have made.
`CminusfBuilder` hands values on as the code does, through `Res`, `arg` and `need_as_address`, so that a value read too
late is the wrong one in the model too.

### Operands and UseDef

`Operands` is the relation between values and their operands with no lists:
replacing a value redirects every operand that is it. `UseDef` has the
`use_list_` of each value as well and finds the operands through it, as the code
does; its property `Implements` says that it is `Operands` with the lists
forgotten. A use list is a set here, since its order and repeated entries make
no difference. The callers' contract (only values in use become operands; what is
replaced is not used again; what is deleted has no users) is in the guards; that
Mem2Reg honours it is what `NoAbort` and `DefsDominateUses` show.

## 4. Runs

| Run | Instance | What it shows |
|---|---|---|
| `builder_all` | all kinds, code after return allowed | types, reachability, mirrored edges, loop headers; finished graphs are reducible, every cycle has a condition block |
| `builder_structured` | no if-else, no code after a return, void function | well-formed result: one terminator per block, a return in reach of each block |
| `builder_ifelse_join` | smallest with if-else | **violation**: the join block has no terminator |
| `builder_after_return` | code after a return | **violation**: instructions after a terminator |
| `builder_labels` | while only, no array | **violation**: with a loop in a loop, two blocks with one label |
| `dominators` | all graphs of 4 blocks, ten of 6 blocks; of `LoopSearch`, seven of 6 blocks | types; no assert of `Dominators` fails, the tree under construction, result equals the definition; `LoopSearch` finds a base for every component, every component is right, the loops are the natural loops, each block's innermost loop and each loop's parent are right, in any order of the unordered sets; both passes terminate |
| `mem2reg` | four shapes of 5 blocks: one variable that may never be set, each block one of three bodies; two of the shapes with two variables set at the entry and four bodies | no assert fails if set at the entry, SSA form if set there before it is read; every operand keeps its value; a phi has one entry for each predecessor; stacks balanced; no two values print under one name; termination |
| `mem2reg_assert` | a return in an if, then a loop; writes only | **violation**: `assert(var_val_stack[l_val].size()!=0)` fails |
| `usedef` | three values, two operands each | the lists of values in use are exact; `UseDef` implements `Operands` |
| `frontend` | 91 programs | the AST is that of the program; the printer draws it, at the depth of each node; no assertion fails; `need_as_address` reaches only the variable it is for; scopes are lexical; instructions are well typed; no value is used before it is computed; what the compiled program prints is what `cminusf.md` says |
| `frontend_return` | one program, `return 1;` in a float function | **violation**: the conversion of the returned value has a type LLVM refuses |
| `frontend_condition` | one program, with the condition -1 | **violation**: a negative condition is taken for false |

Bounds. `MaxBlocks` limits the blocks of the function, `MaxWork` the statements
and array accesses visited; both stop the builder, so the builder's runs set
CHECK_DEADLOCK FALSE (a finished compilation stops too). Three or four
statements are enough for every pair of constructs to be nested in each other
and to follow each other, which is where the insertion point can be left in the
wrong place. In `dominators` the four-block graphs are taken up to renaming of the
entry's successors, with predecessors in ascending order (and after a chain of two
blocks, so that all graphs have six); the six-block graphs
are taken with predecessors in both orders and are chosen to need a third sweep.
For `Mem2Reg`, the bodies include a swap and a copy between the variables, which
in a loop need phis that read each other; the five-block shapes have nested joins
(a phi that needs further phis), a join below a branch, and a loop that follows a
branch with a return. One variable is enough for what concerns one stack; two for
what passes between variables. In `UseDef` three values are a user, the value
replaced and its replacement, and each can play several parts (`MaxOps` = 2 for
an operand repeated in one user). The values are symmetric until they are made,
hence SYMMETRY. Every life of a value ends, hence CHECK_DEADLOCK FALSE.

The graphs for `LoopSearch` have a while in a while, one after another, two in one,
three nested, two edges back to one base and a loop of one block; base removal
matters from the second level on, the order of components where two are found
in a round. `LoopSearch` is run on reducible functions (`SearchAssumption`),
which is what `BuiltLoopsReducible` proves of the builder.

The programs of `frontend` are 64 mixtures (for each pair of eight operands - an int or
float literal or variable, an array element, a call, an assignment, a relation -
every operator) and 27 features (recursion, arrays as parameters, negative and computed
indices, shadowing, nested statements, conversions in arguments, returns and
stores, ...). Integer literals are at most `MaxLiteral` = 9, so that nothing
wraps; floats are multiples of 1/`FloatUnit` = 1/16 and the operations used are
exact on them. `Inputs` is what `input` reads. Not among the programs, since the
compiler is known to depart from its documentation there, or the language gives
them no meaning:

* an if-else both of whose branches do not return, and statements after a return
  (findings 1 and 2);
* conditions below zero (finding 6; run `frontend_condition`);
* an int returned from a float function, which is converted to a wrong type
  (finding 5; run `frontend_return`);
* the value of an assignment that converts: `Res` stays what the right side gave,
  before its conversion (lines 355-361 against cminusf.md:136);
* `return;` in a function that returns a value: line 282 follows a null pointer;
* variables read before they are set; a name declared twice in one scope, or that
  of a predefined function.

Fairness. The builder has no liveness property: a C++ program that is running
takes its next step, and every behaviour is bounded by its input. `Dominators`,
`LoopSearch` and `Mem2Reg` are sequential code with no waiting; weak fairness of their steps
says only that they keep running, and `Terminates` that their loops then end.

## 5. Proofs

`CFGBuilder_proofs` proves for all values of the constants

* `TypeCorrect`: `Spec => []TypeOK`;
* `BlocksReachable`: `Spec => []AllReachable`.

The inductive invariant `IInv` strengthens both: besides the types it says that
the edges lie within the created blocks, that blocks not created yet are empty,
that the blocks a frame holds exist, that the block a frame will move the insertion point to
is reachable already, and that the stack has the shape the methods give it (a
`while` whose condition is visited is on top, since its two new blocks are the
only ones not reachable yet). Types alone are not inductive (an edge to a block
beyond `nb` could be followed) and neither is reachability (the insertion point
moves to a block saved in a frame). Reachability is stated by closed sets, so
each step shows: a set that has the entry and is closed under the new edges is
closed under the old ones, hence has the old blocks, hence, by the edge just
added from one of them, the new ones. The assumptions used are
`KindsAssumption`, `FlagsAssumption`, `BoundsAssumption` and `LabelsAssumption` (that an
index check's label is none of the fixed ones tells its frame from a while's).

It also proves, from the same assumptions,

* `ListsMirrorEachOther`: `Spec => []EdgesMirrored`;
* `EntryAndHeaders`: `Spec => []LoopHeaderPreds`;
* `BuiltFunctionsSuitDominators`: a finished function is a `FunctionGraph`, which
  is what `Dominators` assumes of its input (`GraphsAssumption`);
* `BuiltLoopsReducible`: `Spec => []LoopsReducible`.

That the lists mirror each other could fail only if a branch were made twice
between two blocks, or into a block not there. The builder never asks whether a
branch exists, so the proof must know where the insertion point can be when a
frame makes its branch. `EdgesInv` adds to `IInv` the facts about the lists
(`Lists`) and about the stack (`StackOK`): `Holds(f)` are the blocks a frame will
branch or move to, `Safe(g, f, y)` says that the insertion point may come to `y`
while `f` is on the stack, since no branch from `y` to the block `f` will branch
to exists yet. The insertion point, the blocks that frames further up hold and the blocks still
to be created are safe for every frame; that a condition block has at most one
predecessor until its frame is popped gives `LoopHeaderPreds`. For the
third theorem the stack of a finished function is empty, so that no block is
pending.

For the last theorem `LoopsInv` adds to `EdgesInv` how edges are made (`Looped`).
A branch goes to a block that no edge leaves yet, or it goes back (`Back`) to the
condition of the innermost while. So the other edges are on no cycle (`Sorted`: for
each there is a closed set that has its end and not its start). The blocks of a
while, its condition block and what was made since, save the block that follows
(`Body`), are entered at the condition only, which holds because every branch made
under a frame comes from a block inside its while (`Inside`), and what the frames
below hold lies outside (`Nested`). When the while is popped nothing on the stack
can lead into its blocks any more, and this set is kept with the back branch
(`Sealed`): cutting it off shows that the condition dominates the block that branches
back. `LoopsReducible` is not inductive, since it says nothing of the frames.

The last part of `CFGBuilder_proofs` proves, for programs without if-else and without code
after a return (`"ifelse" \notin Kinds`, `~CodeAfterReturn`), of any size,

* `BlocksTerminated`: `Spec => []EveryBlockTerminated`;
* `TerminatorsLast`: `Spec => []SingleTerminator`;
* `ReturnsReachable`: `Spec => []EveryBlockReachesReturn`;
* `BuiltLoopsEnteredByBr`: every predecessor of a loop's header in a finished
  function has the header as its only successor.

The two restrictions are needed: `builder_ifelse_join` and `builder_after_return`
are the programs that break the properties without them. `EndedInv` adds to
`EdgesInv` which blocks are still open: the insertion point, when the statement
in hand can fall through, and the blocks that wait in a frame (`curFalseBB`,
`nextBB`, a loop's exit); every other block has exactly one terminator, its last
instruction. That a return is in reach needs more than that every block goes on:
two blocks could go on to each other for ever. The invariant says, in terms of
closed sets, that whatever set of blocks cannot be left (`Trap`) has a block that
is open or returns. A loop is no trap because its condition block leads out of it,
to a block that is open when the loop is done.

The last of them is what `get_parent_loop` takes for granted. The branch to a new
condition block is made at the insertion point, which is open, so that it is the
only edge of its block (`SoleEdges`, kept by `SoleInv`); so is the branch back. And
the header of a loop is a condition block: it dominates a block that branches to it,
the entry still leads to that block when the back branches are taken away
(`DominatorLeads`), and all other edges are on no cycle. With if-else
it fails: after finding 1 the insertion point is a block that has ended already, and
a while that follows may be entered by a block with more than one successor.

`Dominators_proofs` proves, for every set of blocks and every function whose
edge lists are mirrored and whose blocks are all reachable
(`BlocksAssumption`, `GraphsAssumption`),

* `TypeCorrect`: `Spec => []TypeOK`: the types (`Types`), and that nothing is looked up
  with a null block or past the end of a list in any phase (`LookupsInRange`);
* `NeverAborts`: `Spec => []NoAbort`;
* `LinksLeadUp`: `Spec => []IdomNumberedLater`;
* `LinksOnlyRise`: `Spec => IdomOnlyRises`, an action property;
* `ComputesDominators`: `Spec => []ResultCorrect`, the functional correctness of
  the pass: the links, the frontiers and the tree it ends with are the immediate
  dominators, the dominance frontiers and the dominator tree;
* `TreeKeepsDominators`: `Spec => []DominatorsAreAncestors`;
* `PassesComputeDominators`: `PassesSpec => []DominatorsCorrect`, the same where
  `LoopSearch` follows.

None is inductive. Why `assert(pred)` holds is a fact about the depth-first
search: every numbered block save the entry has a predecessor that is numbered
later. While the search runs, that predecessor may still be on the stack, so
`DfsInv` says: the visited blocks are those on the stack and those numbered,
the stack is a path from the entry (`Chain`), a numbered block has a predecessor
numbered later or on the stack (`Parents`), and the successors a call is done
with are visited (`SuccsVisited`). When the stack is empty the numbered blocks
are closed under the edges, hence all blocks (`AllNumbered`, by
`AllReachableFrom`). A sweep goes from the last number down, so the predecessor
numbered later was passed and has a link (`LaterPredecessor`; `LinksInv`: what
the sweep has passed has a link). `PredsInv` and `IntersectInv` then say that
`new_idom` is numbered no earlier than every processed predecessor, so that the
link stored leads to a block numbered later; `RunnerInv` is for the frontiers.

That the result is right has two halves. Every dominator of a block is an
ancestor of it by the links (`DominatorsAreAncestors`): a dominator of a block
dominates each of its reachable predecessors or is the block itself, so that
`intersect`, which leaves the path of a finger only at blocks that are not on the
other path, keeps it. Conversely, when a sweep changes nothing, every link is an
ancestor of all predecessors of its block, and a set of blocks cut off by a block
that such a path avoids would have no way in (`DominatesByCut`). In between, links only rise: with
the links of the sweep's beginning kept as a bound variable, an ancestor path can
only lose blocks from sweep to sweep, so that a stored link is the old one or
above it. The induction over numbers of blocks is done by the least counterexample
(`Least` of `FlowGraph_proofs`, a fact about non-empty sets of numbers), which needs
no theorem with an operator parameter. The frontiers are filled by the runners:
what a runner has passed dominates a predecessor and not, strictly, the join.
`GraphsAssumption` is what `BuiltFunctionsSuitDominators` proves of every function
the builder finishes.

`LoopSearch_proofs` proves what `LoopSearch` does to any suitable function
(`Suitable`: finitely many blocks, a `FunctionGraph`, and reducible, which
`BuiltFunctionsSuitDominators` and `BuiltLoopsReducible` prove of every function the
builder finishes). `Dominators_proofs` takes it as the instance `Search` and states
it for the two passes in their order, from `BlocksAssumption`, `GraphsAssumption`
and `SearchAssumption`:

* `SearchTyped`: `PassesSpec => []SearchTypeOK`;
* `ComponentsFound`: `PassesSpec => []ComponentsCorrect`;
* `BasesFound`: `PassesSpec => []BaseFound`;
* `LoopsFound`: `PassesSpec => []LoopsNatural`;
* `InnermostLoops`: `PassesSpec => []InnermostLoop`;
* `ParentLoops`: `PassesSpec => []ParentLoopCorrect`.

The argument begins with natural loops of a reducible function, no program in sight:
a header dominates its loop, has one loop (`OneHeader`), and two loops that meet are
nested (`LoopsNest`). Then the rounds. When what is left (`LeftOver`) is the function
without the headers removed so far, and no loop whose header is left has lost a
block (`LoopsLeft`), a strongly connected set that cannot be made larger is one of
those loops, with no loop around it that is left (`ComponentIsLoop`): its header is
the node with the most blocks `Ahead`. That the base found is the header
(`BaseIsHeader`) has the two cases of `find_loop_base`: an edge from a node outside,
which only the header can receive, or none, when the component was cut out of a larger
loop whose base was removed, and the edge comes from `reserved`.

Tarjan's algorithm itself is `TarjanInv`, with these parts. `Numbers`: indices rise
along the stack. `CallPath`: the open calls are a path. `SuccsSeen`: an
edge a call is done with leads to a visited node. `GoneClosed`: what has left the stack leads
only to what has left it. `StackPaths`: a node on the stack leads to all above it and
to an open call at or below it. `Lowlinks` takes the stack by segments, a node
belonging to the innermost call it was visited in (`VisitedBy`): the lowlink of a
call is the number of a node on the stack that it leads to, and no edge seen in
its segment leads lower. So when a call ends with its lowlink equal to its index, nothing
from its segment leads below it, and `ComponentsSoFar` has one component more.

`SearchInv` puts the rounds together: the loops of the headers removed are the ones
stored, the base kept for a block is that of the smallest of them (`StoredFor`), and a loop
that is left and meets a stored one lies within it (`Nested`), so that overwriting
`bb2base` is right. The properties of the result speak only of the end and are not
inductive. `ParentLoopCorrect` has the hypothesis `EnteredByBr`, which is what
`BuiltLoopsEnteredByBr` shows of the functions the builder makes without if-else.

`UseDef_proofs` proves, for any values and any `MaxOps` (`MaxOpsAssumption`),

* `TypeCorrect`: `Spec => []TypeOK`;
* `ListsOfLiveValues`: `Spec => []LiveListsExact`;
* `UseListsImplementOperands`: `Spec => Implements`, the refinement.

The invariant adds that operands are values in use (so that a replaced value,
whose list is stale, is never asked for it again) and that a value not made yet
has no uses. With it a step through the list is the step over all operands.

`Mem2Reg_proofs` proves, for every function of `ProgramsAssumption`, with any
number of blocks and variables,

* `TypeCorrect`: `RunSpec => []TypeOK`, which bounds the nesting of `re_name` too;
* `NeverAborts`: `RunSpec => []NoAbort`;
* `StacksBalanced`: `RunSpec => []StacksRestored`.

Nothing in the pass checks its own recursion, so the invariant (`RenameInv`,
theorem `RenameInvariant`) says where it is:

* `Tree`: the open calls are on the dominators of the innermost block, all of
  them and in their order, and the children still to visit lie beside them. A
  block is open, or still to come, or left, and is never entered twice.
* `Stacks`: there are heights `base` such that each call has pushed, above the
  height it began with, exactly the definitions of its block that it has come by,
  and every value on a stack is a constant or defined by a call at or below that
  height. The height is a cardinality, as it is for `Leave`, which counts the
  definitions again in the block, rewritten in the meantime: `AsBuilt` says that a
  block not yet left is what the builder made with phis in front, one per variable,
  so that the second count is the first.
* `StoresInScope`: the operand of a store is defined before it on every path.
  With it a load never finds itself on the stack of its variable, where
  `replace_all_use_with` would not end: what is on the stack was computed earlier.
* `KnownAreSet`: in a function that sets its variables at the entry, the
  outermost call has pushed a value for every variable that is a key of
  `var_val_stack`. It returns last, so no stack that is asked for is empty.

Because of `SetAtEntry` the last part is a hypothesis of `NoAbort`, not an
assumption on the programs: the first three hold for every function, and
`mem2reg_assert` shows what goes wrong without it.

The module also proves, for the same functions,

* `PhisComplete`: `RunSpec => []PhisMatchPredecessors`;
* `DefinitionsDominate`: `RunSpec => []DefsDominateUses`.

The invariant of the first (`PhisInv`) follows who has given the phis of
a block their pairs. `Fed` are the predecessors whose call has come to the block in
its loop over successors, or has returned: a phi has at most one pair from each of
them and none from any other block, since a successor list names a block once. Each
of them has given its pair if a definition of the variable dominates it: that
definition lies in an open call, which has pushed it, so that the variable is known
when the predecessor is asked for it. And a phi was placed because a definition
reaches the end of some predecessor, so that it gets at least one pair. No phi is
deleted: what waits for deletion (`wait`) are loads and stores.

The invariant of the second (`ScopeInv`) follows the operands. While `re_name` runs,
an operand that is a load is a load that it has still to come by (`Ahead`), earlier in
the block or in a dominator, where it will be replaced everywhere. The stacks hold no
load (`NoLoads`), since what a store pushes was an operand of a block being passed,
and `OperandPassed` shows that such operands are replaced already. An operand or a
pair that is a phi is one of a dominator of the block that reads it (`PhiReaches`).
Loads and stores that were passed wait for deletion (`WaitsFor`), and a block that
`re_name` has left has none (`Cleared`). At the end there is no call and no block to
come, so no operand is a load. All of it needs `SetBeforeRead`: `LoadIsKnown` shows
that `KeepLoad`, which leaves a load of a variable that is not known, never happens
there, because the entry has passed a store before any load of the variable.

`Mem2RegRun_proofs` proves, for the same functions,

* `ObservationKept`: `RunSpec => []SameObservation`.

No assumption is made that variables are set: a value that the program read before
it set it is `Undef`, and `SameObservation` asks nothing of it. (`NoBBAssumption` says
only that the number that stands for "before the first block" is no block.) The proof
has four parts.

* *What stands for what.* For a function and the places of its phis, `Meaning(p, Q, R,
  S)` says that `S[b][x]` is the value that `x` has where block `b` begins, and `R[v]`
  what becomes of the value `v`: of a load, what its variable holds there (`Holds`). It
  says nothing of `re_name`. A block with a phi for `x` starts with that phi, another
  one with what its immediate dominator ends with. `MeaningExists` shows that every
  function has such an `R` and `S`: among the sets of points of the program that are
  closed under what comes before, and on which some `R` and `S` are right, a largest
  one has all points (`MeansNext`, `MeansStart` and `MeansBlock` add one more).
* *What `re_name` has done.* `MeanInv` relates the stacks to it: the value on top of
  the stack of `x`, when a call was innermost, is what `x` holds where that call has
  come to (`Tops`); the operands of what is not yet left are those of the source, with
  the loads that were passed replaced as `R` says (`Valued`); the pairs of a phi are
  what its variable holds at the end of the predecessor (`PairsMean`); and the code of
  a block that is left can be walked side by side with its source, an instruction of
  both at a time, a phi of the one, or a deleted load, store or alloca of the other
  (`Synced`). `PhisQueued` adds that phis are on the frontiers of all definitions once
  the work lists are empty. With it `EdgeHolds` shows that a block without a phi for
  `x` starts with what each of its predecessors ends with, though `re_name` has
  only looked at its parent in the dominator tree (`ParentTop`).
* *A block run on both machines.* `Related` says that whatever the first machine has in
  memory, and whatever it has loaded on the way, the second has in the register that
  stands for it. `MemoryBegins` is the step over an edge, where the phis are read
  together, so that a value of the last round of a loop is never taken for one of this
  round (`NotOwnPhi`); `SyncedRun` is the rest of the block.
* `SimInv`: after any number of blocks the two machines are `Related` for every `R` and
  `S` that fit, and the code does not change any more.

* `PrintedNamesDistinct`: `RunSpec => []PrintedNamesUnique`.

The last part of the module is about the names. No value is defined twice
(`DefsInv`: while phis are placed this follows from the shape of the code, `AsBuilt`;
`re_name` rewrites operands and deletes instructions in their order, `Thinner`), so
that each value has one place in the function (`ValuesPlaced`). The numbers of a
round are then `seq_cnt_` and what was put in `seq` before, which grows from place to
place (`UntilGrows`) and stays below what is added to `seq_cnt_` in the end.
`NamesGiven`, that all names are below `seq_cnt_` and no two are the same, is kept by
every round (`NamesNext`), whatever was named before.

`CminusfBuilder_proofs` proves of the builder, for any set of syntax trees
(`NodesAssumption`), however deep or wide,

* `LvalueFlagTaken`: `BuilderSpec => []LvalueFlag`;
* `LexicalScopes`: `BuilderSpec => []ScopesAreLexical`.

Both properties are about the place of the visit in the tree, and the invariant
(`BuilderInv`) says where that is. `Chain`: the first frame is the program's, and each
other frame visits the child that the method of the frame below has come to
(`IsKid`, counted by `Begun`). `VisitShape` goes through the visit methods once and
for all: whatever one does to values and instructions, it accepts the next
child (`Descends`), enters the scope of a construct (`Begins`), returns, or aborts, and
`StepShape` lists with which change of the scopes. From there on the methods are not
looked at any more. `Lexical` is the second property in the form that is
inductive: the scope of an open construct is found by `Depth`, the number of constructs
at or below its frame that have entered theirs, which no step above it changes, and
it holds what the children before the one under way have declared. A declaration pushes
its name before it returns, so that the name is there when the child becomes one of
those visited (`DeclaredAfterReturn`); this needs that a `var-declaration` or `param`
stands directly below a construct that is open (`KidFacts`), or the name would land in
another scope. The name of a function goes to the outermost scope while its
declaration is still under way, hence the last part of the property. For the flag it is
enough that the first child of an assignment is an `ASTVar`, whose first step takes it.

Only model-checked: the rest of the front end - what parser, printer and builder do
with whole trees (`RoundTrip`, `OutlineFaithful`, `MeaningKept`) is defined by recursion
on them, and `NoAbort`, `EmittedWellTyped` and `OperandsAvailable` hold only of programs
whose names and types are right, which it takes recursion to say as well - and
`Terminates` (liveness).

## 6. Findings

1. If-else joins wrongly (`cminusf_builder.cpp:213`): both terminators are read
   from the else branch and the insertion point stays there; the join block has
   no terminator. Run `builder_ifelse_join`.
2. Code after a return is appended to the ended block
   (`cminusf_builder.cpp:169`). Run `builder_after_return`.
3. The blocks of a while have fixed names, and nothing makes them different
   (`cminusf_builder.cpp:245`): a function with two loops has two blocks with one
   label, while the tests take a label for the name of one block
   (`tests/lab5/lab5_tests.py:186`). Run `builder_labels`.
4. `var_val_stack` keeps a variable's key after its last value is popped, so the
   assert at `Mem2Reg.cpp:134` fails on a legal program. Run `mem2reg_assert`.
5. An int returned from a float function is converted by `sitofp` to `i32`
   (`cminusf_builder.cpp:288`), although cminusf.md:183-185 has this conversion among
   those the compiler makes. Run `frontend_return`.
6. A condition is compared with `> 0` (`cminusf_builder.cpp:193` and the same in
   while), against cminusf.md:109 and :115, where only 0 is false. Run
   `frontend_condition`, on an if.

A remark without a run: `replace_all_use_with` leaves the old value's `use_list_` as it
was (`Value.cpp:24`), against LightIR.md:607. `LiveListsExact` is about values in use
for this reason, and nothing in the repository reads the stale entries.

## 7. Not modelled

* The lexer: its patterns are flex's work, and its line and column counters serve
  error messages. A character it does not know is returned as token 0, which the parser
  takes for the end of the input. Tokens longer than the arrays of a tree node,
  integer literals beyond `int` (`stoi` throws) and what follows a syntax error
  (the tree's root is uninitialised) are listed as hazards without a property.
* Printing of the IR and of the tree's texts, logging, option parsing, the call
  of clang: formatting and I/O.
* The stub passes `ActiveVars`, `ConstPropagation` and `LoopInvHoist`, whose `run`
  has no analysis.
* `Dominators::create_doms`, `User::remove_operands` and the removal of blocks and
  edges, which nothing calls.
