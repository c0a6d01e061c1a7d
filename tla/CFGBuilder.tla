----------------------------- MODULE CFGBuilder -----------------------------
(***************************************************************************)
(* Control-flow construction in CminusfBuilder (cminusfc/                  *)
(* cminusf_builder.cpp) over the block and branch API of LightIR: how one  *)
(* function body of C-minus-f becomes a graph of basic blocks.             *)
(*                                                                         *)
(* The visitor is recursive.  Its C++ call stack is the variable frames:   *)
(* one frame per visit method that has called accept on a child and still  *)
(* has work to do when the child returns, with the blocks it holds in      *)
(* local variables.  The program being compiled is chosen step by step     *)
(* (which statement comes next), so that a run over all choices is a run   *)
(* over all function bodies with at most MaxWork statements and array      *)
(* accesses.                                                               *)
(*                                                                         *)
(* Instructions are abstracted to "br", "ret" and "op" (anything that does *)
(* not end a block); adjacent ops are merged.                              *)
(***************************************************************************)
EXTENDS Integers, Sequences, SequencesExt, FlowGraph

CONSTANTS
  Kinds,            \* the statement kinds the compiled programs use
  ArrayNames,       \* the arrays they access, by identifier
  CodeAfterReturn,  \* may a statement list go on where the block is ended?
  ReturnsVoid,      \* is the function's return type void?
  MaxBlocks,        \* bound on the basic blocks of the function
  MaxWork           \* bound on the statements and array accesses visited

StmtKinds == {"expr", "compound", "if", "ifelse", "while", "return"}

ASSUME KindsAssumption == Kinds \subseteq StmtKinds
ASSUME FlagsAssumption == CodeAfterReturn \in BOOLEAN /\ ReturnsVoid \in BOOLEAN
ASSUME BoundsAssumption == MaxBlocks \in Nat \ {0} /\ MaxWork \in Nat

NoBB == 0                   \* a local variable that holds no block
Blocks == 1 .. MaxBlocks    \* in creation order, as in basic_blocks_
Entry == 1

\* The blocks of an index check are named after the array, every other block
\* by what it is for.
FixedLabels == {"none", "entry", "true", "false", "ret", "condition", "loop"}
FailLabel(id) == id \o "_failTest"
PassLabel(id) == id \o "_passTest"
Labels == FixedLabels \union UNION {{FailLabel(id), PassLabel(id)} : id \in ArrayNames}

ASSUME LabelsAssumption ==
  \A id \in ArrayNames : FailLabel(id) \notin FixedLabels /\ PassLabel(id) \notin FixedLabels

VARIABLES
  bbs,      \* the basic blocks: label, instructions, pre_bbs_, succ_bbs_
  nb,       \* how many of Blocks exist
  BB_,      \* the builder's insertion point
  frames,   \* the visit methods under way, innermost last
  pc,       \* what the innermost visit method does next
  work      \* statements and array accesses visited so far

vars == <<bbs, nb, BB_, frames, pc, work>>

(***************************************************************************)
(* Basic blocks and branches.                                              *)
(***************************************************************************)
NoBlock == [label |-> "none", code |-> <<>>, pre |-> <<>>, succ |-> <<>>]

\* BasicBlock::create(module, name, function)
Create(g, b, name) == [g EXCEPT ![b] = [NoBlock EXCEPT !.label = name]]

\* The instruction list of a block after add_instruction.
AddInstruction(code, i) ==
  IF i = "op" /\ code # <<>> /\ Last(code) = "op" THEN code ELSE Append(code, i)

\* An instruction that is not a branch, inserted at the end of block b.
Emit(g, b, i) == [g EXCEPT ![b].code = AddInstruction(@, i)]

AddEdge(g, a, b) ==
  [g EXCEPT ![a].succ = Append(@, b)]

AddPre(g, a, b) == [g EXCEPT ![b].pre = Append(@, a)]

\* BranchInst::create_br
CreateBr(g, b, target) ==
  Emit(AddEdge(AddPre(g, b, target), b, target), b, "br")

\* MUTANT of CreateCondBr: the false target does not learn its predecessor.
CreateCondBrOnePre(g, b, ifTrue, ifFalse) ==
  Emit(AddEdge(AddEdge(AddPre(g, b, ifTrue), b, ifFalse), b, ifTrue), b, "br")

\* BranchInst::create_cond_br: the false edge is recorded first.
CreateCondBr(g, b, ifTrue, ifFalse) ==
  LET pres == AddPre(AddPre(g, b, ifTrue), b, ifFalse)
  IN  Emit(AddEdge(AddEdge(pres, b, ifFalse), b, ifTrue), b, "br")

\* BasicBlock::get_terminator() != nullptr: only the last instruction counts.
HasTerminator(g, b) == g[b].code # <<>> /\ Last(g[b].code) \in {"br", "ret"}

\* Zero or more instructions that do not end the block.
MaybeOp(g, b) == {g, Emit(g, b, "op")}

(***************************************************************************)
(* The call stack of the visitor.                                          *)
(***************************************************************************)
FrameKinds == {"list",                      \* ASTCompoundStmt
               "exprStmt",                  \* ASTExpressionStmt
               "ifCond", "ifTrue",          \* ASTSelectionStmt, no else
               "ifElseCond", "elseTrue", "elseFalse",
               "whileCond", "whileBody",    \* ASTIterationStmt
               "return"}                    \* ASTReturnStmt

Frame(kind) == [kind |-> kind, conditionBB |-> NoBB, loopBB |-> NoBB,
                retBB |-> NoBB, falseBB |-> NoBB, curTrueBB |-> NoBB]

Top == Last(frames)
Push(frame) == Append(frames, frame)
Replace(frame) == Append(Front(frames), frame)
Pop == Front(frames)

Init ==
  /\ \E g \in MaybeOp(Create([b \in Blocks |-> NoBlock], Entry, "entry"), Entry) :
       bbs = g                      \* parameters and local declarations
  /\ nb = 1
  /\ BB_ = Entry
  /\ frames = <<Frame("list")>>     \* the body, a compound statement
  /\ pc = "done"
  /\ work = 0

(***************************************************************************)
(* Visiting a statement: pc = "stmt".                                      *)
(***************************************************************************)
Visit(kind) == pc = "stmt" /\ kind \in Kinds /\ work < MaxWork /\ work' = work + 1

\* The empty statement `;': an ASTExpressionStmt without an expression.
VisitEmpty ==
  /\ pc = "stmt"
  /\ pc' = "done"
  /\ UNCHANGED <<bbs, nb, BB_, frames, work>>

VisitExpressionStmt ==
  /\ Visit("expr")
  /\ frames' = Push(Frame("exprStmt"))
  /\ pc' = "expr"
  /\ UNCHANGED <<bbs, nb, BB_>>

VisitCompoundStmt ==
  /\ Visit("compound")
  /\ bbs' \in MaybeOp(bbs, BB_)     \* allocas of the local declarations
  /\ frames' = Push(Frame("list"))
  /\ pc' = "done"
  /\ UNCHANGED <<nb, BB_>>

VisitSelectionStmt ==
  /\ \/ Visit("if") /\ frames' = Push(Frame("ifCond"))
     \/ Visit("ifelse") /\ frames' = Push(Frame("ifElseCond"))
  /\ pc' = "expr"
  /\ UNCHANGED <<bbs, nb, BB_>>

\* MUTANT of VisitIterationStmt: the branch to the condition is forgotten.
VisitIterationStmtNoBr ==
  /\ Visit("while")
  /\ nb + 3 <= MaxBlocks
  /\ nb' = nb + 3
  /\ bbs' = Create(Create(Create(bbs, nb + 1, "condition"), nb + 2, "loop"), nb + 3, "ret")
  /\ BB_' = nb + 1
  /\ frames' = Push([Frame("whileCond") EXCEPT !.conditionBB = nb + 1,
                        !.loopBB = nb + 2, !.retBB = nb + 3])
  /\ pc' = "expr"

VisitIterationStmt ==
  LET conditionBB == nb + 1
      loopBB == nb + 2
      retBB == nb + 3
      g == Create(Create(Create(bbs, conditionBB, "condition"), loopBB, "loop"),
                  retBB, "ret")
  IN  /\ Visit("while")
      /\ nb + 3 <= MaxBlocks
      /\ nb' = nb + 3
      /\ bbs' = CreateBr(g, BB_, conditionBB)
      /\ BB_' = conditionBB
      /\ frames' = Push([Frame("whileCond") EXCEPT !.conditionBB = conditionBB,
                            !.loopBB = loopBB, !.retBB = retBB])
      /\ pc' = "expr"

\* A void function returns at once, any other visits the expression first.
VisitReturnStmt ==
  /\ Visit("return")
  /\ \/ /\ ReturnsVoid
        /\ bbs' = Emit(bbs, BB_, "ret")
        /\ pc' = "done"
        /\ UNCHANGED frames
     \/ /\ ~ReturnsVoid
        /\ frames' = Push(Frame("return"))
        /\ pc' = "expr"
        /\ UNCHANGED bbs
  /\ UNCHANGED <<nb, BB_>>

(***************************************************************************)
(* Visiting an expression: pc = "expr".  Only an array access branches.    *)
(***************************************************************************)
VisitVarIndexed ==
  \E id \in ArrayNames :
    LET failBB == nb + 1
        passBB == nb + 2
        g == Create(Create(Emit(bbs, BB_, "op"), failBB, FailLabel(id)), passBB, PassLabel(id))
        tested == CreateCondBr(g, BB_, failBB, passBB)
        failed == CreateBr(Emit(tested, failBB, "op"), failBB, passBB)
    IN  /\ pc = "expr"
        /\ work < MaxWork
        /\ nb + 2 <= MaxBlocks
        /\ work' = work + 1
        /\ nb' = nb + 2
        /\ bbs' = Emit(failed, passBB, "op")
        /\ BB_' = passBB
        /\ UNCHANGED <<frames, pc>>

ExprVisited(kind) == pc = "expr" /\ Top.kind = kind

FinishExpressionStmt ==
  /\ ExprVisited("exprStmt")
  /\ bbs' \in MaybeOp(bbs, BB_)
  /\ frames' = Pop
  /\ pc' = "done"
  /\ UNCHANGED <<nb, BB_, work>>

FinishReturn ==
  /\ ExprVisited("return")
  /\ \E g \in MaybeOp(bbs, BB_) : bbs' = Emit(g, BB_, "ret")
  /\ frames' = Pop
  /\ pc' = "done"
  /\ UNCHANGED <<nb, BB_, work>>

\* if (e) s: the comparison, the two blocks, the branch; s goes into trueBB.
BranchIf ==
  LET trueBB == nb + 1
      retBB == nb + 2
      g == Create(Create(Emit(bbs, BB_, "op"), trueBB, "true"), retBB, "ret")
  IN  /\ ExprVisited("ifCond")
      /\ nb + 2 <= MaxBlocks
      /\ nb' = nb + 2
      /\ bbs' = CreateCondBr(g, BB_, trueBB, retBB)
      /\ BB_' = trueBB
      /\ frames' = Replace([Frame("ifTrue") EXCEPT !.retBB = retBB])
      /\ pc' = "stmt"
      /\ UNCHANGED work

\* if (e) s1 else s2: no block for what follows is created yet.
BranchIfElse ==
  LET trueBB == nb + 1
      falseBB == nb + 2
      g == Create(Create(Emit(bbs, BB_, "op"), trueBB, "true"), falseBB, "false")
  IN  /\ ExprVisited("ifElseCond")
      /\ nb + 2 <= MaxBlocks
      /\ nb' = nb + 2
      /\ bbs' = CreateCondBr(g, BB_, trueBB, falseBB)
      /\ BB_' = trueBB
      /\ frames' = Replace([Frame("elseTrue") EXCEPT !.falseBB = falseBB])
      /\ pc' = "stmt"
      /\ UNCHANGED work

\* MUTANT of BranchWhile: a false condition tests itself again.
BranchWhileSelf ==
  /\ ExprVisited("whileCond")
  /\ bbs' = CreateCondBr(Emit(bbs, BB_, "op"), BB_, Top.loopBB, Top.conditionBB)
  /\ BB_' = Top.loopBB
  /\ frames' = Replace([Top EXCEPT !.kind = "whileBody"])
  /\ pc' = "stmt"
  /\ UNCHANGED <<nb, work>>

BranchWhile ==
  LET frame == Top
      g == Emit(bbs, BB_, "op")
  IN  /\ ExprVisited("whileCond")
      /\ bbs' = CreateCondBr(g, BB_, frame.loopBB, frame.retBB)
      /\ BB_' = frame.loopBB
      /\ frames' = Replace([Frame("whileBody") EXCEPT
                               !.conditionBB = frame.conditionBB,
                               !.retBB = frame.retBB])
      /\ pc' = "stmt"
      /\ UNCHANGED <<nb, work>>

(***************************************************************************)
(* A child statement has been visited: pc = "done".                        *)
(***************************************************************************)
StmtVisited(kind) == pc = "done" /\ frames # <<>> /\ Top.kind = kind

\* The next statement of a list.  Nothing looks at the insertion block.
NextStatement ==
  /\ StmtVisited("list")
  /\ CodeAfterReturn \/ ~HasTerminator(bbs, BB_)
  /\ work < MaxWork
  /\ pc' = "stmt"
  /\ UNCHANGED <<bbs, nb, BB_, frames, work>>

EndCompoundStmt ==
  /\ StmtVisited("list")
  /\ frames' = Pop
  /\ UNCHANGED <<bbs, nb, BB_, pc, work>>

\* MUTANT of FinishIf: the branch is added even after a return.
FinishIfAlwaysBr ==
  /\ StmtVisited("ifTrue")
  /\ bbs' = CreateBr(bbs, BB_, Top.retBB)
  /\ BB_' = Top.retBB
  /\ frames' = Pop
  /\ UNCHANGED <<nb, pc, work>>

\* Join after if (e) s: the branch is omitted when s ended its block.
FinishIf ==
  /\ StmtVisited("ifTrue")
  /\ bbs' = IF HasTerminator(bbs, BB_) THEN bbs ELSE CreateBr(bbs, BB_, Top.retBB)
  /\ BB_' = Top.retBB
  /\ frames' = Pop
  /\ UNCHANGED <<nb, pc, work>>

StartElse ==
  /\ StmtVisited("elseTrue")
  /\ BB_' = Top.falseBB
  /\ frames' = Replace([Frame("elseFalse") EXCEPT !.curTrueBB = BB_])
  /\ pc' = "stmt"
  /\ UNCHANGED <<bbs, nb, work>>

\* MUTANT of FinishIfElse: the insertion point moves to a retBB that was not
\* created, when both branches returned.
FinishIfElseNoBlock ==
  /\ StmtVisited("elseFalse")
  /\ bbs' = bbs
  /\ BB_' = IF HasTerminator(bbs, BB_) THEN NoBB ELSE BB_
  /\ frames' = Pop
  /\ UNCHANGED <<nb, pc, work>>

\* Join after if-else.  trueTerm and falseTerm are both the terminator of the
\* insertion block, which is curFalseBB; create_br(retBB) in curFalseBB is the
\* last use of the insertion point, which therefore stays in curFalseBB.
FinishIfElse ==
  LET curTrueBB == Top.curTrueBB
      curFalseBB == BB_
      retBB == nb + 1
      trueTerm == HasTerminator(bbs, BB_)
      falseTerm == HasTerminator(bbs, BB_)
      Joined(g, b, term) == IF term THEN g ELSE CreateBr(g, b, retBB)
  IN  /\ StmtVisited("elseFalse")
      /\ IF trueTerm /\ falseTerm
         THEN UNCHANGED <<bbs, nb>>
         ELSE /\ retBB <= MaxBlocks
              /\ nb' = retBB
              /\ bbs' = Joined(Joined(Create(bbs, retBB, "ret"), curTrueBB, trueTerm),
                               curFalseBB, falseTerm)
      /\ BB_' = curFalseBB
      /\ frames' = Pop
      /\ UNCHANGED <<pc, work>>

\* MUTANT of FinishWhile: the body branches to itself, past the condition.
FinishWhileToLoop ==
  /\ StmtVisited("whileBody")
  /\ bbs' = IF HasTerminator(bbs, BB_) THEN bbs
            ELSE CreateBr(bbs, BB_, Top.conditionBB + 1)
  /\ BB_' = Top.retBB
  /\ frames' = Pop
  /\ UNCHANGED <<nb, pc, work>>

\* MUTANT of FinishWhile: the insertion point stays in the loop.
FinishWhileStay ==
  /\ StmtVisited("whileBody")
  /\ bbs' = IF HasTerminator(bbs, BB_) THEN bbs
            ELSE CreateBr(bbs, BB_, Top.conditionBB)
  /\ frames' = Pop
  /\ UNCHANGED <<nb, BB_, pc, work>>

FinishWhile ==
  /\ StmtVisited("whileBody")
  /\ bbs' = IF HasTerminator(bbs, BB_) THEN bbs
            ELSE CreateBr(bbs, BB_, Top.conditionBB)
  /\ BB_' = Top.retBB
  /\ frames' = Pop
  /\ UNCHANGED <<nb, pc, work>>

\* MUTANT of FinishFunction: no return is added.
FinishFunctionNoRet ==
  /\ pc = "done" /\ frames = <<>>
  /\ pc' = "end"
  /\ UNCHANGED <<bbs, nb, BB_, frames, work>>

\* The end of ASTFunDeclaration: a return for a body that falls off its end.
FinishFunction ==
  /\ pc = "done" /\ frames = <<>>
  /\ bbs' = IF HasTerminator(bbs, BB_) THEN bbs ELSE Emit(bbs, BB_, "ret")
  /\ pc' = "end"
  /\ UNCHANGED <<nb, BB_, frames, work>>

Next ==
  \/ VisitEmpty \/ VisitExpressionStmt \/ VisitCompoundStmt
  \/ VisitSelectionStmt \/ VisitIterationStmt \/ VisitReturnStmt
  \/ VisitVarIndexed
  \/ FinishExpressionStmt \/ FinishReturn
  \/ BranchIf \/ BranchIfElse \/ BranchWhile
  \/ NextStatement \/ EndCompoundStmt
  \/ FinishIf \/ StartElse \/ FinishIfElse \/ FinishWhile
  \/ FinishFunction

Spec == Init /\ [][Next]_vars

(***************************************************************************)
(* Properties.                                                             *)
(***************************************************************************)
Created == 1 .. nb
Succs(g, b) == Range(g[b].succ)
Edges == {e \in Created \X Created : e[2] \in Succs(bbs, e[1])}

BlockRecord == [label : Labels, code : Seq({"op", "br", "ret"}),
                pre : Seq(Blocks), succ : Seq(Blocks)]
MaybeBB == Blocks \union {NoBB}
FrameRecord == [kind : FrameKinds, conditionBB : MaybeBB, loopBB : MaybeBB,
                retBB : MaybeBB, falseBB : MaybeBB, curTrueBB : MaybeBB]

\* Type invariant: the state of the visitor and of the function it fills.
TypeOK ==
  /\ bbs \in [Blocks -> BlockRecord]
  /\ nb \in Blocks
  /\ BB_ \in Created
  /\ frames \in Seq(FrameRecord)
  /\ pc \in {"stmt", "expr", "done", "end"}
  /\ work \in 0 .. MaxWork

\* The blocks of a while whose condition is still being visited: they exist,
\* and no edge leads to them before the condition has been translated.
Pending ==
  IF frames # <<>> /\ Top.kind = "whileCond" THEN {Top.loopBB, Top.retBB} ELSE {}

\* Every block the visitor has created is reachable from the entry along the
\* recorded edges, whatever the program, save the two blocks of a while whose
\* condition is being visited.  Dominators relies on it: it calls get_idom on
\* every predecessor of a block, and an unreachable one has none.
AllReachable ==
  AllReachableFrom(Entry, Created \ Pending, Created, Edges)

\* pre_bbs_ and succ_bbs_ describe the same edges, between blocks of the
\* function, and no edge is recorded twice: Mem2Reg adds one phi entry per
\* visit of a successor and LoopSearch builds its graph from the two lists.
EdgesMirrored ==
  /\ \A b \in Created : Succs(bbs, b) \subseteq Created
  /\ \A a, b \in Created : a \in Range(bbs[b].pre) <=> b \in Succs(bbs, a)
  /\ \A b \in Blocks : /\ IsInjective(bbs[b].pre)
                       /\ IsInjective(bbs[b].succ)

\* A condition block, the base of its loop, has at most two predecessors, and
\* no branch leads back to the entry: LoopSearch and Mem2Reg count on both
\* (Documentations/lab5/README.md).
LoopHeaderPreds ==
  /\ \A b \in Created : bbs[b].label = "condition" => Len(bbs[b].pre) <= 2
  /\ bbs[Entry].pre = <<>>

\* The finished graph is reducible and every loop has a condition block:
\* LoopSearch looks for one base per loop and removes it to find inner loops.
LoopsReducible ==
  pc = "end" =>
    LET inner == {e \in Edges : bbs[e[1]].label # "condition"}
    IN  Reducible(Entry, Created, Edges) /\ Acyclic(Created, inner)

\* Every block of a finished function ends in a terminator.
EveryBlockTerminated == pc = "end" => \A b \in Created : HasTerminator(bbs, b)

\* A block has no more than one terminator, and it is its last instruction.
SingleTerminator ==
  \A b \in Created : \A i \in 1 .. Len(bbs[b].code) - 1 :
     bbs[b].code[i] \notin {"br", "ret"}

\* From every block of a finished function some path leads to a return, and a
\* block that returns has no successor.
EveryBlockReachesReturn ==
  pc = "end" =>
    LET returning == {b \in Created : "ret" \in Range(bbs[b].code)}
    IN  /\ \A b \in returning : bbs[b].succ = <<>>
        /\ \A b \in Created : Reachable(b, Created, Edges) \intersect returning # {}

\* A block is named by its label: two blocks of a function never share one.
LabelsUnique ==
  \A a, b \in Created : bbs[a].label = bbs[b].label => a = b
=============================================================================
