------------------------------ MODULE FrontEnd ------------------------------
(***************************************************************************)
(* The front end of cminusfc as main() drives it (cminusfc/cminusfc.cpp):  *)
(* the text of one program is parsed, made an AST, visited by              *)
(* CminusfBuilder, and the LightIR that comes out is run.  The passes that *)
(* follow in the compiler are the subject of Passes and Mem2RegRun.        *)
(***************************************************************************)
EXTENDS CminusfBuilder, SourceText, Parser

CONSTANTS
  Programs,   \* the abstract syntax trees of the programs compiled
  Inputs      \* what input() reads

ASSUME ProgramsAssumption == Programs \subseteq {n \in Nodes : n.k = "program"}

VARIABLES
  source,     \* the program
  phase,      \* how far main() is
  tree,       \* the syntax tree of the parser
  ast,
  calls, memory, unread, output   \* the run of the compiled program

Machine == INSTANCE Execution WITH FloatOne <- FloatUnit
Language == INSTANCE CminusSemantics WITH One <- FloatUnit, Uninitialised <- Machine!Garbage

frontVars == <<source, phase, tree, ast>>
runVars == <<calls, memory, unread, output>>
vars == <<frontVars, builderVars, runVars>>

Init ==
  /\ source \in Programs
  /\ phase = "text" /\ tree = NoTree /\ ast = NoTree
  /\ BuilderInit
  /\ calls = <<>> /\ memory = <<>> /\ unread = Inputs /\ output = <<>>

Enters(p) == phase' = p /\ UNCHANGED source

\* parse(input_path); a constant, so that TLC parses each program once.
SyntaxTree == [program \in Programs |-> parse(Text(program))] @@ <<>>

Parse ==
  /\ phase = "text" /\ Enters("tree")
  /\ tree' = SyntaxTree[source]
  /\ UNCHANGED <<ast, builderVars, runVars>>

\* AST::AST, which deletes the syntax tree.
BuildAST ==
  /\ phase = "tree" /\ Enters("ast")
  /\ ast' = Transform(tree) /\ tree' = NoTree
  /\ UNCHANGED <<builderVars, runVars>>

\* run_visitor(builder)
RunVisitor ==
  /\ phase = "ast" /\ Enters("visit")
  /\ run_visitor(ast)
  /\ UNCHANGED <<tree, ast, runVars>>

VisitStep ==
  /\ phase = "visit" /\ Visit
  /\ UNCHANGED <<frontVars, runVars>>

GetModule ==
  /\ phase = "visit" /\ stack = <<>> /\ Enters("compiled")
  /\ UNCHANGED <<tree, ast, builderVars, runVars>>

StartRun ==
  /\ phase = "compiled" /\ Enters("run")
  /\ Machine!StartRun(m)
  /\ UNCHANGED <<tree, ast, builderVars>>

RunStep ==
  /\ phase = "run" /\ Machine!Step(m)
  /\ UNCHANGED <<frontVars, builderVars>>

EndRun ==
  /\ phase = "run" /\ ~Machine!Running /\ Enters("done")
  /\ UNCHANGED <<tree, ast, builderVars, runVars>>

Done == phase = "done" /\ UNCHANGED vars

Next == Parse \/ BuildAST \/ RunVisitor \/ VisitStep \/ GetModule \/ StartRun \/ RunStep
        \/ EndRun \/ Done

Spec == Init /\ [][Next]_vars

(***************************************************************************)
(* Properties                                                              *)
(***************************************************************************)
\* Whatever the grammar's lists and precedences, the AST is that of the
\* program: what was written is what transform_node_iter gives back.
RoundTrip == phase = "ast" => ast = source

\* Every visit method of ASTPrinter gives the depth back on each way out, the
\* early returns of arrays and indices among them: the outline draws the AST,
\* each child two deeper than its parent however deep the tree.
OutlineFaithful == phase = "ast" => Drawn(Outline(ast)) = Labelled(ast)

\* No assertion of LightIR fails and no null pointer is followed while a
\* valid program is compiled.
NoAbort == m.ok

\* Every instruction has operands of the types LLVM demands, whatever mixture
\* of ints and floats the program computes with, assigns, passes and indexes
\* by.  It holds where a function returns its own type, or a float for an int;
\* run frontend_return shows that it fails where one returns an int for a float.
EmittedWellTyped ==
  phase = "compiled" =>
    \A b \in DOMAIN m.blocks : \A i \in DOMAIN m.blocks[b].code :
      WellTyped(m, b, m.blocks[b].code[i])

\* The code never runs off the end of a block, and never uses the value of an
\* instruction that the activation has not executed: Res is never stale.
OperandsAvailable == phase = "run" /\ Machine!Running => Machine!OperandsReady(m)

\* The compiled program prints what cminusf.md says the program prints.
MeaningKept == phase = "done" => output = Language!Meaning(source, Inputs)
=============================================================================
