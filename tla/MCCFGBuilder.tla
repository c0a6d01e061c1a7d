---------------------------- MODULE MCCFGBuilder ----------------------------
(***************************************************************************)
(* Small instances of CFGBuilder: AllKinds compiles every statement kind,  *)
(* Branching only the kinds that shape the graph, Structured all but       *)
(* if-else.                                                                *)
(***************************************************************************)
EXTENDS CFGBuilder

AllKinds == StmtKinds
Branching == {"if", "ifelse", "while", "return"}
Structured == StmtKinds \ {"ifelse"}
=============================================================================
