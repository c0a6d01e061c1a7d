------------------------------ MODULE MCMem2Reg ------------------------------
(***************************************************************************)
(* Functions for Mem2RegRun: control-flow shapes that the builder makes,   *)
(* every block after the entry with any of a few bodies.  The entry holds  *)
(* the allocas; in part of the functions it also sets every variable, as   *)
(* parameters and initialised programs do.                                 *)
(***************************************************************************)
EXTENDS Mem2RegRun

CONSTANTS NBlocks, VarNames

MCBlocks == 1 .. NBlocks
MCEntry == 1

Def(b, i) == <<"instr", b, i>>
Const(b, i) == <<"const", b, i>>
Ins(op, def, x, v) == [op |-> op, def |-> def, var |-> x, val |-> v, pairs |-> <<>>]

(***************************************************************************)
(* Pieces of a body from position i of block b on.                         *)
(***************************************************************************)
\* x = a constant
Set(b, i, x) == <<Ins("store", Def(b, i), x, Const(b, i))>>
LoadOf(b, i, x) == Ins("load", <<"load", b, i>>, x, NoValue)
\* output(x)
Out(b, i, x) == <<LoadOf(b, i, x), Ins("use", Def(b, i + 1), NoVar, <<"load", b, i>>)>>
\* y = x
Copy(b, i, x, y) == <<LoadOf(b, i, x), Ins("store", Def(b, i + 1), y, <<"load", b, i>>)>>
\* both read before both are written
Swap(b, x, y) == <<LoadOf(b, 1, x), LoadOf(b, 2, y),
                   Ins("store", Def(b, 3), x, <<"load", b, 2>>),
                   Ins("store", Def(b, 4), y, <<"load", b, 1>>)>>

\* One variable: nothing, a read, a read and a write.
OneVar == {"nothing", "out", "out_set"}
\* Writes alone.
OnlySets == {"nothing", "set"}
\* Two variables.
TwoVars == {"out_both", "set", "copy", "swap"}

Body(kind, b) ==
  CASE kind = "nothing" -> <<>>
    [] kind = "set" -> Set(b, 1, "x")
    [] kind = "out" -> Out(b, 1, "x")
    [] kind = "out_set" -> Out(b, 1, "x") \o Set(b, 3, "x")
    [] kind = "out_both" -> Out(b, 1, "x") \o Out(b, 3, "y")
    [] kind = "copy" -> Copy(b, 1, "x", "y")
    [] kind = "swap" -> Swap(b, "x", "y")

NameSeq == SetToSeq(VarNames)
Allocas == [i \in 1 .. Len(NameSeq) |-> Ins("alloca", Def(1, 10 + i), NameSeq[i], NoValue)]
Sets == [i \in 1 .. Len(NameSeq) |->
           Ins("store", Def(1, 20 + i), NameSeq[i], Const(1, 20 + i))]

\* The functions of one shape whose entry holds the instructions first.
Functions(succ, first, bodies) ==
  LET E == {e \in MCBlocks \X MCBlocks : e[2] \in Range(succ[e[1]])}
      df == [b \in MCBlocks |-> DominanceFrontier(b, MCEntry, MCBlocks, E)]
      idom == [b \in MCBlocks |-> ImmediateDominators(b, MCEntry, MCBlocks, E)]
      kids == [b \in MCBlocks |-> {c \in MCBlocks : b \in idom[c]}]
  IN  {[succ |-> succ, df |-> df, kids |-> kids,
        code |-> [b \in MCBlocks |-> IF b = MCEntry THEN first ELSE Body(kind[b], b)]] :
         kind \in [MCBlocks \ {MCEntry} -> bodies]}

\* Nested joins, a loop after a branch that returns, a loop with an if.
IfInElse == <<<<2, 3>>, <<5>>, <<4, 5>>, <<5>>, <<>>>>
LoopAfterIf == <<<<2, 3>>, <<>>, <<4>>, <<5, 3>>, <<4>>>>
IfInLoop == <<<<2>>, <<3, 5>>, <<4, 2>>, <<2>>, <<>>>>
NestedIfs == <<<<2, 4>>, <<3, 4>>, <<4>>, <<5>>, <<>>>>

\* output(a constant): a value that stays, ahead of the declarations.
First == <<Ins("use", Def(1, 1), NoVar, Const(1, 1))>>

MCPrograms ==
  UNION {Functions(succ, First \o Allocas, OneVar) : succ \in {IfInElse, LoopAfterIf, IfInLoop, NestedIfs}}
    \union
  UNION {Functions(succ, First \o Allocas \o Sets, TwoVars) : succ \in {IfInElse, IfInLoop}}

\* if (c) ... return; while (d) ...
ReturnThenLoop == <<<<2, 3>>, <<>>, <<4>>, <<5, 6>>, <<4>>, <<>>>>
SetOnly == Functions(ReturnThenLoop, Allocas, OnlySets)
=============================================================================
