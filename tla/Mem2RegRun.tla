------------------------------ MODULE Mem2RegRun ------------------------------
(***************************************************************************)
(* What Mem2Reg must preserve: after the pass, the function as the builder *)
(* made it (prog.code, with variables in memory) and as the pass left it   *)
(* (code, with phis) are run side by side, block by block, along any path. *)
(* A step runs one block of both.  main() gives the values of the function *)
(* names before the pass, and prints it, with what the pass added, after.  *)
(***************************************************************************)
EXTENDS Mem2Reg, Names

VARIABLES
  stage,     \* of main(): "built", "named", "printed"
  at,        \* the block run last; NoBB before the first
  src, ssa   \* memory, values defined and values used in the block run last

runVars == <<at, src, ssa>>
mainVars == <<stage, name_, seq_cnt_>>
NoBB == 0
ASSUME NoBBAssumption == NoBB \notin Blocks
Undef == <<"undef", 0, 0>>

\* The value of operand v: nothing is known of one that was never computed.
ValueOf(v, reg) ==
  CASE v[1] = "const" -> v
    [] v \in DOMAIN reg -> reg[v]
    [] OTHER -> Undef

\* Registers reg after those of f have been set: f @@ reg, in a form that a
\* proof can unfold.
With(f, reg) ==
  [v \in DOMAIN f \union DOMAIN reg |-> IF v \in DOMAIN f THEN f[v] ELSE reg[v]]

Run1(m, ins) ==
  CASE ins.op = "alloca" -> [m EXCEPT !.mem[ins.var] = Undef]
    [] ins.op = "store" -> [m EXCEPT !.mem[ins.var] = ValueOf(ins.val, m.reg)]
    [] ins.op = "load" -> [m EXCEPT !.reg = With([v \in {ins.def} |-> m.mem[ins.var]], @)]
    [] ins.op = "use" -> [m EXCEPT !.out = Append(@, ValueOf(ins.val, m.reg))]
    [] ins.op = "phi" -> m

\* A phi takes the operand of the pair for the block control came from.
PhiValue(phi, from, reg) ==
  LET taken == {v \in {pair[1] : pair \in {q \in Range(phi.pairs) : q[2] = from}} : TRUE}
  IN  IF taken = {} THEN Undef ELSE ValueOf(CHOOSE v \in taken : TRUE, reg)

\* All phis of a block read before any of them is written.
RunBlock(instrs, from, m) ==
  LET phis == {ins \in Range(instrs) : ins.op = "phi"}
      values == [d \in {phi.def : phi \in phis} |->
                   PhiValue(CHOOSE phi \in phis : phi.def = d, from, m.reg)]
      run[i \in 0 .. Len(instrs)] ==
        IF i = 0 THEN [m EXCEPT !.reg = With(values, @), !.out = <<>>]
        ELSE Run1(run[i - 1], instrs[i])
  IN  run[Len(instrs)]

BlockOrder == SetToSeq(Blocks)   \* basic_blocks_

\* What set_instr_name gives names, with its place.  The blocks have theirs from
\* the builder, a store has no value, and a "use" is taken for one that has.
Places ==
  UNION {{n} \X {i \in DOMAIN code[BlockOrder[n]] : code[BlockOrder[n]][i].op # "store"} :
           n \in DOMAIN BlockOrder}
Values == [q \in Places |-> code[BlockOrder[q[1]]][q[2]].def]

RunInit ==
  /\ Init
  /\ stage = "built" /\ NamesInit
  /\ at = NoBB
  /\ src = [mem |-> [x \in Vars |-> Undef], reg |-> <<>>, out |-> <<>>]
  /\ ssa = src

\* m->set_print_name()
NameValues ==
  /\ stage = "built" /\ stage' = "named"
  /\ set_instr_name(Values)
  /\ UNCHANGED <<vars, runVars>>

\* PM.run()
Transform == stage = "named" /\ Next /\ UNCHANGED <<runVars, mainVars>>

\* m->print()
PrintFunction ==
  /\ stage = "named" /\ phase = "done" /\ stage' = "printed"
  /\ set_instr_name(Values)
  /\ UNCHANGED <<vars, runVars>>

Compile == NameValues \/ Transform \/ PrintFunction

RunNextBlock ==
  /\ stage = "printed"
  /\ \E b \in IF at = NoBB THEN {Entry} ELSE Range(prog.succ[at]) :
       /\ at' = b
       /\ src' = RunBlock(prog.code[b], at, src)
       /\ ssa' = RunBlock(code[b], at, ssa)
  /\ UNCHANGED <<vars, mainVars>>

\* The compiler has aborted, or the function has returned.
Stopped ==
  /\ phase \in {"assert", "fault"} \/ (at # NoBB /\ prog.succ[at] = <<>>)
  /\ UNCHANGED <<vars, runVars, mainVars>>

RunNext == Compile \/ RunNextBlock \/ Stopped

allVars == <<vars, runVars, mainVars>>
RunSpec == RunInit /\ [][RunNext]_allVars
FairRunSpec == RunSpec /\ WF_allVars(Compile)

(***************************************************************************)
(* Properties.                                                             *)
(***************************************************************************)
\* Type invariant.
TypeOK ==
  /\ phase \in {"place", "rename", "done", "assert", "fault"}
  /\ \A b \in Blocks : \A ins \in Instrs(b) :
       /\ ins.op \in Ops /\ ins.val \in Operands \union {NoValue}
       /\ \A pair \in Range(ins.pairs) : pair \in Operands \X Blocks
  /\ todo \subseteq [var : Vars, bb : Blocks]
  /\ \A x \in Vars : \A i \in DOMAIN var_val_stack[x] : var_val_stack[x][i] \in Operands
  /\ known \subseteq Vars
  /\ Len(frames) <= Cardinality(Blocks)

\* The entry sets every variable, as it does parameters.
SetAtEntry ==
  \A x \in Vars : \E ins \in Range(prog.code[Entry]) : ins.op = "store" /\ ins.var = x

\* It does so before it reads the variable.
SetBeforeRead ==
  \A x \in Vars : \E i \in DOMAIN prog.code[Entry] :
    /\ prog.code[Entry][i].op = "store" /\ prog.code[Entry][i].var = x
    /\ \A j \in 1 .. i : ~(prog.code[Entry][j].op = "load" /\ prog.code[Entry][j].var = x)

\* The assert in re_name holds: a variable that was pushed once still has a
\* value wherever a phi wants one.
AssertHolds == phase # "assert"

\* Neither the assert fails nor is a value taken from an empty stack, in a
\* function that sets its variables at the entry.
NoAbort == SetAtEntry => phase \notin {"assert", "fault"}

\* Along every path, each operand has the value it had when the variables
\* were in memory, unless the program read a variable it never set.
SameObservation ==
  /\ Len(ssa.out) = Len(src.out)
  /\ \A i \in DOMAIN src.out : src.out[i] # Undef => ssa.out[i] = src.out[i]

PredsOf(b) == {a \in Blocks : b \in Range(prog.succ[a])}
PairsFrom(phi, a) == {j \in DOMAIN phi.pairs : phi.pairs[j][2] = a}

\* A phi has at most one pair for each predecessor, none for another block,
\* and at least one: PhiInst::print takes the type from its first operand.  No
\* predecessor is left to undef when every variable is set at the entry.
PhisMatchPredecessors ==
  phase = "done" =>
    \A b \in Blocks : \A phi \in Phis(b) :
      /\ Len(phi.pairs) > 0
      /\ \A a \in Blocks : Cardinality(PairsFrom(phi, a)) <= IF a \in PredsOf(b) THEN 1 ELSE 0
      /\ SetAtEntry => \A a \in PredsOf(b) : PairsFrom(phi, a) # {}

\* A value is there at the end of block b, or before position i of it.
Available(v, b, i) ==
  v[1] = "const" \/
  \E d \in Blocks : \E j \in DOMAIN code[d] :
    /\ code[d][j].def = v
    /\ IF d = b THEN j < i ELSE Dominates(d, b, Entry, Blocks, EdgesOf(prog))

\* SSA form, when the entry sets every variable before it reads it: what is used
\* is defined before it on every path; no load or store is left behind.
DefsDominateUses ==
  phase = "done" /\ SetBeforeRead =>
    \A b \in Blocks : \A i \in DOMAIN code[b] :
      LET ins == code[b][i]
      IN  /\ ins.op \in {"use", "phi"}
          /\ ins.op = "use" => Available(ins.val, b, i)
          /\ \A pair \in Range(ins.pairs) :
               Available(pair[1], pair[2], Len(code[pair[2]]) + 1)

\* Every value pushed is popped: whatever the order of the children, a call
\* leaves the stacks of its caller as it found them.
StacksRestored ==
  phase = "done" => \A x \in Vars : var_val_stack[x] = <<>>

\* In the printed function every value has a name and no two have the same,
\* though the phis are named in a later round than what they stand between.
PrintedNamesUnique == stage = "printed" => Distinct(Values)

\* The work lists of generate_phi run empty and the recursion returns.
Terminates == <>(stage = "printed" \/ phase \in {"assert", "fault"})
=============================================================================
