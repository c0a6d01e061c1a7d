------------------------------- MODULE Mem2Reg -------------------------------
(***************************************************************************)
(* The pass Mem2Reg (optimization/Mem2Reg.cpp) on one function: phi nodes  *)
(* are placed over the dominance frontiers, re_name walks the dominator    *)
(* tree with a stack of values per variable and replaces loads, and the    *)
(* allocas are removed.                                                    *)
(*                                                                         *)
(* A step of re_name is one of its loops, or one instruction of the loop   *)
(* over loads and stores; its recursion is the variable frames.  Sets of   *)
(* pointers are iterated in the order of the addresses, which the program  *)
(* does not determine: where the order matters any is possible.  A failed  *)
(* assert ends in phase "assert", following a wild pointer or walking a    *)
(* use list that grows under the loop in "fault".                          *)
(***************************************************************************)
EXTENDS Integers, Sequences, FlowGraph

CONSTANTS
  Blocks,    \* the basic blocks of the function
  Entry,     \* get_entry_block()
  Vars,      \* its scalar variables, each an alloca: not globals, not GEPs
  Programs   \* the functions considered; see ProgramsAssumption

(***************************************************************************)
(* An instruction has an operation, itself as a value (def), the variable  *)
(* it accesses (get_lval), its value operand (get_rval of a store) and, for *)
(* a phi, its pairs.  "use" stands for every other instruction that takes  *)
(* an operand.  Values are named by triples; <<"const", ...>> is one that  *)
(* no load defines: a constant, or a result computed from uses.            *)
(***************************************************************************)
Ops == {"alloca", "load", "store", "use", "phi"}
NoVar == "none"
NoValue == <<"none", 0, 0>>
Phi(b, x) == [op |-> "phi", def |-> <<"phi", b, x>>, var |-> x, val |-> NoValue,
              pairs |-> <<>>]

\* The names of values, and those that an instruction may take as an operand.
Operands == ({"const", "load"} \X Blocks \X Nat) \union ({"phi"} \X Blocks \X Vars)
ValueNames == Operands \union ({"instr"} \X Blocks \X Nat)

Instructions ==
  [op : Ops, def : ValueNames, var : Vars \union {NoVar}, val : Operands \union {NoValue},
   pairs : Seq(Operands \X Blocks)]

EdgesOf(p) == {e \in Blocks \X Blocks : e[2] \in Range(p.succ[e[1]])}

\* The value v is computed before instruction i of block b on every path to it.
ComputedBefore(p, v, b, i) ==
  \E d \in Blocks : \E j \in DOMAIN p.code[d] :
    /\ p.code[d][j].op = "load" /\ p.code[d][j].def = v
    /\ IF d = b THEN j < i ELSE Dominates(d, b, Entry, Blocks, EdgesOf(p))

\* What the builder emits: loads, stores and allocas of variables, no phi,
\* and no value that is used before it is there or defined twice.
ProperCode(p) ==
  /\ p.code \in [Blocks -> Seq(Instructions)]
  /\ \A b \in Blocks : \A i \in DOMAIN p.code[b] :
       LET ins == p.code[b][i]
       IN  /\ ins.op # "phi" /\ ins.def[1] # "phi" /\ ins.val[1] # "phi" /\ ins.pairs = <<>>
           /\ ins.op = "load" <=> ins.def[1] = "load"
           /\ ins.op \in {"alloca", "load", "store"} => ins.var \in Vars
           /\ ins.op \in {"store", "use"} => ins.val # NoValue
           /\ ins.val[1] = "load" => ComputedBefore(p, ins.val, b, i)
  /\ \A b, d \in Blocks : \A i \in DOMAIN p.code[b], j \in DOMAIN p.code[d] :
       p.code[b][i].def = p.code[d][j].def => b = d /\ i = j

ASSUME BlocksAssumption == IsFiniteSet(Blocks) /\ Entry \in Blocks

\* The graph is as CFGBuilder is shown to make it.  What Dominators computes
\* (ResultCorrect of that module) is part of a program here: df is the
\* dominance frontier, kids the dominator tree.
ASSUME ProgramsAssumption ==
  \A p \in Programs :
    /\ p.succ \in [Blocks -> Seq(Blocks)]
    /\ AllReachableFrom(Entry, Blocks, Blocks, EdgesOf(p))
    /\ \A e \in EdgesOf(p) : e[2] # Entry
    /\ \A b \in Blocks : IsInjective(p.succ[b])
    /\ \A b \in Blocks :
         /\ p.df[b] = DominanceFrontier(b, Entry, Blocks, EdgesOf(p))
         /\ p.kids[b] = {c \in Blocks \ {Entry} :
                           b \in ImmediateDominators(c, Entry, Blocks, EdgesOf(p))}
    /\ ProperCode(p)

VARIABLES
  prog,     \* the function as the builder made it: an element of Programs
  code,     \* instr_list_ of each block, as the pass rewrites it
  phase,
  todo,     \* the work lists of generate_phi: a variable and a block each
  frames,   \* the calls of re_name that have not returned, innermost last
  var_val_stack,
  known     \* the variables that are keys of var_val_stack

vars == <<prog, code, phase, todo, frames, var_val_stack, known>>

Instrs(b) == Range(code[b])
Stores(b) == {ins \in Instrs(b) : ins.op = "store"}
Phis(b) == {ins \in Instrs(b) : ins.op = "phi"}

\* global_live_var_name with live_var_2blocks.  var_is_killed holds variables
\* but is asked for the stored value, which is none: every store counts.
StoredIn == {w \in [var : Vars, bb : Blocks] : \E ins \in Stores(w.bb) : ins.var = w.var}

Init ==
  /\ prog \in Programs
  /\ code = prog.code
  /\ phase = "place"
  /\ todo = StoredIn
  /\ frames = <<>>
  /\ var_val_stack = [x \in Vars |-> <<>>]
  /\ known = {}

(***************************************************************************)
(* generate_phi                                                            *)
(***************************************************************************)
HasPhi(b, x) == \E ins \in Phis(b) : ins.var = x
NeedPhi(w) == {b \in prog.df[w.bb] : ~HasPhi(b, w.var)}

\* Mutant of PlacePhis: the blocks that get phis do not join the list.
PlacePhisOnce ==
  /\ phase = "place"
  /\ \E w \in todo :
       /\ code' = [b \in Blocks |-> IF b \in NeedPhi(w) THEN <<Phi(b, w.var)>> \o code[b]
                                    ELSE code[b]]
       /\ todo' = todo \ {w}
  /\ UNCHANGED <<prog, phase, frames, var_val_stack, known>>

\* Mutant of PlacePhis: the frontier joins the list though it has its phis.
PlacePhisRequeue ==
  /\ phase = "place"
  /\ \E w \in todo :
       /\ code' = [b \in Blocks |-> IF b \in NeedPhi(w) THEN <<Phi(b, w.var)>> \o code[b]
                                    ELSE code[b]]
       /\ todo' = (todo \ {w}) \union [var : {w.var}, bb : prog.df[w.bb]]
  /\ UNCHANGED <<prog, phase, frames, var_val_stack, known>>

\* One element of a work list: its frontier gets phis and joins the list.
PlacePhis ==
  /\ phase = "place"
  /\ \E w \in todo :
       /\ code' = [b \in Blocks |-> IF b \in NeedPhi(w) THEN <<Phi(b, w.var)>> \o code[b]
                                    ELSE code[b]]
       /\ todo' = (todo \ {w}) \union [var : {w.var}, bb : NeedPhi(w)]
  /\ UNCHANGED <<prog, phase, frames, var_val_stack, known>>

(***************************************************************************)
(* re_name                                                                 *)
(***************************************************************************)
\* A call: the loop it is in, its position there, the children of its block
\* in the dominator tree still to visit, and the values or stores to delete.
Call(b) == [bb |-> b, at |-> "phis", i |-> 1, kids |-> prog.kids[b], wait |-> {}]

Top == Last(frames)
SetTop(f) == frames' = Append(Front(frames), f)
Renaming(loop) == phase = "rename" /\ frames # <<>> /\ Top.at = loop

Push(stack, x, v) == [stack EXCEPT ![x] = Append(@, v)]

StartRename ==
  /\ phase = "place" /\ todo = {}
  /\ phase' = "rename"
  /\ frames' = <<Call(Entry)>>
  /\ UNCHANGED <<prog, code, todo, var_val_stack, known>>

\* A block has one phi per variable, so that their order makes no difference.
PushPhis ==
  /\ Renaming("phis")
  /\ var_val_stack' = [x \in Vars |-> var_val_stack[x] \o
                         (IF HasPhi(Top.bb, x) THEN <<Phi(Top.bb, x).def>> ELSE <<>>)]
  /\ known' = known \union {ins.var : ins \in Phis(Top.bb)}
  /\ SetTop([Top EXCEPT !.at = "instrs"])
  /\ UNCHANGED <<prog, code, phase, todo>>

Instr == code[Top.bb][Top.i]
AtInstr(ops) == Renaming("instrs") /\ Top.i <= Len(code[Top.bb]) /\ Instr.op \in ops
NextInstr(waiting) ==
  SetTop([Top EXCEPT !.i = @ + 1, !.wait = @ \union (IF waiting THEN {Instr.def} ELSE {})])

\* replace_all_use_with: every operand that is the value old becomes new.
Redirect(ins, old, new) ==
  [ins EXCEPT !.val = IF @ = old THEN new ELSE @,
              !.pairs = [j \in DOMAIN @ |-> IF @[j][1] = old THEN <<new, @[j][2]>> ELSE @[j]]]
ReplaceAllUses(old, new) ==
  [b \in Blocks |-> [i \in DOMAIN code[b] |-> Redirect(code[b][i], old, new)]]
HasUses(v) == \E b \in Blocks : \E ins \in Instrs(b) :
                 ins.val = v \/ \E j \in DOMAIN ins.pairs : ins.pairs[j][1] = v

\* Mutant of ReplaceLoad: the load is not deleted.
ReplaceLoadKept ==
  /\ AtInstr({"load"}) /\ Instr.var \in known
  /\ var_val_stack[Instr.var] # <<>>
  /\ code' = ReplaceAllUses(Instr.def, Last(var_val_stack[Instr.var]))
  /\ NextInstr(FALSE)
  /\ UNCHANGED <<prog, phase, todo, var_val_stack, known>>

ReplaceLoad ==
  /\ AtInstr({"load"}) /\ Instr.var \in known
  /\ IF var_val_stack[Instr.var] # <<>> /\ Last(var_val_stack[Instr.var]) # Instr.def
     THEN /\ code' = ReplaceAllUses(Instr.def, Last(var_val_stack[Instr.var]))
          /\ UNCHANGED phase
     ELSE \* back() of an empty vector is a wild pointer if it is followed,
          \* and a value that replaces itself extends the list it walks
          /\ phase' = IF HasUses(Instr.def) THEN "fault" ELSE phase
          /\ UNCHANGED code
  /\ NextInstr(TRUE)
  /\ UNCHANGED <<prog, todo, var_val_stack, known>>

\* No value has been pushed for the variable: the load stays.
KeepLoad ==
  /\ AtInstr({"load"}) /\ Instr.var \notin known
  /\ NextInstr(FALSE)
  /\ UNCHANGED <<prog, code, phase, todo, var_val_stack, known>>

\* Mutant of PushStore: the store is pushed, as PushPhis does with a phi.
PushStoreInstr ==
  /\ AtInstr({"store"})
  /\ var_val_stack' = Push(var_val_stack, Instr.var, Instr.def)
  /\ known' = known \union {Instr.var}
  /\ NextInstr(TRUE)
  /\ UNCHANGED <<prog, code, phase, todo>>

PushStore ==
  /\ AtInstr({"store"})
  /\ var_val_stack' = Push(var_val_stack, Instr.var, Instr.val)
  /\ known' = known \union {Instr.var}
  /\ NextInstr(TRUE)
  /\ UNCHANGED <<prog, code, phase, todo>>

SkipInstr ==
  /\ AtInstr({"alloca", "use", "phi"})
  /\ NextInstr(FALSE)
  /\ UNCHANGED <<prog, code, phase, todo, var_val_stack, known>>

InstrsDone ==
  /\ Renaming("instrs") /\ Top.i > Len(code[Top.bb])
  /\ SetTop([Top EXCEPT !.at = "succs", !.i = 1])
  /\ UNCHANGED <<prog, code, phase, todo, var_val_stack, known>>

\* Mutant of Filled: the pair names succ_bb, the block of the phi, for bb.
FilledSuccBlock(ins) ==
  IF ins.op = "phi" /\ ins.var \in known
  THEN [ins EXCEPT !.pairs = Append(@, <<Last(var_val_stack[ins.var]), ins.def[2]>>)]
  ELSE ins

\* The pairs of the phis of the next successor; where the variable is not
\* known the pair is left out, which stands for undef.
Filled(ins) ==
  IF ins.op = "phi" /\ ins.var \in known
  THEN [ins EXCEPT !.pairs = Append(@, <<Last(var_val_stack[ins.var]), Top.bb>>)]
  ELSE ins

FillPhis ==
  /\ Renaming("succs") /\ Top.i <= Len(prog.succ[Top.bb])
  /\ LET s == prog.succ[Top.bb][Top.i]
     IN  IF \E ins \in Phis(s) : ins.var \in known /\ var_val_stack[ins.var] = <<>>
         THEN \* assert(var_val_stack[l_val].size()!=0)
              phase' = "assert" /\ UNCHANGED code
         ELSE /\ code' = [code EXCEPT ![s] = [i \in DOMAIN @ |-> Filled(@[i])]]
              /\ UNCHANGED phase
  /\ SetTop([Top EXCEPT !.i = @ + 1])
  /\ UNCHANGED <<prog, todo, var_val_stack, known>>

SuccsDone ==
  /\ Renaming("succs") /\ Top.i > Len(prog.succ[Top.bb])
  /\ SetTop([Top EXCEPT !.at = "kids"])
  /\ UNCHANGED <<prog, code, phase, todo, var_val_stack, known>>

EnterChild ==
  /\ Renaming("kids")
  /\ \E b \in Top.kids :
       frames' = Append(Append(Front(frames), [Top EXCEPT !.kids = @ \ {b}]), Call(b))
  /\ UNCHANGED <<prog, code, phase, todo, var_val_stack, known>>

\* Mutant of Defined: phis are not popped.
DefinedStores(b, x) ==
  Cardinality({i \in DOMAIN code[b] : code[b][i].op = "store" /\ code[b][i].var = x})

\* Mutant of Defined: loads pop too.
DefinedAccesses(b, x) == Cardinality({i \in DOMAIN code[b] : code[b][i].var = x})

\* The definitions of x that the block has pushed.
Defined(b, x) ==
  Cardinality({i \in DOMAIN code[b] : code[b][i].op \in {"store", "phi"} /\ code[b][i].var = x})

\* The elements of s that are in the set K, in their order: SelectSeq, as a
\* function that a proof can unfold.
Kept(s, K) ==
  LET kept[i \in 0 .. Len(s)] ==
        IF i = 0 THEN <<>>
        ELSE IF s[i] \in K THEN Append(kept[i - 1], s[i]) ELSE kept[i - 1]
  IN  kept[Len(s)]

\* The block pops what it pushed, deletes what waits, and the call returns.
Leave ==
  /\ Renaming("kids") /\ Top.kids = {}
  /\ var_val_stack' = [x \in Vars |->
       SubSeq(var_val_stack[x], 1, Len(var_val_stack[x]) - Defined(Top.bb, x))]
  /\ code' = [code EXCEPT ![Top.bb] = Kept(@, {ins \in Range(@) : ins.def \notin Top.wait})]
  /\ frames' = Front(frames)
  /\ UNCHANGED <<prog, phase, todo, known>>

(***************************************************************************)
(* remove_alloca                                                           *)
(***************************************************************************)
RemoveAlloca ==
  /\ phase = "rename" /\ frames = <<>>
  /\ code' = [b \in Blocks |-> Kept(code[b], {ins \in Instrs(b) : ins.op # "alloca"})]
  /\ phase' = "done"
  /\ UNCHANGED <<prog, todo, frames, var_val_stack, known>>

Next ==
  \/ PlacePhis
  \/ StartRename \/ PushPhis \/ ReplaceLoad \/ KeepLoad \/ PushStore \/ SkipInstr
  \/ InstrsDone \/ FillPhis \/ SuccsDone \/ EnterChild \/ Leave
  \/ RemoveAlloca

Spec == Init /\ [][Next]_vars
=============================================================================
