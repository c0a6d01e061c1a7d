------------------------------ MODULE Execution ------------------------------
(***************************************************************************)
(* A run of the LightIR of a module: what clang makes of the .ll file, and *)
(* the runtime library (io/io.c).  The effect of an instruction is LLVM's; *)
(* one step executes one instruction.  Ints are small enough not to wrap;  *)
(* a float is a number of 1/FloatUnit, and the programs keep to floats     *)
(* that are exact.  Memory is a sequence of cells sequences; a pointer is  *)
(* a pair of a number in it and an offset.                                 *)
(***************************************************************************)
EXTENDS LightIR, TLC

CONSTANTS FloatOne, Inputs

VARIABLES
  calls,    \* the active functions: block, position, registers, arguments
  memory,
  unread,   \* what input() has not read yet
  output    \* what output, outputFloat and neg_idx_except printed

runVars == <<calls, memory, unread, output>>

Garbage == 99      \* what memory holds before the first store; no program reads it

\* Division and conversion to int round towards zero.
Quotient(a, b) == LET q == IF b > 0 THEN a \div b ELSE (-a) \div (-b)
                  IN  IF q < 0 /\ q * b # a THEN q + 1 ELSE q

BinaryOp(op, a, b) ==
  CASE op \in {"add", "fadd"} -> a + b
    [] op \in {"sub", "fsub"} -> a - b
    [] op = "mul" -> a * b
    [] op = "sdiv" -> Quotient(a, b)
    [] op = "fmul" -> (a * b) \div FloatOne
    [] op = "fdiv" -> Quotient(a * FloatOne, b)

Compare(pred, a, b) == CASE pred = "lt" -> a < b [] pred = "le" -> a <= b
                         [] pred = "gt" -> a > b [] pred = "ge" -> a >= b
                         [] pred = "eq" -> a = b [] pred = "ne" -> a # b

call == Last(calls)
Running == calls # <<>>
instr(mod) == mod.blocks[call.block].code[call.at]

\* Has every operand of the next instruction a value in this activation?
OperandsReady(mod) ==
  /\ call.at \in DOMAIN mod.blocks[call.block].code
  /\ \A i \in DOMAIN instr(mod).operands :
       LET v == instr(mod).operands[i] IN v.k = "inst" => v.x \in DOMAIN call.regs

OperandValue(v) == CASE v.k = "const" -> v.x
                     [] v.k = "inst" -> call.regs[v.x]
                     [] v.k = "arg" -> call.args[v.x]
                     [] v.k = "global" -> <<v.x, 0>>

Zeros(ty) == IF is_array_type(ty) THEN [i \in 1 .. ty[3] |-> 0] ELSE <<0>>
Fresh(ty) == IF is_array_type(ty) THEN [i \in 1 .. ty[3] |-> Garbage] ELSE <<Garbage>>

Activation(block, args) == [block |-> block, at |-> 1, regs |-> <<>>, args |-> args]
EntryBlock(mod, f) == CHOOSE b \in DOMAIN mod.blocks :
  /\ mod.blocks[b].fn = f
  /\ \A c \in DOMAIN mod.blocks : mod.blocks[c].fn = f => b <= c

\* The last function of a program is main.
StartRun(mod) ==
  /\ calls' = <<Activation(EntryBlock(mod, Len(mod.functions)), <<>>)>>
  /\ memory' = [i \in DOMAIN mod.globals |-> Zeros(mod.globals[i])]
  /\ unread' = Inputs
  /\ output' = <<>>

\* The register of the instruction is set and control moves past it.
Result(mod, v) == [call EXCEPT !.at = @ + 1, !.regs = (instr(mod).id :> v) @@ @]
Continue(activation) == calls' = Append(Front(calls), activation)

Compute(mod) ==
  LET i == instr(mod)
      a == OperandValue(i.operands[1])
      b == OperandValue(i.operands[2])
      Step(v) == Continue(Result(mod, v))
  IN
  /\ \/ /\ i.op \in {"add", "sub", "mul", "sdiv", "fadd", "fsub", "fmul", "fdiv"}
        /\ Step(BinaryOp(i.op, a, b))
     \/ i.op \in {"icmp", "fcmp"} /\ Step(IF Compare(i.pred, a, b) THEN 1 ELSE 0)
     \/ i.op = "zext" /\ Step(a)
     \/ i.op = "sitofp" /\ Step(a * FloatOne)
     \/ i.op = "fptosi" /\ Step(Quotient(a, FloatOne))
     \/ i.op = "getelementptr" /\ Step(<<a[1], a[2] + OperandValue(Last(i.operands))>>)
     \/ i.op = "load" /\ Step(memory[a[1]][a[2] + 1])
  /\ UNCHANGED <<memory, unread, output>>

Access(mod) ==
  LET i == instr(mod) IN
  /\ \/ /\ i.op = "alloca"
        /\ memory' = Append(memory, Fresh(get_element_type(i.ty)))
        /\ Continue(Result(mod, <<Len(memory) + 1, 0>>))
     \/ /\ i.op = "store"
        /\ LET p == OperandValue(i.operands[2])
           IN  memory' = [memory EXCEPT ![p[1]][p[2] + 1] = OperandValue(i.operands[1])]
        /\ Continue([call EXCEPT !.at = @ + 1])
  /\ UNCHANGED <<unread, output>>

Branch(mod) ==
  LET i == instr(mod) IN
  /\ i.op = "br"
  /\ Continue([call EXCEPT !.at = 1, !.block =
       IF Len(i.to) = 1 \/ OperandValue(i.operands[1]) = 1 THEN i.to[1] ELSE i.to[2]])
  /\ UNCHANGED <<memory, unread, output>>

CallFunction(mod) ==
  LET i == instr(mod)
      f == i.operands[1].x
      args == [n \in 1 .. Len(i.operands) - 1 |-> OperandValue(i.operands[n + 1])]
  IN
  /\ i.op = "call" /\ f > 4
  /\ calls' = Append(calls, Activation(EntryBlock(mod, f), args))
  /\ UNCHANGED <<memory, unread, output>>

\* The caller goes on after its call, unless main has returned.
Return(mod) ==
  LET i == instr(mod)
      back == Front(calls)
      caller == Last(back)
      callee == mod.blocks[caller.block].code[caller.at]
      v == IF i.operands = <<>> THEN Garbage ELSE OperandValue(i.operands[1])
  IN
  /\ i.op = "ret"
  /\ calls' = IF back = <<>> THEN <<>>
              ELSE Append(Front(back), [caller EXCEPT !.at = @ + 1,
                                                      !.regs = (callee.id :> v) @@ @])
  /\ UNCHANGED <<memory, unread, output>>

(***************************************************************************)
(* io.c                                                                    *)
(***************************************************************************)
CallsRuntime(mod, name) ==
  instr(mod).op = "call" /\ mod.functions[instr(mod).operands[1].x].name = name
                         /\ instr(mod).operands[1].x <= 4

input(mod) ==
  /\ CallsRuntime(mod, "input")
  /\ unread # <<>>
  /\ unread' = Tail(unread)
  /\ Continue(Result(mod, Head(unread)))
  /\ UNCHANGED <<memory, output>>

print(mod) ==
  /\ CallsRuntime(mod, "output") \/ CallsRuntime(mod, "outputFloat")
  /\ output' = Append(output, <<IF CallsRuntime(mod, "output") THEN "int" ELSE "float",
                               OperandValue(instr(mod).operands[2])>>)
  /\ Continue([call EXCEPT !.at = @ + 1])
  /\ UNCHANGED <<memory, unread>>

neg_idx_except(mod) ==
  /\ CallsRuntime(mod, "neg_idx_except")
  /\ output' = Append(output, <<"negative index exception", 0>>)
  /\ calls' = <<>>
  /\ UNCHANGED <<memory, unread>>

Step(mod) ==
  /\ Running /\ OperandsReady(mod)
  /\ \/ Compute(mod) \/ Access(mod) \/ Branch(mod) \/ CallFunction(mod) \/ Return(mod)
     \/ input(mod) \/ print(mod) \/ neg_idx_except(mod)
=============================================================================
