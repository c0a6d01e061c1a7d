------------------------------- MODULE LightIR -------------------------------
(***************************************************************************)
(* LightIR as CminusfBuilder sees it (lightir/Type.cpp, Module.cpp,        *)
(* Instruction.cpp, include/lightir/IRBuilder.h): types, values, and the   *)
(* create_ functions that append an instruction at the insertion point.    *)
(*                                                                         *)
(* A module under construction is one record m.  m.made is the value the   *)
(* last create_ function returned; m.ok turns FALSE where an assertion     *)
(* fails or a null pointer is followed, and the compiler aborts.           *)
(* Names, def-use lists and the edges of the flow graph are in other       *)
(* modules (UseDef, CFGBuilder).                                           *)
(***************************************************************************)
EXTENDS Integers, Sequences, SequencesExt

(***************************************************************************)
(* Types.  Module hands out one object for each type, so that comparing    *)
(* pointers, as the code does, is comparing types.                         *)
(***************************************************************************)
VoidType == <<"void">>
Int1Type == <<"i1">>
Int32Type == <<"i32">>
FloatType == <<"float">>
NullType == <<"null">>                     \* get_pointer_element_type's nullptr
PointerType(ty) == <<"ptr", ty>>
ArrayType(ty, n) == <<"array", ty, n>>
FunctionType(ret, params) == <<"fn", ret, params>>

is_void_type(ty) == ty[1] = "void"
is_integer_type(ty) == ty[1] \in {"i1", "i32"}
is_float_type(ty) == ty[1] = "float"
is_array_type(ty) == ty[1] = "array"
is_pointer_type(ty) == ty[1] = "ptr"
get_element_type(ty) == ty[2]
get_pointer_element_type(ty) == IF is_pointer_type(ty) THEN ty[2] ELSE NullType
get_return_type(ty) == ty[2]
get_params(ty) == ty[3]

is_valid_return_type(ty) == is_integer_type(ty) \/ is_void_type(ty) \/ is_float_type(ty)
is_valid_argument_type(ty) == is_integer_type(ty) \/ is_pointer_type(ty) \/ is_float_type(ty)
is_valid_element_type(ty) == is_integer_type(ty) \/ is_array_type(ty) \/ is_float_type(ty)

(***************************************************************************)
(* Values: x is the number of a constant, an instruction, an argument, a   *)
(* global variable or a function.                                          *)
(***************************************************************************)
Value(k, ty, x) == [k |-> k, ty |-> ty, x |-> x]
NullValue == Value("null", NullType, 0)
Constant(ty, n) == Value("const", ty, n)   \* ConstantInt, ConstantFP, ConstantZero
Argument(ty, i) == Value("arg", ty, i)

EmptyModule ==
  [functions |-> <<>>,   \* name and FunctionType of each
   globals |-> <<>>,     \* the type of each global variable
   blocks |-> <<>>,      \* function and instructions of each basic block
   BB_ |-> 0,            \* the insertion point
   count |-> 0,          \* instructions made so far
   made |-> NullValue, ok |-> TRUE]

assert(m, condition) == [m EXCEPT !.ok = @ /\ condition]

create_function(m, name, ty) ==
  LET made == [m EXCEPT !.functions = Append(@, [name |-> name, ty |-> ty]),
                        !.made = Value("fn", ty, Len(m.functions) + 1)]
  IN  assert(made, /\ is_valid_return_type(get_return_type(ty))
                   /\ \A i \in DOMAIN get_params(ty) : is_valid_argument_type(get_params(ty)[i]))

create_global(m, ty) ==
  [m EXCEPT !.globals = Append(@, ty),
            !.made = Value("global", PointerType(ty), Len(m.globals) + 1)]

\* BasicBlock::create; the new block is Len(m.blocks) of the result.
create_block(m, function) == [m EXCEPT !.blocks = Append(@, [fn |-> function, code |-> <<>>])]
set_insert_point(m, b) == [m EXCEPT !.BB_ = b]

\* get_insert_block()->get_parent(), and its terminator.
CurrentFunction(m) == m.blocks[m.BB_].fn
get_terminator(m) ==
  LET code == m.blocks[m.BB_].code
  IN  IF code # <<>> /\ Last(code).op \in {"ret", "br"} THEN Last(code).op ELSE "nullptr"

(***************************************************************************)
(* Instructions.                                                           *)
(***************************************************************************)
\* Instruction::Instruction: the block gets the instruction, the caller its value.
Emit(m, op, pred, ty, operands, to) ==
  [m EXCEPT !.count = @ + 1,
            !.made = Value("inst", ty, m.count + 1),
            !.blocks[m.BB_].code =
               Append(@, [id |-> m.count + 1, op |-> op, pred |-> pred, ty |-> ty,
                          operands |-> operands, to |-> to])]

create_binary(m, op, l, r) ==
  Emit(m, op, "", IF op \in {"add", "sub", "mul", "sdiv"} THEN Int32Type ELSE FloatType,
       <<l, r>>, <<>>)
create_icmp(m, pred, l, r) == Emit(m, "icmp", pred, Int1Type, <<l, r>>, <<>>)
create_fcmp(m, pred, l, r) == Emit(m, "fcmp", pred, Int1Type, <<l, r>>, <<>>)

create_call(m, function, args) ==
  IF function.k # "fn" THEN assert(m, FALSE)
  ELSE assert(Emit(m, "call", "", get_return_type(function.ty), <<function>> \o args, <<>>),
              Len(get_params(function.ty)) = Len(args))

create_br(m, b) == Emit(m, "br", "", VoidType, <<>>, <<b>>)
create_cond_br(m, condition, ifTrue, ifFalse) ==
  Emit(m, "br", "", VoidType, <<condition>>, <<ifTrue, ifFalse>>)
create_ret(m, v) == Emit(m, "ret", "", VoidType, <<v>>, <<>>)
create_void_ret(m) == Emit(m, "ret", "", VoidType, <<>>, <<>>)

\* The type a gep points to: each index but the first goes into an array.
ElementType(ptr, indices) ==
  LET ty == get_pointer_element_type(ptr.ty)
  IN  IF is_array_type(ty) /\ Len(indices) > 1 THEN get_element_type(ty) ELSE ty

create_gep(m, ptr, indices) ==
  LET ty == get_pointer_element_type(ptr.ty)
  IN  assert(Emit(m, "getelementptr", "", PointerType(ElementType(ptr, indices)),
                  <<ptr>> \o indices, <<>>),
             /\ is_array_type(ty) \/ is_integer_type(ty) \/ is_float_type(ty)
             /\ is_array_type(ty) /\ Len(indices) > 2 => is_array_type(get_element_type(ty)))

create_store(m, v, ptr) == Emit(m, "store", "", VoidType, <<v, ptr>>, <<>>)
create_load(m, ptr) ==
  assert(Emit(m, "load", "", get_pointer_element_type(ptr.ty), <<ptr>>, <<>>),
         is_pointer_type(ptr.ty))
create_alloca(m, ty) == Emit(m, "alloca", "", PointerType(ty), <<>>, <<>>)
create_zext(m, v, ty) == Emit(m, "zext", "", ty, <<v>>, <<>>)
create_sitofp(m, v, ty) == Emit(m, "sitofp", "", ty, <<v>>, <<>>)
create_fptosi(m, v, ty) == Emit(m, "fptosi", "", ty, <<v>>, <<>>)

(***************************************************************************)
(* The typing of instructions that LLVM demands (Documentations/common/    *)
(* LightIR.md): what no constructor checks, and clang refuses.             *)
(***************************************************************************)
WellTyped(m, b, i) ==
  LET Ty(n) == i.operands[n].ty
      Operands(tys) == Len(i.operands) = Len(tys) /\ \A n \in DOMAIN tys : Ty(n) = tys[n]
  IN
  CASE i.op \in {"add", "sub", "mul", "sdiv"} -> Operands(<<Int32Type, Int32Type>>)
    [] i.op \in {"fadd", "fsub", "fmul", "fdiv", "fcmp"} -> Operands(<<FloatType, FloatType>>)
    [] i.op = "icmp" -> Operands(<<Int32Type, Int32Type>>)
    [] i.op = "call" -> Operands(<<Ty(1)>> \o get_params(Ty(1)))
    [] i.op = "br" -> i.operands = <<>> \/ Operands(<<Int1Type>>)
    [] i.op = "ret" -> LET ty == get_return_type(m.functions[m.blocks[b].fn].ty)
                       IN  Operands(IF is_void_type(ty) THEN <<>> ELSE <<ty>>)
    [] i.op = "getelementptr" ->
         is_pointer_type(Ty(1)) /\ \A n \in 2 .. Len(i.operands) : Ty(n) = Int32Type
    [] i.op = "store" -> Ty(2) = PointerType(Ty(1))
    [] i.op = "load" -> Ty(1) = PointerType(i.ty)
    [] i.op = "alloca" -> ~is_void_type(get_element_type(i.ty))
    [] i.op = "zext" -> Operands(<<Int1Type>>) /\ i.ty = Int32Type
    [] i.op = "sitofp" -> Operands(<<Int32Type>>) /\ i.ty = FloatType
    [] i.op = "fptosi" -> Operands(<<FloatType>>) /\ i.ty = Int32Type
=============================================================================
