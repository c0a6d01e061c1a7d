---------------------------- MODULE CminusfBuilder ----------------------------
(***************************************************************************)
(* CminusfBuilder (cminusfc/cminusf_builder.cpp): how one program's AST    *)
(* becomes LightIR.  The visit methods under way are the variable stack,   *)
(* innermost last; the methods hand values to each other through the       *)
(* global variables Res, arg and need_as_address.  An action is what a     *)
(* visit method does from one accept of a child to the next.               *)
(*                                                                         *)
(* CFGBuilder models the statements alone, for all function bodies; here   *)
(* expressions, types, scopes and instructions are modelled too, for any   *)
(* programs made of Nodes.                                                 *)
(***************************************************************************)
EXTENDS FiniteSets, LightIR, Scope

CONSTANT Nodes    \* nodes of abstract syntax trees (module AST)

(***************************************************************************)
(* What the classes of include/ast.hpp say of the children of a node: how  *)
(* many a visitor finds, and the classes of the i-th.                      *)
(***************************************************************************)
StatementClasses ==
  {"compound-stmt", "expression-stmt", "selection-stmt", "iteration-stmt", "return-stmt"}
ExpressionClasses ==   \* ASTFactor, of which ASTExpression is a subclass
  {"assign-expression", "simple-expression", "var", "num", "call"}

KidCount(n) ==
  CASE n.k \in {"program", "compound-stmt", "call"} -> Nat
    [] n.k = "fun-declaration" -> Nat \ {0}
    [] n.k \in {"var-declaration", "expression-stmt", "return-stmt", "var"} -> 0 .. 1
    [] n.k \in {"simple-expression", "additive-expression", "term"} -> 1 .. 2
    [] n.k \in {"assign-expression", "iteration-stmt"} -> {2}
    [] n.k = "selection-stmt" -> 2 .. 3
    [] n.k \in {"num", "param"} -> {0}

KidClasses(n, i) ==
  CASE n.k = "program" -> {"var-declaration", "fun-declaration"}
    [] n.k = "var-declaration" -> {"num"}
    [] n.k = "fun-declaration" -> IF i < Len(n.kids) THEN {"param"} ELSE {"compound-stmt"}
    [] n.k = "compound-stmt" -> {"var-declaration"} \union StatementClasses
    [] n.k \in {"selection-stmt", "iteration-stmt"} ->
         IF i = 1 THEN ExpressionClasses ELSE StatementClasses
    [] n.k = "assign-expression" -> IF i = 1 THEN {"var"} ELSE ExpressionClasses
    [] n.k \in {"expression-stmt", "return-stmt", "var", "call"} -> ExpressionClasses
    [] OTHER -> ExpressionClasses \union {"additive-expression", "term"}

WellFormed(nodes) ==
  \A n \in nodes : /\ n.kids \in Seq(nodes) /\ Len(n.kids) \in KidCount(n)
                   /\ \A i \in DOMAIN n.kids : n.kids[i].k \in KidClasses(n, i)

ASSUME NodesAssumption == WellFormed(Nodes)

VARIABLES
  stack,            \* frames of the visit methods
  Res,              \* the value of the last expression visited
  arg,              \* the argument the next Param stores
  need_as_address,  \* must the next Var give its address, not its value?
  scope,
  m                 \* the module, with the builder's insertion point

builderVars == <<stack, Res, arg, need_as_address, scope, m>>

(***************************************************************************)
(* A frame: the node, how far its method is, and its local variables: the  *)
(* flag should_return_lvalue, values and basic blocks.                     *)
(***************************************************************************)
Frame(n) == [node |-> n, pc |-> 0, lvalue |-> FALSE, vals |-> <<>>, bbs |-> <<>>]

top == Last(stack)
kids == top.node.kids
Visiting(k) == stack # <<>> /\ top.node.k = k

\* The method of frame f calls accept on n, which dispatches on the class of n.
Accept(f, n) == stack' = Front(stack) \o <<[f EXCEPT !.pc = @ + 1], Frame(n)>>
Proceed(f) == stack' = Append(Front(stack), [f EXCEPT !.pc = @ + 1])
Leave == stack' = Front(stack)

\* A null pointer is followed, or a value cast to a class it is not of.
Crash == m' = assert(m, FALSE) /\ UNCHANGED <<stack, Res, arg, need_as_address, scope>>

LowType(ty) == CASE ty = "int" -> Int32Type [] ty = "float" -> FloatType [] ty = "void" -> VoidType

IntConstant(n) == Constant(Int32Type, n)
checkInt(v) == is_integer_type(v.ty)
checkFloat(v) == is_float_type(v.ty)

(***************************************************************************)
(* The constructor: the predefined functions.                              *)
(***************************************************************************)
Predefined == << [name |-> "input", ty |-> FunctionType(Int32Type, <<>>)],
                 [name |-> "output", ty |-> FunctionType(VoidType, <<Int32Type>>)],
                 [name |-> "outputFloat", ty |-> FunctionType(VoidType, <<FloatType>>)],
                 [name |-> "neg_idx_except", ty |-> FunctionType(VoidType, <<>>)] >>

NewModule ==
  FoldLeft(LAMBDA mod, f : create_function(mod, f.name, f.ty), EmptyModule, Predefined)
NewScope ==
  LET Declared(s, i) == push(s, Predefined[i].name, Value("fn", Predefined[i].ty, i))
  IN  Declared(Declared(Declared(Declared(enter(<<>>), 1), 2), 3), 4)

BuilderInit ==
  /\ stack = <<>> /\ Res = NullValue /\ arg = NullValue /\ need_as_address = FALSE
  /\ scope = NewScope /\ m = NewModule

(***************************************************************************)
(* Declarations.                                                           *)
(***************************************************************************)
VisitProgram ==
  /\ Visiting("program")
  /\ IF top.pc < Len(kids) THEN Accept(top, kids[top.pc + 1]) ELSE Leave
  /\ UNCHANGED <<Res, arg, need_as_address, scope, m>>

VisitVarDeclaration ==
  /\ Visiting("var-declaration")
  /\ LET element == LowType(top.node.ty)
         ty == IF kids = <<>> THEN element ELSE ArrayType(element, kids[1].val)
     IN  /\ m' = assert(IF in_global(scope) THEN create_global(m, ty) ELSE create_alloca(m, ty),
                        kids # <<>> => is_valid_element_type(element))
         /\ scope' = push(scope, top.node.id, m'.made)
  /\ Leave
  /\ UNCHANGED <<Res, arg, need_as_address>>

ParamType(p) == IF p.op = "[]" THEN PointerType(LowType(p.ty)) ELSE LowType(p.ty)

\* The return that a function body without one gets.
FinalReturn(mod) ==
  LET ty == get_return_type(mod.functions[CurrentFunction(mod)].ty)
  IN  IF get_terminator(mod) # "nullptr" THEN mod
      ELSE IF is_void_type(ty) THEN create_void_ret(mod)
      ELSE create_ret(mod, Constant(IF is_float_type(ty) THEN FloatType ELSE Int32Type, 0))

VisitFunDeclaration ==
  /\ Visiting("fun-declaration")
  /\ \/ /\ top.pc = 0
        /\ LET params == Front(kids)
               ty == FunctionType(LowType(top.node.ty),
                                  [i \in DOMAIN params |-> ParamType(params[i])])
               m1 == create_function(m, top.node.id, ty)
               m2 == create_block(m1, Len(m1.functions))
           IN  /\ m' = set_insert_point(m2, Len(m2.blocks))
               /\ scope' = enter(push(scope, top.node.id, m1.made))
               /\ Proceed([top EXCEPT !.vals =
                    [i \in DOMAIN params |-> Argument(ParamType(params[i]), i)]])
        /\ UNCHANGED arg
     \/ /\ top.pc \in DOMAIN kids
        /\ Accept(top, kids[top.pc])
        /\ arg' = IF top.pc < Len(kids) THEN top.vals[top.pc] ELSE arg
        /\ UNCHANGED <<scope, m>>
     \/ /\ top.pc > Len(kids)
        /\ m' = FinalReturn(m)
        /\ scope' = exit(scope)
        /\ Leave
        /\ UNCHANGED arg
  /\ UNCHANGED <<Res, need_as_address>>

VisitParam ==
  /\ Visiting("param")
  /\ LET m1 == create_alloca(m, ParamType(top.node))
     IN  /\ m' = create_store(m1, arg, m1.made)
         /\ scope' = push(scope, top.node.id, m1.made)
  /\ Leave
  /\ UNCHANGED <<Res, arg, need_as_address>>

(***************************************************************************)
(* Statements.                                                             *)
(***************************************************************************)
VisitCompoundStmt ==
  /\ Visiting("compound-stmt")
  /\ \/ top.pc = 0 /\ scope' = enter(scope) /\ Proceed(top)
     \/ top.pc \in DOMAIN kids /\ Accept(top, kids[top.pc]) /\ UNCHANGED scope
     \/ top.pc > Len(kids) /\ scope' = exit(scope) /\ Leave
  /\ UNCHANGED <<Res, arg, need_as_address, m>>

VisitExpressionStmt ==
  /\ Visiting("expression-stmt")
  /\ IF top.pc < Len(kids) THEN Accept(top, kids[1]) ELSE Leave
  /\ UNCHANGED <<Res, arg, need_as_address, scope, m>>

\* TrueFalse: is the condition greater than zero?
TrueFalse(mod, v) ==
  IF checkInt(v) THEN create_icmp(mod, "gt", v, Constant(Int32Type, 0))
  ELSE IF checkFloat(v) THEN create_fcmp(mod, "gt", v, Constant(FloatType, 0))
  ELSE assert(mod, FALSE)

\* Two new blocks, and the branch to them on the condition.
BranchTo(mod, condition, ifTrue, ifFalse) ==
  create_cond_br(TrueFalse(mod, condition), TrueFalse(mod, condition).made, ifTrue, ifFalse)

\* MUTANT of BrUnlessEnded: the branch is forgotten.
BrUnlessEndedNever(mod, target) == mod

\* br to target, if the insertion block has no terminator.
BrUnlessEnded(mod, target) ==
  IF get_terminator(mod) = "nullptr" THEN create_br(mod, target) ELSE mod

\* After both branches: a block is made to join them unless the else branch
\* has ended, and the insertion point stays where the else branch left it.
JoinBranches(mod, curTrueBB, curFalseBB) ==
  IF get_terminator(mod) # "nullptr" THEN mod
  ELSE LET m1 == create_block(mod, CurrentFunction(mod))
           m2 == create_br(set_insert_point(m1, curTrueBB), Len(m1.blocks))
       IN  create_br(set_insert_point(m2, curFalseBB), Len(m1.blocks))

VisitSelectionStmt ==
  /\ Visiting("selection-stmt")
  /\ \/ top.pc = 0 /\ Accept(top, kids[1]) /\ UNCHANGED m
     \/ \* the condition is in Res: "true" and "false", or "true" and "ret"
        /\ top.pc = 1
        /\ LET f == CurrentFunction(m)
               first == Len(m.blocks) + 1
               m1 == create_block(create_block(m, f), f)
           IN  /\ m' = set_insert_point(BranchTo(m1, Res, first, first + 1), first)
               /\ Accept([top EXCEPT !.bbs = <<first, first + 1>>], kids[2])
     \/ \* the end of the if statement
        /\ top.pc = 2
        /\ IF Len(kids) = 3
           THEN /\ m' = set_insert_point(m, top.bbs[2])
                /\ Accept([top EXCEPT !.bbs = Append(@, m.BB_)], kids[3])
           ELSE /\ m' = set_insert_point(BrUnlessEnded(m, top.bbs[2]), top.bbs[2])
                /\ Leave
     \/ \* the end of the else statement
        top.pc = 3 /\ m' = JoinBranches(m, top.bbs[3], m.BB_) /\ Leave
  /\ UNCHANGED <<Res, arg, need_as_address, scope>>

VisitIterationStmt ==
  /\ Visiting("iteration-stmt")
  /\ \/ \* "condition", "loop" and "ret"
        /\ top.pc = 0
        /\ LET f == CurrentFunction(m)
               first == Len(m.blocks) + 1
               m1 == create_block(create_block(create_block(m, f), f), f)
           IN  /\ m' = set_insert_point(create_br(m1, first), first)
               /\ Accept([top EXCEPT !.bbs = <<first, first + 1, first + 2>>], kids[1])
     \/ /\ top.pc = 1
        /\ m' = set_insert_point(BranchTo(m, Res, top.bbs[2], top.bbs[3]), top.bbs[2])
        /\ Accept(top, kids[2])
     \/ /\ top.pc = 2
        /\ m' = set_insert_point(BrUnlessEnded(m, top.bbs[1]), top.bbs[3])
        /\ Leave
  /\ UNCHANGED <<Res, arg, need_as_address, scope>>

\* The returned value in the return type; int to float asks for an i32 result.
Returned(mod, v, ty) ==
  IF is_integer_type(ty) /\ checkFloat(v) THEN create_fptosi(mod, v, Int32Type)
  ELSE IF is_float_type(ty) /\ checkInt(v) THEN create_sitofp(mod, v, Int32Type)
  ELSE [mod EXCEPT !.made = v]

VisitReturnStmt ==
  LET ty == get_return_type(m.functions[CurrentFunction(m)].ty)
  IN
  /\ Visiting("return-stmt")
  /\ IF is_void_type(ty) THEN m' = create_void_ret(m) /\ Leave /\ UNCHANGED <<Res, arg, need_as_address, scope>>
     ELSE IF kids = <<>> THEN Crash
     ELSE IF top.pc = 0 THEN Accept(top, kids[1]) /\ UNCHANGED <<Res, arg, need_as_address, scope, m>>
     ELSE LET m1 == Returned(m, Res, ty)
          IN  /\ Res' = m1.made
              /\ m' = create_ret(m1, m1.made)
              /\ Leave
              /\ UNCHANGED <<arg, need_as_address, scope>>

(***************************************************************************)
(* Expressions.                                                            *)
(***************************************************************************)
VisitNum ==
  /\ Visiting("num")
  /\ Res' = Constant(LowType(top.node.ty), top.node.val)
  /\ Leave
  /\ UNCHANGED <<arg, need_as_address, scope, m>>

\* v as an int, as a float: with a conversion if it is the other.
AsInt(mod, v) ==
  IF checkFloat(v) THEN create_fptosi(mod, v, Int32Type) ELSE [mod EXCEPT !.made = v]
AsFloat(mod, v) ==
  IF checkInt(v) THEN create_sitofp(mod, v, FloatType) ELSE [mod EXCEPT !.made = v]

\* MUTANT of Element: the pointer of a parameter is not loaded first.
ElementNoLoad(mod, var, index) ==
  IF is_array_type(get_pointer_element_type(var.ty))
  THEN create_gep(mod, var, <<IntConstant(0), index>>) ELSE create_gep(mod, var, <<index>>)

\* The address of element index of var: an array, or a parameter that points to one.
Element(mod, var, index) ==
  LET ty == get_pointer_element_type(var.ty)
      m1 == IF is_pointer_type(ty) THEN create_load(mod, var) ELSE [mod EXCEPT !.made = var]
  IN  IF is_array_type(ty) THEN create_gep(mod, var, <<IntConstant(0), index>>)
      ELSE create_gep(m1, m1.made, <<index>>)

\* A test of the index, whose failing branch calls neg_idx_except and then goes on.
CheckedElement(mod, var, res) ==
  LET m1 == AsInt(mod, res)
      index == m1.made
      m2 == create_icmp(m1, "lt", index, Constant(Int32Type, 0))
      f == CurrentFunction(mod)
      failBB == Len(mod.blocks) + 1
      passBB == failBB + 1
      m3 == create_cond_br(create_block(create_block(m2, f), f), m2.made, failBB, passBB)
      m4 == create_call(set_insert_point(m3, failBB),
                        find(scope, "neg_idx_except", NullValue), <<>>)
  IN  Element(set_insert_point(create_br(m4, passBB), passBB), var, index)

\* The value of a variable; that of an array is the address of its first element.
Loaded(mod, var) ==
  IF is_array_type(get_pointer_element_type(var.ty))
  THEN create_gep(mod, var, <<IntConstant(0), IntConstant(0)>>)
  ELSE create_load(mod, var)

\* MUTANT of TakeFlag: the flag is cleared only when the address is returned.
TakeFlagLate(lvalue) == need_as_address' = (need_as_address /\ (top.pc < Len(kids) \/ ~lvalue))

\* On entry the flag is read and cleared, and once more when it is obeyed.
TakeFlag(lvalue) == need_as_address' = (need_as_address /\ top.pc > 0 /\ ~lvalue)

VisitVar ==
  LET var == IF top.pc = 0 THEN find(scope, top.node.id, NullValue) ELSE top.vals[1]
      lvalue == IF top.pc = 0 THEN need_as_address ELSE top.lvalue
  IN
  /\ Visiting("var")
  /\ TakeFlag(lvalue)
  /\ IF top.pc < Len(kids)
     THEN /\ Accept([top EXCEPT !.vals = <<var>>, !.lvalue = lvalue], kids[1])
          /\ UNCHANGED <<Res, m>>
     ELSE IF ~is_pointer_type(var.ty) /\ (kids # <<>> \/ ~lvalue)
     THEN m' = assert(m, FALSE) /\ UNCHANGED <<stack, Res>>
     ELSE LET m1 == IF kids = <<>> THEN [m EXCEPT !.made = var]
                    ELSE CheckedElement(m, var, Res)
          IN  /\ m' = IF lvalue THEN m1
                      ELSE IF kids = <<>> THEN Loaded(m, var)
                      ELSE create_load(m1, m1.made)
              /\ Res' = m'.made
              /\ Leave
  /\ UNCHANGED <<arg, scope>>

\* res in the type of the variable var points to, stored there.
Stored(mod, res, var) ==
  LET ty == get_pointer_element_type(var.ty)
      m1 == IF ty = FloatType THEN AsFloat(mod, res)
            ELSE IF ty = Int32Type THEN AsInt(mod, res) ELSE [mod EXCEPT !.made = res]
  IN  assert(create_store(m1, m1.made, var), var # NullValue)

\* The address first, then the expression, whose unconverted value stays in Res.
VisitAssignExpression ==
  /\ Visiting("assign-expression")
  /\ \/ /\ top.pc = 0
        /\ need_as_address' = TRUE
        /\ Accept(top, kids[1])
        /\ UNCHANGED m
     \/ /\ top.pc = 1
        /\ Accept([top EXCEPT !.vals = <<Res>>], kids[2])
        /\ UNCHANGED <<need_as_address, m>>
     \/ /\ top.pc = 2
        /\ m' = Stored(m, Res, top.vals[1])
        /\ Leave
        /\ UNCHANGED need_as_address
  /\ UNCHANGED <<Res, arg, scope>>

(***************************************************************************)
(* The three methods of expressions with one or two operands: the left     *)
(* value is kept in a local variable while the right one is visited.       *)
(***************************************************************************)
\* The left and the right operand made floats.
BothFloat(mod, l, r) ==
  LET m1 == AsFloat(mod, l)
      m2 == AsFloat(m1, r)
  IN  [m |-> m2, l |-> m1.made, r |-> m2.made]

\* result is the module with the instruction, once both operands are visited.
VisitOperation(k, result) ==
  /\ Visiting(k)
  /\ \/ /\ top.pc = 0
        /\ Accept(top, kids[1])
        /\ UNCHANGED <<Res, m>>
     \/ /\ top.pc = 1
        /\ IF Len(kids) = 1 THEN Leave ELSE Accept([top EXCEPT !.vals = <<Res>>], kids[2])
        /\ UNCHANGED <<Res, m>>
     \/ /\ top.pc = 2
        /\ m' = result
        /\ Res' = m'.made
        /\ Leave
  /\ UNCHANGED <<arg, need_as_address, scope>>

Predicate(op) == CASE op = "<=" -> "le" [] op = "<" -> "lt" [] op = ">" -> "gt"
                   [] op = ">=" -> "ge" [] op = "==" -> "eq" [] op = "!=" -> "ne"

\* The comparison, its result made an int.
Compared(mod, l, r, pred) ==
  LET both == BothFloat(mod, l, r)
      m1 == IF checkInt(l) /\ checkInt(r) THEN create_icmp(mod, pred, l, r)
            ELSE create_fcmp(both.m, pred, both.l, both.r)
  IN  create_zext(m1, m1.made, Int32Type)

VisitSimpleExpression ==
  VisitOperation("simple-expression", Compared(m, top.vals[1], Res, Predicate(top.node.op)))

\* op on two ints, or fop on two operands made floats.
Arithmetic(mod, l, r, op, fop) ==
  LET both == BothFloat(mod, l, r)
  IN  IF checkInt(l) /\ checkInt(r) THEN create_binary(mod, op, l, r)
      ELSE create_binary(both.m, fop, both.l, both.r)

VisitAdditiveExpression ==
  VisitOperation("additive-expression",
                 IF top.node.op = "+" THEN Arithmetic(m, top.vals[1], Res, "add", "fadd")
                 ELSE Arithmetic(m, top.vals[1], Res, "sub", "fsub"))

VisitTerm ==
  VisitOperation("term",
                 IF top.node.op = "*" THEN Arithmetic(m, top.vals[1], Res, "mul", "fmul")
                 ELSE Arithmetic(m, top.vals[1], Res, "sdiv", "fdiv"))

\* MUTANT of Passed: only floats are converted to.
PassedFloatOnly(mod, v, ty) ==
  IF ty = FloatType THEN AsFloat(mod, v) ELSE [mod EXCEPT !.made = v]

\* An argument in the type of its parameter; a pointer is passed as it is.
Passed(mod, v, ty) ==
  IF is_pointer_type(v.ty) THEN [mod EXCEPT !.made = v]
  ELSE IF ty = FloatType THEN AsFloat(mod, v)
  ELSE IF ty = Int32Type THEN AsInt(mod, v) ELSE [mod EXCEPT !.made = v]

\* The local variables are the function and the arguments so far.
VisitCall ==
  LET function == find(scope, top.node.id, NullValue)
      params == get_params(top.vals[1].ty)
      m1 == IF top.pc = 0 THEN [m EXCEPT !.made = function] ELSE Passed(m, Res, params[top.pc])
      vals == Append(top.vals, m1.made)
  IN
  /\ Visiting("call")
  /\ IF (top.pc = 0 /\ function.k # "fn") \/ (top.pc > 0 /\ top.pc > Len(params))
     THEN m' = assert(m, FALSE) /\ UNCHANGED <<stack, Res>>
     ELSE IF top.pc < Len(kids)
     THEN /\ Accept([top EXCEPT !.vals = vals], kids[top.pc + 1])
          /\ Res' = IF top.pc = 0 THEN Res ELSE m1.made
          /\ m' = m1
     ELSE /\ m' = create_call(m1, vals[1], Tail(vals))
          /\ Res' = m'.made
          /\ Leave
  /\ UNCHANGED <<arg, need_as_address, scope>>

Visit ==
  /\ m.ok
  /\ \/ VisitProgram \/ VisitVarDeclaration \/ VisitFunDeclaration \/ VisitParam
     \/ VisitCompoundStmt \/ VisitExpressionStmt \/ VisitSelectionStmt
     \/ VisitIterationStmt \/ VisitReturnStmt
     \/ VisitNum \/ VisitVar \/ VisitAssignExpression \/ VisitSimpleExpression
     \/ VisitAdditiveExpression \/ VisitTerm \/ VisitCall

\* run_visitor on an AST, with the builder the constructor has just made.
run_visitor(program) ==
  /\ BuilderInit
  /\ stack' = <<Frame(program)>>
  /\ UNCHANGED <<Res, arg, need_as_address, scope, m>>

BuilderNext == (\E n \in Nodes : n.k = "program" /\ run_visitor(n)) \/ Visit
BuilderSpec == BuilderInit /\ [][BuilderNext]_builderVars

(***************************************************************************)
(* Properties                                                              *)
(***************************************************************************)
\* need_as_address is set only on the way from an assignment to the variable
\* on its left: no index, argument or right side sees it.
LvalueFlag ==
  need_as_address =>
    LET n == Len(stack) IN
    /\ n > 1
    /\ stack[n].node.k = "var" /\ stack[n].pc = 0
    /\ stack[n - 1].node.k = "assign-expression" /\ stack[n - 1].pc = 1

\* Among the first n frames, those whose construct has entered its scope.
Opens(f) == f.node.k = "program" \/ (f.node.k \in {"fun-declaration", "compound-stmt"} /\ f.pc > 0)
Openers(frames, n) == {i \in 1 .. n : Opens(frames[i])}

\* The child that the construct of frame f is at, and the names that it has
\* declared in the children before, and in that one if it has been visited.
Begun(f) == f.pc - (IF f.node.k \in {"fun-declaration", "compound-stmt"} THEN 1 ELSE 0)
NamesOf(n, visited) ==
  {n.kids[i].id : i \in {j \in 1 .. visited :
     n.kids[j].k \in {"var-declaration", "fun-declaration", "param"}}}
DeclaredIn(frames, i) ==
  NamesOf(frames[i].node, IF i = Len(frames) THEN Begun(frames[i]) ELSE Begun(frames[i]) - 1)

\* There is one scope for each construct entered and not left.  It holds the
\* names that its construct has declared so far; the outermost also holds the
\* predefined functions, and the function being visited.
ScopesAreLexical ==
  stack # <<>> =>
    /\ Len(scope) = Cardinality(Openers(stack, Len(stack)))
    /\ \A i \in Openers(stack, Len(stack)) \ {1} :
         DOMAIN scope[Cardinality(Openers(stack, i))] = DeclaredIn(stack, i)
    /\ DOMAIN scope[1] = {Predefined[i].name : i \in DOMAIN Predefined}
         \union DeclaredIn(stack, 1)
         \union (IF Len(scope) > 1 THEN {stack[2].node.id} ELSE {})
=============================================================================
