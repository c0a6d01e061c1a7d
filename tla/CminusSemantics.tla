--------------------------- MODULE CminusSemantics ---------------------------
(***************************************************************************)
(* What a C-minus-f program means, read from Documentations/common/        *)
(* cminusf.md and not from the compiler: the abstract specification that   *)
(* the emitted code is compared with.  Meaning(p, in) is what program p    *)
(* prints when it reads the inputs in.                                     *)
(*                                                                         *)
(* st is the state of the run: memory cells, unread inputs, output, and    *)
(* whether it goes on ("run"), returns from a function or has exited.      *)
(***************************************************************************)
EXTENDS Integers, Sequences, SequencesExt, TLC

CONSTANTS One,            \* the float 1.0
          Uninitialised   \* what a local variable holds before it is assigned

\* Rounding towards zero, as C does.
Towards0(a, b) == IF (a >= 0) = (b > 0) THEN (IF a >= 0 THEN a \div b ELSE (-a) \div (-b))
                  ELSE -(IF a >= 0 THEN a \div (-b) ELSE (-a) \div b)

Converted(v, from, to) ==
  IF from = "int" /\ to = "float" THEN v * One
  ELSE IF from = "float" /\ to = "int" THEN Towards0(v, One) ELSE v

Arith(op, ty, a, b) ==
  CASE op = "+" -> a + b
    [] op = "-" -> a - b
    [] op = "*" -> IF ty = "int" THEN a * b ELSE (a * b) \div One
    [] op = "/" -> IF ty = "int" THEN Towards0(a, b) ELSE Towards0(a * One, b)

Relates(op, a, b) == CASE op = "<" -> a < b [] op = "<=" -> a <= b [] op = ">" -> a > b
                       [] op = ">=" -> a >= b [] op = "==" -> a = b [] op = "!=" -> a # b

Value(st, ty, v) == [st |-> st, ty |-> ty, v |-> v]
Bound(k, ty, at) == [k |-> k, ty |-> ty, at |-> at]

\* n new cells for a name, and where they are.
Allocated(st, contents) == [st EXCEPT !.cells = @ \o contents]
NextCell(st) == Len(st.cells) + 1

Exit(st) == [st EXCEPT !.status = "exit", !.out = Append(@, <<"negative index exception", 0>>)]

RECURSIVE Eval(_, _, _, _), Exec(_, _, _, _)

\* The address of a variable: its index is evaluated first and must not be negative.
Address(e, env, st, P) ==
  LET b == env[e.id] IN
  IF e.kids = <<>> THEN Value(st, b.ty, b.at)
  ELSE LET i == Eval(e.kids[1], env, st, P)
           n == Converted(i.v, i.ty, "int")
       IN  IF i.st.status = "run" /\ n < 0 THEN Value(Exit(i.st), b.ty, 0)
           ELSE Value(i.st, b.ty, b.at + n)

Assigned(e, env, st, P) ==
  LET a == Address(e.kids[1], env, st, P)
      r == Eval(e.kids[2], env, a.st, P)
      v == Converted(r.v, r.ty, a.ty)
  IN  IF r.st.status # "run" THEN r
      ELSE Value([r.st EXCEPT !.cells[a.v] = v], a.ty, v)

Operated(e, env, st, P) ==
  LET l == Eval(e.kids[1], env, st, P)
      r == Eval(e.kids[2], env, l.st, P)
      ty == IF l.ty = "int" /\ r.ty = "int" THEN "int" ELSE "float"
      a == Converted(l.v, l.ty, ty)
      b == Converted(r.v, r.ty, ty)
  IN  IF r.st.status # "run" THEN r
      ELSE IF e.k = "simple-expression"
      THEN Value(r.st, "int", IF Relates(e.op, a, b) THEN 1 ELSE 0)
      ELSE Value(r.st, ty, Arith(e.op, ty, a, b))

\* The arguments from left to right, as a sequence of values.
Arguments(args, env, st, P) ==
  FoldLeft(LAMBDA done, e :
             LET r == Eval(e, env, done.st, P)
             IN  [st |-> r.st, vals |-> Append(done.vals, [ty |-> r.ty, v |-> r.v])],
           [st |-> st, vals |-> <<>>], args)

Called(e, env, st, P) ==
  LET done == Arguments(e.kids, env, st, P)
      s == done.st
      Arg(i, ty) == Converted(done.vals[i].v, done.vals[i].ty, ty)
      Printed(ty) == Value([s EXCEPT !.out = Append(@, <<ty, Arg(1, ty)>>)], "void", 0)
  IN
  CASE s.status # "run" -> Value(s, "int", 0)
    [] e.id = "input" -> Value([s EXCEPT !.in = Tail(@)], "int", Head(s.in))
    [] e.id = "output" -> Printed("int")
    [] e.id = "outputFloat" -> Printed("float")
    [] e.id = "neg_idx_except" -> Value(Exit(s), "void", 0)
    [] e.id \in DOMAIN P.funs ->
         LET f == P.funs[e.id]
             params == Front(f.kids)
             \* a scalar is a new cell with the value, an array the cells of the caller
             Cell(i) == NextCell(s) + i - 1
             contents == [i \in DOMAIN params |-> Arg(i, params[i].ty)]
             own(id) == LET i == CHOOSE i \in DOMAIN params : params[i].id = id
                        IN  IF params[i].op = "[]" THEN Bound("array", params[i].ty, contents[i])
                            ELSE Bound("scalar", params[i].ty, Cell(i))
             inner == [id \in {params[i].id : i \in DOMAIN params} |-> own(id)] @@ P.env
             body == Exec(Last(f.kids), inner, Allocated(s, contents), [P EXCEPT !.ret = f.ty])
         IN  CASE body.status = "exit" -> Value(body, "int", 0)
               [] body.status = "return" -> Value([body EXCEPT !.status = "run"], f.ty, body.val)
               [] OTHER -> Value(body, f.ty, 0)

Eval(e, env, st, P) ==
  CASE st.status # "run" -> Value(st, "int", 0)
    [] e.k = "num" -> Value(st, e.ty, e.val)
    [] e.k = "var" ->
         LET a == Address(e, env, st, P)
         IN  IF a.st.status # "run" \/ (env[e.id].k = "array" /\ e.kids = <<>>)
             THEN [a EXCEPT !.ty = "address"]
             ELSE Value(a.st, a.ty, a.st.cells[a.v])
    [] e.k = "assign-expression" -> Assigned(e, env, st, P)
    [] e.k = "call" -> Called(e, env, st, P)
    [] OTHER -> IF Len(e.kids) = 1 THEN Eval(e.kids[1], env, st, P) ELSE Operated(e, env, st, P)

Size(decl) == IF decl.kids = <<>> THEN 1 ELSE decl.kids[1].val
Filled(n, v) == [i \in 1 .. n |-> v]

\* A declaration adds cells to the state and a name to the environment.
Declared(envst, decl, initial) ==
  [env |-> (decl.id :> Bound(IF decl.kids = <<>> THEN "scalar" ELSE "array", decl.ty,
                             NextCell(envst.st))) @@ envst.env,
   st |-> Allocated(envst.st, Filled(Size(decl), initial))]

Exec(s, env, st, P) ==
  CASE st.status # "run" -> st
    [] s.k = "compound-stmt" ->
         LET decls == SelectSeq(s.kids, LAMBDA k : k.k = "var-declaration")
             stmts == SelectSeq(s.kids, LAMBDA k : k.k # "var-declaration")
             inner == FoldLeft(LAMBDA es, d : Declared(es, d, Uninitialised),
                               [env |-> env, st |-> st], decls)
         IN  FoldLeft(LAMBDA t, k : Exec(k, inner.env, t, P), inner.st, stmts)
    [] s.k = "expression-stmt" -> IF s.kids = <<>> THEN st ELSE Eval(s.kids[1], env, st, P).st
    [] s.k = "selection-stmt" ->
         LET c == Eval(s.kids[1], env, st, P)
         IN  IF c.v # 0 THEN Exec(s.kids[2], env, c.st, P)
             ELSE IF Len(s.kids) = 3 THEN Exec(s.kids[3], env, c.st, P) ELSE c.st
    [] s.k = "iteration-stmt" ->
         LET c == Eval(s.kids[1], env, st, P)
         IN  IF c.st.status = "run" /\ c.v # 0
             THEN Exec(s, env, Exec(s.kids[2], env, c.st, P), P) ELSE c.st
    [] s.k = "return-stmt" ->
         IF s.kids = <<>> THEN [st EXCEPT !.status = "return"]
         ELSE LET r == Eval(s.kids[1], env, st, P)
              IN  IF r.st.status # "run" THEN r.st
                  ELSE [r.st EXCEPT !.status = "return", !.val = Converted(r.v, r.ty, P.ret)]

\* Global variables are all zero; the last declaration is main.
Meaning(program, inputs) ==
  LET variables == SelectSeq(program.kids, LAMBDA k : k.k = "var-declaration")
      functions == SelectSeq(program.kids, LAMBDA k : k.k = "fun-declaration")
      start == [cells |-> <<>>, in |-> inputs, out |-> <<>>, status |-> "run", val |-> 0]
      global == FoldLeft(LAMBDA es, d : Declared(es, d, 0), [env |-> <<>>, st |-> start], variables)
      P == [env |-> global.env, ret |-> "void",
            funs |-> [id \in {f.id : f \in ToSet(functions)} |->
                        CHOOSE f \in ToSet(functions) : f.id = id]]
      main == Last(functions)
  IN  Exec(Last(main.kids), global.env, global.st, P).out
=============================================================================
