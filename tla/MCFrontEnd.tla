------------------------------ MODULE MCFrontEnd ------------------------------
(***************************************************************************)
(* The programs that the front end is run on.  Mixtures has, for each pair *)
(* of operands that differ in type and in how the builder gets their value,*)
(* a program that applies every operator to the pair.  Features has small  *)
(* programs, one for each way in which statements, scopes, calls, arrays   *)
(* and conversions meet.                                                   *)
(*                                                                         *)
(* Left out are the programs on which the compiler departs from its        *)
(* documentation for a known reason (README.md lists them): an if-else     *)
(* both of whose branches do not return, statements after a return,        *)
(* conditions below zero, an int returned from a float function, and the   *)
(* value of an assignment that converts.  The third and fourth have a      *)
(* program of their own below, on which a property fails.                  *)
(***************************************************************************)
EXTENDS FrontEnd

\* Expressions, from factors.
Only(f) == Operation("simple-expression", "", <<
             Operation("additive-expression", "", <<Operation("term", "", <<f>>)>>)>>)
Term(f) == Operation("term", "", <<f>>)
Sum(f) == Operation("additive-expression", "", <<Term(f)>>)
Simple(a) == Operation("simple-expression", "", <<a>>)

MulOps == {"*", "/"}
AddOps == {"+", "-"}
RelOps == {"<", "<=", ">", ">=", "==", "!="}
Binary(f, op, g) ==
  CASE op \in MulOps -> Simple(Operation("additive-expression", "", <<
                          Operation("term", op, <<Term(f), g>>)>>))
    [] op \in AddOps -> Simple(Operation("additive-expression", op, <<Sum(f), Term(g)>>))
    [] op \in RelOps -> Operation("simple-expression", op, <<Sum(f), Sum(g)>>)

N(n) == Num("int", n)
F(text) == Num("float", FloatText[text])
V(id) == Var(id, <<>>)
At(id, expr) == Var(id, <<expr>>)
Lit(n) == Only(N(n))
Id(id) == Only(V(id))
Calls(id, args) == Only(Call(id, args))
Minus(n) == Binary(N(0), "-", N(n))

\* Statements and declarations.
Do(expr) == ExpressionStmt(<<expr>>)
Let(var, expr) == Do(AssignExpression(var, expr))
Put(expr) == Do(Calls("output", <<expr>>))
PutFloat(expr) == Do(Calls("outputFloat", <<expr>>))
If(expr, s) == SelectionStmt(expr, s, <<>>)
IfElse(expr, s, t) == SelectionStmt(expr, s, <<t>>)
While(expr, s) == IterationStmt(expr, s)
Block(stmts) == CompoundStmt(<<>>, stmts)
Give(expr) == ReturnStmt(<<expr>>)
IntVar(id) == VarDeclaration("int", id, <<>>)
FloatVar(id) == VarDeclaration("float", id, <<>>)
IntArray(id, n) == VarDeclaration("int", id, <<N(n)>>)
FloatArray(id, n) == VarDeclaration("float", id, <<N(n)>>)
IntP(id) == Param("int", id, FALSE)
RealP(id) == Param("float", id, FALSE)
Fun(ty, id, params, decls, stmts) == FunDeclaration(ty, id, params, CompoundStmt(decls, stmts))
Main(decls, stmts) == Fun("void", "main", <<>>, decls, stmts)

Twice == Fun("int", "twice", <<IntP("n")>>, <<>>, <<Give(Binary(V("n"), "+", V("n")))>>)

(***************************************************************************)
(* Operands: literals, variables, elements, calls, and expressions in      *)
(* parentheses, all powers of two so that every result is exact.           *)
(***************************************************************************)
Operand == { N(2), F("0.5"), V("x"), V("y"), At("a", Lit(1)),
             Call("twice", <<Only(F("1.5"))>>),
             AssignExpression(V("x"), Lit(2)),
             Binary(V("y"), "<", V("x")) }

OperatorOrder == <<"*", "/", "+", "-", "<", "<=", ">", ">=", "==", "!=">>
Mixture(f, g) ==
  Program(<<Twice,
            Main(<<IntVar("x"), FloatVar("y"), IntArray("a", 2)>>,
                 <<Let(V("x"), Lit(4)), Let(V("y"), Only(F("0.25"))),
                   Let(At("a", Lit(1)), Lit(1))>> \o
                 [i \in DOMAIN OperatorOrder |-> PutFloat(Binary(f, OperatorOrder[i], g))])>>)
Mixtures == {Mixture(f, g) : f \in Operand, g \in Operand}

(***************************************************************************)
(* Statements                                                              *)
(***************************************************************************)
Dangling == Fun("int", "pick", <<IntP("p"), IntP("q")>>, <<>>,
  <<If(Id("p"), IfElse(Id("q"), Give(Lit(1)), Give(Lit(2)))), Give(Lit(3))>>)
Pick(p, q) == Put(Calls("pick", <<Lit(p), Lit(q)>>))

Branching == {
  Main(<<IntVar("x")>>,
    <<Let(V("x"), Lit(2)), If(Binary(V("x"), "<", N(4)), Let(V("x"), Lit(5))),
      Put(Id("x")), If(Binary(V("x"), "<", N(4)), Let(V("x"), Lit(1))), Put(Id("x"))>>),
  Main(<<FloatVar("y")>>,
    <<Let(V("y"), Only(F("0.5"))),
      While(Id("y"), Block(<<PutFloat(Id("y")), Let(V("y"), Binary(V("y"), "-", F("0.25")))>>)),
      If(Only(F("0.25")), If(Id("y"), Put(Lit(1)))), Put(Lit(2))>>),
  Main(<<IntVar("i"), IntVar("j")>>,
    <<Let(V("i"), Lit(2)),
      While(Id("i"), Block(<<
        Let(V("j"), Id("i")),
        While(Binary(V("j"), ">", N(0)), Block(<<
          If(Binary(V("j"), "==", V("i")), Put(Id("i"))), Put(Id("j")),
          Let(V("j"), Binary(V("j"), "-", N(1)))>>)),
        Let(V("i"), Binary(V("i"), "-", N(1)))>>))>>),
  Main(<<IntVar("i")>>,
    <<Let(V("i"), Lit(2)),
      While(Id("i"), CompoundStmt(<<IntVar("t")>>, <<
        Let(V("t"), Id("i")), Let(V("i"), Binary(V("t"), "-", N(1))), Put(Id("t"))>>))>>),
  Main(<<>>, <<ExpressionStmt(<<>>), Do(Lit(1)), Block(<<>>), If(Lit(0), ExpressionStmt(<<>>)),
               Put(Calls("input", <<>>)), Put(Binary(Call("input", <<>>), "-",
                                                     Call("input", <<>>)))>>),
  Fun("int", "main", <<>>, <<IntVar("n")>>,
    <<Let(V("n"), Calls("input", <<>>)),
      While(Id("n"), Block(<<Put(Id("n")), Let(V("n"), Calls("input", <<>>))>>)),
      Give(Lit(0))>>) }

Returning == {
  <<Dangling, Main(<<>>, <<Pick(0, 1), Pick(1, 0), Pick(1, 1)>>)>>,
  <<Fun("int", "first", <<IntP("n")>>, <<>>,
        <<While(Id("n"), Block(<<If(Binary(V("n"), "<", N(2)), Give(Id("n"))),
                                 Let(V("n"), Binary(V("n"), "/", N(2)))>>)),
          Give(Lit(7))>>),
    Main(<<>>, <<Put(Calls("first", <<Lit(4)>>)), Put(Calls("first", <<Lit(0)>>))>>)>>,
  <<Fun("int", "once", <<>>, <<>>, <<While(Lit(1), Give(Lit(4)))>>),
    Main(<<>>, <<Put(Calls("once", <<>>))>>)>>,
  <<Fun("void", "say", <<IntP("n")>>, <<>>,
        <<IfElse(Id("n"), Block(<<Put(Lit(1)), ReturnStmt(<<>>)>>),
                          Block(<<Put(Lit(2)), ReturnStmt(<<>>)>>))>>),
    Main(<<>>, <<Do(Calls("say", <<Lit(1)>>)), Do(Calls("say", <<Lit(0)>>)), ReturnStmt(<<>>)>>)>>,
  <<Fun("int", "cut", <<>>, <<>>, <<Give(Only(F("1.5")))>>),
    Fun("float", "same", <<RealP("y")>>, <<>>, <<Give(Id("y"))>>),
    Main(<<>>, <<Put(Calls("cut", <<>>)), PutFloat(Calls("same", <<Lit(2)>>)),
                 Put(Calls("same", <<Only(F("1.5"))>>))>>)>>,
  <<Fun("int", "zero", <<>>, <<>>, <<>>), Fun("float", "nil", <<>>, <<>>, <<>>),
    Fun("void", "skip", <<>>, <<>>, <<>>),
    Main(<<>>, <<Do(Calls("skip", <<>>)), Put(Calls("zero", <<>>)), PutFloat(Calls("nil", <<>>))>>)>>,
  <<Fun("int", "fact", <<IntP("n")>>, <<>>,
        <<If(Binary(V("n"), "<=", N(1)), Give(Lit(1))),
          Give(Binary(V("n"), "*", Call("fact", <<Binary(V("n"), "-", N(1))>>)))>>),
    Main(<<>>, <<Put(Calls("fact", <<Lit(3)>>))>>)>> }

(***************************************************************************)
(* Scopes                                                                  *)
(***************************************************************************)
Scoped == {
  <<IntVar("x"),
    Fun("void", "show", <<>>, <<>>, <<Put(Id("x"))>>),
    Main(<<IntVar("x")>>,
      <<Let(V("x"), Lit(1)),
        CompoundStmt(<<FloatVar("x")>>,
          <<Let(V("x"), Only(F("0.5"))),
            CompoundStmt(<<IntVar("x")>>, <<Let(V("x"), Lit(4)), Put(Id("x"))>>),
            PutFloat(Id("x"))>>),
        Put(Id("x")), Do(Calls("show", <<>>))>>)>>,
  <<IntVar("x"),
    Fun("int", "f", <<IntP("x")>>, <<>>,
        <<CompoundStmt(<<IntVar("y")>>,
            <<Let(V("y"), Binary(V("x"), "+", N(1))),
              While(Id("x"), CompoundStmt(<<IntArray("x", 1)>>,
                <<Let(At("x", Lit(0)), Id("y")), Give(Only(At("x", Lit(0))))>>))>>),
          Give(Id("x"))>>),
    Main(<<IntVar("f")>>, <<Let(V("f"), Lit(3)), Put(Id("f")), Let(V("x"), Id("f")), Put(Id("x"))>>)>>,
  <<IntVar("x"),
    Fun("int", "f", <<IntP("x")>>, <<>>, <<Let(V("x"), Binary(V("x"), "+", N(1))), Give(Id("x"))>>),
    Main(<<>>, <<Put(Calls("f", <<Lit(1)>>)), Put(Id("x")),
                 CompoundStmt(<<IntVar("x")>>, <<Let(V("x"), Calls("f", <<Lit(2)>>)), Put(Id("x"))>>),
                 Put(Id("x"))>>)>>,
  <<FloatVar("y"), IntArray("a", 2), Fun("void", "set", <<IntP("y")>>, <<>>, <<Let(At("a", Id("y")), Lit(6))>>),
    Main(<<>>, <<PutFloat(Id("y")), Put(Only(At("a", Lit(1)))), Do(Calls("set", <<Lit(1)>>)),
                 Put(Only(At("a", Lit(1)))), Put(Only(At("a", Lit(0))))>>)>> }

(***************************************************************************)
(* Assignments, arrays and arguments                                       *)
(***************************************************************************)
Show(id, n) == Put(Only(At(id, Lit(n))))
Assigned == {
  Main(<<IntArray("a", 2), IntArray("b", 2), IntVar("i")>>,
    <<Let(V("i"), AssignExpression(At("a", Lit(0)), AssignExpression(At("b", Lit(1)), Lit(1)))),
      Let(At("a", Id("i")), AssignExpression(At("b", Only(At("a", Lit(0)))),
                                             Binary(V("i"), "+", AssignExpression(V("i"), Lit(2))))),
      Show("a", 0), Show("a", 1), Show("b", 1), Put(Id("i"))>>),
  Main(<<IntArray("a", 3), IntVar("i")>>,
    <<Let(V("i"), Lit(0)),
      Let(At("a", Only(AssignExpression(V("i"), Lit(1)))), Binary(V("i"), "+", N(3))),
      Let(At("a", Lit(0)), Lit(2)),
      Let(At("a", Only(At("a", Lit(0)))), Only(At("a", Id("i")))),
      Show("a", 0), Show("a", 1), Show("a", 2)>>),
  Main(<<IntVar("x"), FloatVar("y")>>,
    <<Let(V("x"), Only(F("1.5"))), Put(Id("x")), Let(V("y"), Lit(2)), PutFloat(Id("y")),
      Let(V("x"), Binary(V("x"), "<", V("y"))), Put(Id("x"))>>),
  Main(<<FloatArray("a", 2)>>,
    <<Let(At("a", Only(F("1.5"))), Lit(2)), Let(At("a", Lit(0)), Only(F("0.25"))),
      PutFloat(Binary(At("a", Only(F("1.5"))), "*", At("a", Only(F("0.25")))))>>),
  Main(<<IntArray("a", 2)>>, <<Put(Lit(1)), Let(At("a", Minus(1)), Lit(2)), Put(Lit(2))>>),
  Main(<<IntArray("a", 2)>>, <<Put(Only(At("a", Minus(1)))), Put(Lit(2))>>),
  Main(<<IntVar("x")>>,
    <<Let(V("x"), Simple(Operation("additive-expression", "-", <<
        Operation("additive-expression", "-", <<Sum(N(9)), Term(N(3))>>),
        Operation("term", "*", <<Operation("term", "/", <<Term(N(9)), N(4)>>), N(2)>>)>>))),
      Put(Id("x")),
      Put(Only(Binary(Binary(N(1), "+", V("x")), "*", Minus(3)))),
      Put(Operation("simple-expression", "<=", <<
        Operation("additive-expression", "+", <<Sum(V("x")), Term(N(1))>>),
        Operation("additive-expression", "", <<Operation("term", "*", <<Term(N(2)), N(2)>>)>>)>>))>>) }

Passing == {
  <<Fun("void", "fill", <<Param("int", "v", TRUE), IntP("n")>>, <<>>,
        <<Let(At("v", Id("n")), Binary(V("n"), "*", V("n"))),
          If(Id("n"), Do(Calls("fill", <<Id("v"), Binary(V("n"), "-", N(1))>>)))>>),
    Main(<<IntArray("a", 3)>>,
      <<Do(Calls("fill", <<Id("a"), Lit(2)>>)), Show("a", 0), Show("a", 1), Show("a", 2)>>)>>,
  <<FloatArray("g", 2),
    Fun("float", "sum", <<Param("float", "v", TRUE)>>, <<>>,
        <<Give(Binary(At("v", Lit(0)), "+", At("v", Lit(1))))>>),
    Main(<<>>, <<Let(At("g", Lit(1)), Only(F("0.25"))), PutFloat(Calls("sum", <<Id("g")>>)),
                 Put(Binary(Call("sum", <<Id("g")>>), "<", N(1)))>>)>>,
  <<Twice,
    Fun("int", "mix", <<IntP("p"), RealP("q"), IntP("r")>>, <<>>,
        <<Put(Id("p")), PutFloat(Id("q")), Put(Id("r")), Give(Binary(V("p"), "-", V("r")))>>),
    Main(<<IntArray("a", 1), IntVar("x")>>,
      <<Let(V("x"), Lit(3)), Let(At("a", Lit(0)), Lit(5)),
        Put(Calls("mix", <<Only(At("a", Lit(0))),
                           Calls("twice", <<Calls("twice", <<Id("x")>>)>>),
                           AssignExpression(V("x"), Lit(1))>>)),
        Put(Id("x"))>>)>> }

Features == {Program(<<main>>) : main \in Branching \union Assigned}
            \union {Program(decls) : decls \in Returning \union Scoped \union Passing}

MCPrograms == Mixtures \union Features
MCInputs == <<2, 1, 0>>

(***************************************************************************)
(* A program with a condition below zero.                                  *)
(***************************************************************************)
NegativePrograms == {Program(<<Main(<<>>, <<If(Minus(1), Put(Lit(1))), Put(Lit(2))>>)>>)}

(***************************************************************************)
(* A program with an int returned from a float function.                   *)
(***************************************************************************)
ReturnPrograms == {Program(<<Fun("float", "one", <<>>, <<>>, <<Give(Lit(1))>>),
                             Main(<<>>, <<PutFloat(Calls("one", <<>>))>>)>>)}

\* The programs of the three runs, and all the nodes below them.
RECURSIVE NodesOf(_)
NodesOf(n) == {n} \union UNION {NodesOf(n.kids[i]) : i \in DOMAIN n.kids}
MCNodes == UNION {NodesOf(program) : program \in MCPrograms \union NegativePrograms \union ReturnPrograms}
=============================================================================
