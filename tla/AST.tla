--------------------------------- MODULE AST ---------------------------------
(***************************************************************************)
(* The abstract syntax tree (include/ast.hpp, common/ast.cpp): its nodes,  *)
(* AST::transform_node_iter, which makes it from the syntax tree of the    *)
(* parser, and ASTPrinter, which prints it.                                *)
(*                                                                         *)
(* Every node is one record.  kids holds the children in the order the     *)
(* visitors take them, and a null child is absent: a condition and one     *)
(* statement are an if without else, one operand an expression without     *)
(* operator.  A float is a number of 1/FloatUnit.                          *)
(***************************************************************************)
EXTENDS Integers, Sequences, SequencesExt, TLC

MaxLiteral == 9        \* bound on the integer literals of the programs
FloatUnit == 16
FloatText == ("0.25" :> 4) @@ ("0.5" :> 8) @@ ("1.5" :> 24) @@ ("2.0" :> 32)

\* The sequence f, which \o makes TLC compute once and for all.
Computed(f) == f \o <<>>

Node(k, ty, id, op, val, kids) ==
  [k |-> k, ty |-> ty, id |-> id, op |-> op, val |-> val, kids |-> kids]

Program(decls) == Node("program", "", "", "", 0, decls)
Num(ty, val) == Node("num", ty, "", "", val, <<>>)
VarDeclaration(ty, id, num) == Node("var-declaration", ty, id, "", 0, num)
FunDeclaration(ty, id, params, body) ==
  Node("fun-declaration", ty, id, "", 0, Append(params, body))
Param(ty, id, isarray) == Node("param", ty, id, IF isarray THEN "[]" ELSE "", 0, <<>>)
CompoundStmt(decls, stmts) == Node("compound-stmt", "", "", "", 0, decls \o stmts)
ExpressionStmt(expr) == Node("expression-stmt", "", "", "", 0, expr)
SelectionStmt(expr, then, else) ==
  Node("selection-stmt", "", "", "", 0, <<expr, then>> \o else)
IterationStmt(expr, stmt) == Node("iteration-stmt", "", "", "", 0, <<expr, stmt>>)
ReturnStmt(expr) == Node("return-stmt", "", "", "", 0, expr)
AssignExpression(var, expr) == Node("assign-expression", "", "", "", 0, <<var, expr>>)
Var(id, expr) == Node("var", "", id, "", 0, expr)
Call(id, args) == Node("call", "", id, "", 0, args)

\* ASTSimpleExpression, ASTAdditiveExpression and ASTTerm: one operand or two.
Operation(k, op, operands) == Node(k, "", "", op, 0, operands)

(***************************************************************************)
(* transform_node_iter                                                     *)
(***************************************************************************)
\* std::stoi and std::stof of the literals the programs use.
stoi(text) == CHOOSE n \in 0 .. MaxLiteral : ToString(n) = text
stof(text) == FloatText[text]

\* The word of a type-specifier; a declaration knows only int, the rest is float.
Specifier(t) == t.children[1].children[1].name
ValueType(t) == IF Specifier(t) = "int" THEN "int" ELSE "float"

\* What the loops over a left-recursive list push: the last element first.
RECURSIVE Pushed(_, _)
Pushed(list, n) ==
  IF Len(list.children) = n
  THEN <<list.children[n]>> \o Pushed(list.children[1], n)
  ELSE <<list.children[1]>>

\* The elements as they are popped: in the order of the source.
Flattened(list, n) == Reverse(Pushed(list, n))

\* MUTANT of FlattenedOptional: the elements are taken as they were pushed.
FlattenedOptionalQueue(list) == Front(Pushed(list, 2))

\* A list that may be empty bottoms out in epsilon, which is not pushed.
FlattenedOptional(list) == Tail(Flattened(list, 2))

RECURSIVE Transform(_)
Kid(t, i) == Transform(t.children[i])
Each(trees) == Computed([i \in DOMAIN trees |-> Transform(trees[i])])

TransformDeclaration(t) ==
  LET size == Len(t.children)
      id == t.children[2].name
      params == t.children[4].children[1]
  IN
  CASE t.name = "program" -> Program(Each(Flattened(t.children[1], 2)))
    [] t.name = "declaration" -> Kid(t, 1)
    [] t.name = "var-declaration" ->
         VarDeclaration(ValueType(t), id,
                        IF size = 6 THEN <<Num("int", stoi(t.children[4].name))>> ELSE <<>>)
    [] t.name = "fun-declaration" ->
         FunDeclaration(Specifier(t), id,
                        IF params.children = <<>> THEN <<>> ELSE Each(Flattened(params, 3)),
                        Kid(t, 6))
    [] t.name = "param" -> Param(ValueType(t), id, size = 3)

TransformStatement(t) ==
  LET size == Len(t.children)
      Optional(i, present) == IF present THEN <<Kid(t, i)>> ELSE <<>>
  IN
  CASE t.name = "compound-stmt" ->
         CompoundStmt(Each(FlattenedOptional(t.children[2])),
                      Each(FlattenedOptional(t.children[3])))
    [] t.name = "statement" -> Kid(t, 1)
    [] t.name = "expression-stmt" -> ExpressionStmt(Optional(1, size = 2))
    [] t.name = "selection-stmt" -> SelectionStmt(Kid(t, 3), Kid(t, 5), Optional(7, size = 7))
    [] t.name = "iteration-stmt" -> IterationStmt(Kid(t, 3), Kid(t, 5))
    [] t.name = "return-stmt" -> ReturnStmt(Optional(2, size = 3))

TransformExpression(t) ==
  LET size == Len(t.children)
      name == t.children[1].name
      args == t.children[3].children[1]
  IN
  CASE t.name = "expression" ->
         IF size = 1 THEN Kid(t, 1) ELSE AssignExpression(Kid(t, 1), Kid(t, 3))
    [] t.name = "var" -> Var(name, IF size = 4 THEN <<Kid(t, 3)>> ELSE <<>>)
    [] t.name \in {"simple-expression", "additive-expression", "term"} ->
         IF size = 3 THEN Operation(t.name, t.children[2].children[1].name, <<Kid(t, 1), Kid(t, 3)>>)
         ELSE Operation(t.name, "", <<Kid(t, 1)>>)
    [] t.name = "call" ->
         Call(name, IF args.name = "arg-list" THEN Each(Flattened(args, 3)) ELSE <<>>)

TransformFactor(t) ==
  LET child == t.children[IF Len(t.children) = 3 THEN 2 ELSE 1]
      literal == child.children[1].name
  IN  CASE child.name = "integer" -> Num("int", stoi(literal))
        [] child.name = "float" -> Num("float", stof(literal))
        [] OTHER -> Transform(child)

Transform(t) ==
  CASE t.name \in {"program", "declaration", "var-declaration", "fun-declaration", "param"} ->
         TransformDeclaration(t)
    [] t.name \in {"compound-stmt", "statement", "expression-stmt", "selection-stmt",
                   "iteration-stmt", "return-stmt"} -> TransformStatement(t)
    [] t.name = "factor" -> TransformFactor(t)
    [] OTHER -> TransformExpression(t)

(***************************************************************************)
(* ASTPrinter: one line for each node, and the depth, a member of the      *)
(* printer, that visits of children change.                                *)
(***************************************************************************)
Label(n) ==
  [k |-> n.k, id |-> n.id, op |-> n.op, val |-> n.val,
   \* "num (int)" or "num (float)", "[]" after a name, ": void" after return
   note |-> IF n.k = "num" THEN n.ty
            ELSE IF n.k \in {"var", "var-declaration"} /\ n.kids # <<>> THEN "[]"
            ELSE IF n.k = "return-stmt" /\ n.kids = <<>> THEN "void" ELSE ""]

add_depth(printer) == [printer EXCEPT !.depth = @ + 2]
remove_depth(printer) == [printer EXCEPT !.depth = @ - 2]

\* _DEBUG_PRINT_N_ and the line of a node.
Line(printer, n) ==
  [printer EXCEPT !.lines = Append(@, [depth |-> printer.depth, label |-> Label(n)])]

RECURSIVE Printed(_, _)

\* The children of a node accept the printer one after the other.  A string of
\* negative length, the dashes of a line, cannot be made.
RECURSIVE AcceptEach(_, _)
AcceptEach(printer, nodes) ==
  IF nodes = <<>> \/ printer.depth < 0 THEN printer
  ELSE AcceptEach(Printed(printer, Head(nodes)), Tail(nodes))

\* ASTNum and ASTParam have no children.
PrintLeaf(printer, n) == Line(printer, n)

\* The methods that indent and come back whether or not a child is null.
Nested == {"program", "fun-declaration", "compound-stmt", "expression-stmt",
           "selection-stmt", "iteration-stmt", "assign-expression", "simple-expression",
           "additive-expression", "term", "call"}
PrintNested(printer, n) == remove_depth(AcceptEach(add_depth(Line(printer, n)), n.kids))

\* An array's size is visited deeper, and the method returns from there.
PrintVarDeclaration(printer, n) ==
  IF n.kids # <<>>
  THEN remove_depth(Printed(add_depth(Line(printer, n)), n.kids[1]))
  ELSE Line(printer, n)

\* MUTANT of PrintVar: the early return leaves the depth as it is.
PrintVarEarlyReturn(printer, n) ==
  IF n.kids # <<>>
  THEN Printed(add_depth(Line(printer, n)), n.kids[1])
  ELSE Line(printer, n)

\* So is an index.
PrintVar(printer, n) ==
  IF n.kids # <<>>
  THEN remove_depth(Printed(add_depth(Line(printer, n)), n.kids[1]))
  ELSE Line(printer, n)

\* A return without a value does not touch the depth.
PrintReturnStmt(printer, n) ==
  IF n.kids = <<>>
  THEN Line(printer, n)
  ELSE remove_depth(Printed(add_depth(Line(printer, n)), n.kids[1]))

\* accept: the visit method of the node's class.
Printed(printer, n) ==
  CASE n.k \in {"num", "param"} -> PrintLeaf(printer, n)
    [] n.k \in Nested -> PrintNested(printer, n)
    [] n.k = "var-declaration" -> PrintVarDeclaration(printer, n)
    [] n.k = "var" -> PrintVar(printer, n)
    [] n.k = "return-stmt" -> PrintReturnStmt(printer, n)

Outline(n) == Printed([depth |-> 0, lines |-> <<>>], n).lines

\* The tree an outline draws: the children of a line are the lines two deeper.
RECURSIVE Drawn(_)
Drawn(lines) ==
  LET first == SelectSeq([i \in DOMAIN lines |-> i],
                         LAMBDA i : lines[i].depth = lines[1].depth + 2)
      last(i) == IF i = Len(first) THEN Len(lines) ELSE first[i + 1] - 1
  IN  [label |-> lines[1].label,
       kids |-> Computed([i \in DOMAIN first |-> Drawn(SubSeq(lines, first[i], last(i)))])]

RECURSIVE Labelled(_)
Labelled(n) ==
  [label |-> Label(n), kids |-> Computed([i \in DOMAIN n.kids |-> Labelled(n.kids[i])])]
=============================================================================
