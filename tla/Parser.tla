------------------------------- MODULE Parser -------------------------------
(***************************************************************************)
(* The parser (src/parser/syntax_analyzer.y): the grammar of C-minus-f as  *)
(* data, the syntax tree its actions build, and the table-driven           *)
(* shift/reduce parser bison makes of it.  A token is a record of its      *)
(* terminal, sym, and its text; scanning characters into tokens is left to *)
(* flex.  Every action of the grammar is node(lhs, n, $1, ..., $n).        *)
(***************************************************************************)
EXTENDS Integers, Sequences, SequencesExt, TLC

Rule(lhs, rhs) == [lhs |-> lhs, rhs |-> rhs]

\* The rules lhs : alternative | alternative ...
Rules(lhs, alternatives) == {Rule(lhs, rhs) : rhs \in alternatives}

Declarations ==
  UNION { Rules("program", {<<"declaration-list">>}),
          Rules("declaration-list", {<<"declaration-list", "declaration">>, <<"declaration">>}),
          Rules("declaration", {<<"var-declaration">>, <<"fun-declaration">>}),
          Rules("var-declaration",
                {<<"type-specifier", "IDENTIFIER", "SEMICOLON">>,
                 <<"type-specifier", "IDENTIFIER", "LBRACKET", "INTEGER", "RBRACKET",
                   "SEMICOLON">>}),
          Rules("type-specifier", {<<"INT">>, <<"FLOAT">>, <<"VOID">>}),
          Rules("fun-declaration",
                {<<"type-specifier", "IDENTIFIER", "LPARENTHESE", "params", "RPARENTHESE",
                   "compound-stmt">>}),
          Rules("params", {<<"param-list">>, <<"VOID">>}),
          Rules("param-list", {<<"param-list", "COMMA", "param">>, <<"param">>}),
          Rules("param", {<<"type-specifier", "IDENTIFIER">>,
                          <<"type-specifier", "IDENTIFIER", "ARRAY">>}) }

Statements ==
  UNION { Rules("compound-stmt",
                {<<"LBRACE", "local-declarations", "statement-list", "RBRACE">>}),
          Rules("local-declarations", {<<"local-declarations", "var-declaration">>, <<>>}),
          Rules("statement-list", {<<"statement-list", "statement">>, <<>>}),
          Rules("statement", {<<"expression-stmt">>, <<"compound-stmt">>, <<"selection-stmt">>,
                              <<"iteration-stmt">>, <<"return-stmt">>}),
          Rules("expression-stmt", {<<"expression", "SEMICOLON">>, <<"SEMICOLON">>}),
          Rules("selection-stmt",
                {<<"IF", "LPARENTHESE", "expression", "RPARENTHESE", "statement">>,
                 <<"IF", "LPARENTHESE", "expression", "RPARENTHESE", "statement", "ELSE",
                   "statement">>}),
          Rules("iteration-stmt",
                {<<"WHILE", "LPARENTHESE", "expression", "RPARENTHESE", "statement">>}),
          Rules("return-stmt", {<<"RETURN", "SEMICOLON">>,
                                <<"RETURN", "expression", "SEMICOLON">>}) }

Expressions ==
  UNION { Rules("expression", {<<"var", "ASSIN", "expression">>, <<"simple-expression">>}),
          Rules("var", {<<"IDENTIFIER">>,
                        <<"IDENTIFIER", "LBRACKET", "expression", "RBRACKET">>}),
          Rules("simple-expression",
                {<<"additive-expression", "relop", "additive-expression">>,
                 <<"additive-expression">>}),
          Rules("relop", {<<"LTE">>, <<"LT">>, <<"GT">>, <<"GTE">>, <<"EQ">>, <<"NEQ">>}),
          Rules("additive-expression",
                {<<"additive-expression", "addop", "term">>, <<"term">>}),
          Rules("addop", {<<"ADD">>, <<"SUB">>}),
          Rules("term", {<<"term", "mulop", "factor">>, <<"factor">>}),
          Rules("mulop", {<<"MUL">>, <<"DIV">>}),
          Rules("factor", {<<"LPARENTHESE", "expression", "RPARENTHESE">>, <<"var">>,
                           <<"call">>, <<"integer">>, <<"float">>}),
          Rules("integer", {<<"INTEGER">>}),
          Rules("float", {<<"FLOATPOINT">>}),
          Rules("call", {<<"IDENTIFIER", "LPARENTHESE", "args", "RPARENTHESE">>}),
          Rules("args", {<<"arg-list">>, <<>>}),
          Rules("arg-list", {<<"arg-list", "COMMA", "expression">>, <<"expression">>}) }

Grammar == Declarations \union Statements \union Expressions

(***************************************************************************)
(* The tables bison computes: item sets, what can follow a nonterminal,    *)
(* and the next state.  A shift is preferred to a reduction, which is how  *)
(* bison settles the else that could belong to two ifs.                    *)
(***************************************************************************)
Nonterminals == {r.lhs : r \in Grammar}
Symbols == UNION {{r.lhs} \union ToSet(r.rhs) : r \in Grammar}
RulesFor == [X \in Symbols |-> {r \in Grammar : r.lhs = X}]
Nullable(X) == \E r \in RulesFor[X] : r.rhs = <<>>

\* The terminals a sequence of symbols can start with, given those of one symbol.
FirstOf(first, symbols) ==
  UNION {first[symbols[i]] :
           i \in {j \in DOMAIN symbols : \A k \in 1 .. j - 1 : Nullable(symbols[k])}}

RECURSIVE LeastFirst(_)
LeastFirst(first) ==
  LET larger == [X \in Symbols |-> first[X] \union
                   UNION {FirstOf(first, r.rhs) : r \in RulesFor[X]}]
  IN  IF larger = first THEN first ELSE LeastFirst(larger)
First == LeastFirst([X \in Symbols |-> IF X \in Nonterminals THEN {} ELSE {X}])

RECURSIVE LeastFollow(_)
LeastFollow(follow) ==
  LET After(r, i) ==
        LET rest == SubSeq(r.rhs, i + 1, Len(r.rhs))
        IN  FirstOf(First, rest) \union
            (IF \A k \in DOMAIN rest : Nullable(rest[k]) THEN follow[r.lhs] ELSE {})
      larger == [X \in Symbols |-> follow[X] \union
                   UNION {UNION {After(r, i) : i \in {j \in DOMAIN r.rhs : r.rhs[j] = X}} :
                            r \in Grammar}]
  IN  IF larger = follow THEN follow ELSE LeastFollow(larger)
Follow == LeastFollow([X \in Symbols |-> IF X = "program" THEN {"$end"} ELSE {}])

Complete(item) == item.dot > Len(item.rule.rhs)
NextSymbol(item) == item.rule.rhs[item.dot]
Item(r) == [rule |-> r, dot |-> 1]

RECURSIVE Closure(_)
Closure(items) ==
  LET wanted == {NextSymbol(i) : i \in {j \in items : ~Complete(j)}}
      larger == items \union {Item(r) : r \in {s \in Grammar : s.lhs \in wanted}}
  IN  IF larger = items THEN items ELSE Closure(larger)

GoTo(items, X) ==
  Closure({[i EXCEPT !.dot = @ + 1] : i \in {j \in items : ~Complete(j) /\ NextSymbol(j) = X}})

Start == Closure({Item(r) : r \in RulesFor["program"]})
Exits(items) == {NextSymbol(i) : i \in {j \in items : ~Complete(j)}}

RECURSIVE StatesFrom(_, _)
StatesFrom(found, new) ==
  LET next == UNION {{GoTo(q, X) : X \in Exits(q)} : q \in new} \ found
  IN  IF next = {} THEN found ELSE StatesFrom(found \union next, next)

\* For each state the states it goes to, and the rule it reduces by on a
\* terminal.  (@@ <<>> makes TLC compute a function once and for all.)
Table == [q \in StatesFrom({Start}, {Start}) |->
            [goto |-> [X \in Exits(q) |-> GoTo(q, X)] @@ <<>>,
             reductions |-> {i.rule : i \in {j \in q : Complete(j)}}]] @@ <<>>

(***************************************************************************)
(* Parsing: bison's two stacks, of states and of the trees of the symbols  *)
(* that led to them.                                                       *)
(***************************************************************************)
Tree(name, children) == [name |-> name, children |-> children]

\* pass_node of the scanner: a leaf named by the text of the token.
Leaf(token) == Tree(token.text, <<>>)

\* node(name, n, ...): an empty production gets one child named epsilon.
node(name, children) ==
  Tree(name, IF children = <<>> THEN <<Tree("epsilon", <<>>)>> ELSE children)

NoTree == Tree("syntax error", <<>>)

Stack(states, trees) == [states |-> states, trees |-> trees]
Without(seq, n) == SubSeq(seq, 1, Len(seq) - n)
Pop(yyss, n) == Stack(Without(yyss.states, n), Without(yyss.trees, n))
Push(yyss, X, made) ==
  Stack(Append(yyss.states, Table[Last(yyss.states)].goto[X]), Append(yyss.trees, made))
SyntaxError == Stack(<<>>, <<NoTree>>)

\* The stack when all reductions are done that the next terminal asks for; at
\* the end of the text that of program leaves the tree at gt->root.
RECURSIVE Reduced(_, _)
Reduced(yyss, sym) ==
  LET row == Table[Last(yyss.states)]
      by == {r \in row.reductions : sym \in Follow[r.lhs]}
      r == CHOOSE r \in by : TRUE
      n == Len(r.rhs)
      made == node(r.lhs, SubSeq(yyss.trees, Len(yyss.trees) - n + 1, Len(yyss.trees)))
  IN  IF yyss = SyntaxError \/ sym \in DOMAIN row.goto THEN yyss
      ELSE IF by = {} THEN SyntaxError
      ELSE IF r.lhs = "program" THEN Stack(<<>>, <<made>>)
      ELSE Reduced(Push(Pop(yyss, n), r.lhs, made), sym)

Shifted(yyss, token) ==
  IF yyss = SyntaxError THEN yyss ELSE Push(yyss, token.sym, Leaf(token))

\* The stack after all the tokens, taken half by half.
RECURSIVE yyparse(_, _)
yyparse(yyss, tokens) ==
  LET n == Len(tokens) \div 2
      half == yyparse(yyss, SubSeq(tokens, 1, n))
  IN  IF Len(tokens) = 1 THEN Shifted(Reduced(yyss, tokens[1].sym), tokens[1])
      ELSE IF half = SyntaxError THEN half
      ELSE yyparse(half, SubSeq(tokens, n + 1, Len(tokens)))

\* parse(): the tree at gt->root when yyparse accepts.
parse(tokens) == Last(Reduced(yyparse(Stack(<<Start>>, <<>>), tokens), "$end").trees)
=============================================================================
