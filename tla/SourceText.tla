------------------------------ MODULE SourceText ------------------------------
(***************************************************************************)
(* The text of a program as the scanner hands it to the parser: one token  *)
(* after the other, written the way a programmer would, with parentheses   *)
(* only where an expression stands for a factor.                           *)
(***************************************************************************)
EXTENDS AST

\* The tokens with one spelling only (parser/lexical_analyzer.l).
Spelling ==
  ("ADD" :> "+") @@ ("SUB" :> "-") @@ ("MUL" :> "*") @@ ("DIV" :> "/") @@
  ("LT" :> "<") @@ ("LTE" :> "<=") @@ ("GT" :> ">") @@ ("GTE" :> ">=") @@
  ("EQ" :> "==") @@ ("NEQ" :> "!=") @@ ("ASSIN" :> "=") @@ ("SEMICOLON" :> ";") @@
  ("COMMA" :> ",") @@ ("LPARENTHESE" :> "(") @@ ("RPARENTHESE" :> ")") @@
  ("LBRACKET" :> "[") @@ ("RBRACKET" :> "]") @@ ("LBRACE" :> "{") @@ ("RBRACE" :> "}") @@
  ("ELSE" :> "else") @@ ("IF" :> "if") @@ ("INT" :> "int") @@ ("FLOAT" :> "float") @@
  ("RETURN" :> "return") @@ ("VOID" :> "void") @@ ("WHILE" :> "while") @@ ("ARRAY" :> "[]")

Token(sym, text) == [sym |-> sym, text |-> text]
Word(text) == <<Token(CHOOSE sym \in DOMAIN Spelling : Spelling[sym] = text, text)>>
Name(id) == <<Token("IDENTIFIER", id)>>
Integer(n) == <<Token("INTEGER", ToString(n))>>
Float(n) == <<Token("FLOATPOINT", CHOOSE text \in DOMAIN FloatText : FloatText[text] = n)>>

\* The texts one after the other, with a word in between.
Separated(texts, word) ==
  FoldLeft(LAMBDA done, text : IF done = <<>> THEN text ELSE done \o Word(word) \o text,
           <<>>, texts)

RECURSIVE Text(_)
Text(n) ==
  LET kid(i) == Text(n.kids[i])
      all == Computed([i \in DOMAIN n.kids |-> kid(i)])
      Factor(i) == IF n.kids[i].k \in {"simple-expression", "assign-expression"}
                   THEN Word("(") \o kid(i) \o Word(")") ELSE kid(i)
      Index == Word("[") \o kid(1) \o Word("]")
  IN
  CASE n.k = "program" -> FlattenSeq(all)
    [] n.k = "num" -> IF n.ty = "int" THEN Integer(n.val) ELSE Float(n.val)
    [] n.k = "var-declaration" ->
         Word(n.ty) \o Name(n.id) \o (IF n.kids = <<>> THEN <<>> ELSE Index) \o Word(";")
    [] n.k = "fun-declaration" ->
         Word(n.ty) \o Name(n.id) \o Word("(") \o
         (IF Len(all) = 1 THEN Word("void") ELSE Separated(Front(all), ",")) \o
         Word(")") \o Last(all)
    [] n.k = "param" -> Word(n.ty) \o Name(n.id) \o (IF n.op = "" THEN <<>> ELSE Word("[]"))
    [] n.k = "compound-stmt" -> Word("{") \o FlattenSeq(all) \o Word("}")
    [] n.k = "expression-stmt" -> FlattenSeq(all) \o Word(";")
    [] n.k = "selection-stmt" ->
         Word("if") \o Word("(") \o kid(1) \o Word(")") \o kid(2) \o
         (IF Len(all) = 3 THEN Word("else") \o kid(3) ELSE <<>>)
    [] n.k = "iteration-stmt" -> Word("while") \o Word("(") \o kid(1) \o Word(")") \o kid(2)
    [] n.k = "return-stmt" -> Word("return") \o FlattenSeq(all) \o Word(";")
    [] n.k = "assign-expression" -> kid(1) \o Word("=") \o kid(2)
    [] n.k = "var" -> Name(n.id) \o (IF n.kids = <<>> THEN <<>> ELSE Index)
    [] n.k = "call" -> Name(n.id) \o Word("(") \o Separated(all, ",") \o Word(")")
    [] n.k \in {"simple-expression", "additive-expression"} ->
         IF Len(all) = 1 THEN kid(1) ELSE kid(1) \o Word(n.op) \o kid(2)
    [] n.k = "term" -> IF Len(all) = 1 THEN Factor(1) ELSE kid(1) \o Word(n.op) \o Factor(2)
=============================================================================
