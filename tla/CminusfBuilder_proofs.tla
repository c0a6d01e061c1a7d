------------------------ MODULE CminusfBuilder_proofs ------------------------
(***************************************************************************)
(* What CminusfBuilder promises of its flag and of its scopes, for every   *)
(* syntax tree that the classes of ast.hpp allow.                          *)
(*                                                                         *)
(* Every visit method leaves the stack of methods in one of the few ways   *)
(* StepShape lists.  They keep the stack a chain, each frame at a child of *)
(* the one below, and the scopes lexical: one for each construct of the    *)
(* chain that has entered its own.  The flag is read on the chain's last   *)
(* two frames alone.                                                       *)
(***************************************************************************)
EXTENDS CminusfBuilder, TLAPS, FiniteSetTheorems, SequenceTheorems

(***************************************************************************)
(* Sequences of anything, and frames.                                      *)
(***************************************************************************)
IsList(s) == \E S : s \in Seq(S)
IsFrame(f) == /\ "node" \in DOMAIN f /\ "pc" \in DOMAIN f
              /\ f.node \in Nodes /\ f.pc \in Nat

\* t has the elements of s below index n.
Below(s, t, n) == \A i \in 1 .. n - 1 : t[i] = s[i]

LEMMA HasElements ==
  ASSUME NEW s, Len(s) = 1
  PROVE  s # <<>>
  OBVIOUS

\* t is s with its last element replaced by e, or by e and f.
Replaced(s, t, e) ==
  IsList(t) /\ Len(t) = Len(s) /\ t[Len(s)] = e /\ Below(s, t, Len(s))
ReplacedByTwo(s, t, e, f) ==
  /\ IsList(t) /\ Len(t) = Len(s) + 1 /\ t[Len(s)] = e /\ t[Len(s) + 1] = f
  /\ Below(s, t, Len(s))

LEMMA ListLength ==
  ASSUME NEW s, IsList(s)
  PROVE  Len(s) \in Nat /\ DOMAIN s = 1 .. Len(s) /\ (s = <<>> <=> Len(s) = 0)
  BY DEF IsList

LEMMA FrontList ==
  ASSUME NEW S, NEW s \in Seq(S), s # <<>>
  PROVE  /\ Front(s) \in Seq(S) /\ Len(Front(s)) = Len(s) - 1
         /\ \A i \in 1 .. Len(s) - 1 : Front(s)[i] = s[i]
<1> DEFINE n == Len(s)
           w == SubSeq(s, 1, n - 1)
<1>1. n \in Nat \ {0} /\ \A i \in 1 .. n - 1 : s[i] \in S
  OBVIOUS
<1>2. /\ w \in Seq(S) /\ Len(w) = IF 1 <= n - 1 THEN (n - 1) - 1 + 1 ELSE 0
      /\ \A i \in 1 .. (n - 1) - 1 + 1 : w[i] = s[1 + i - 1]
  BY <1>1, SubSeqProperties
<1>3. Front(s) = w
  BY DEF Front
<1>. HIDE DEF n, w
<1>4. Len(w) = n - 1 /\ \A i \in 1 .. n - 1 : w[i] = s[i]
  BY <1>1, <1>2
<1>. QED BY <1>2, <1>3, <1>4 DEF n

LEMMA ReplaceLast ==
  ASSUME NEW s, IsList(s), s # <<>>, NEW e, NEW t, t = Append(Front(s), e)
  PROVE  Replaced(s, t, e)
<1>1. PICK S : s \in Seq(S)
  BY DEF IsList
<1> DEFINE T == S \union {e}
<1>2. s \in Seq(T) /\ e \in T
  BY <1>1
<1>. HIDE DEF T
<1>3. Front(s) \in Seq(T) /\ Len(Front(s)) = Len(s) - 1
      /\ \A i \in 1 .. Len(s) - 1 : Front(s)[i] = s[i]
  BY <1>2, FrontList
<1>. QED BY <1>2, <1>3 DEF IsList, Below, Replaced

LEMMA ReplaceLastTwo ==
  ASSUME NEW s, IsList(s), s # <<>>, NEW e, NEW f, NEW t, t = Front(s) \o <<e, f>>
  PROVE  ReplacedByTwo(s, t, e, f)
<1>1. PICK S : s \in Seq(S)
  BY DEF IsList
<1> DEFINE T == S \union {e, f}
<1>2. s \in Seq(T) /\ e \in T /\ f \in T
  BY <1>1
<1>. HIDE DEF T
<1>3. Front(s) \in Seq(T) /\ Len(Front(s)) = Len(s) - 1
      /\ \A i \in 1 .. Len(s) - 1 : Front(s)[i] = s[i]
  BY <1>2, FrontList
<1>. DEFINE u == Front(s)
<1>. HIDE DEF u
<1>4. t = u \o <<e, f>> /\ u \in Seq(T) /\ Len(u) = Len(s) - 1
  BY <1>3 DEF u
<1>5. t \in Seq(T) /\ Len(t) = Len(s) + 1
      /\ (\A i \in 1 .. Len(s) - 1 : t[i] = u[i]) /\ t[Len(s)] = e /\ t[Len(s) + 1] = f
  <2>1. <<e, f>> \in Seq(T) /\ Len(<<e, f>>) = 2 /\ <<e, f>>[1] = e /\ <<e, f>>[2] = f
    BY <1>2
  <2>2. /\ u \o <<e, f>> \in Seq(T)
        /\ Len(u \o <<e, f>>) = Len(u) + 2
        /\ \A i \in 1 .. Len(u) + 2 : (u \o <<e, f>>)[i] =
              IF i <= Len(u) THEN u[i] ELSE <<e, f>>[i - Len(u)]
    BY <1>4, <2>1, ConcatProperties
  <2>3. Len(s) \in Nat
    BY ListLength
  <2>. DEFINE w == u \o <<e, f>>
              p == <<e, f>>
  <2>4. t = w /\ w \in Seq(T) /\ p[1] = e /\ p[2] = f
        /\ Len(w) = Len(u) + 2
        /\ \A i \in 1 .. Len(u) + 2 : w[i] = IF i <= Len(u) THEN u[i] ELSE p[i - Len(u)]
    BY <1>4, <2>1, <2>2
  <2>. HIDE DEF w, p
  <2>5. Len(s) \in Nat \ {0}
    BY <2>3, ListLength
  <2>6. w[Len(s)] = e /\ w[Len(s) + 1] = f
    BY <1>4, <2>4, <2>5
  <2>7. \A i \in 1 .. Len(s) - 1 : w[i] = u[i]
    BY <1>4, <2>4, <2>5
  <2>8. Len(w) = Len(s) + 1
    BY <1>4, <2>4, <2>5
  <2>9. t = w /\ w \in Seq(T)
    BY <2>4
  <2>. QED BY <2>6, <2>7, <2>8, <2>9, Zenon
<1>. QED BY <1>3, <1>5 DEF IsList, u, Below, ReplacedByTwo

LEMMA RemoveLast ==
  ASSUME NEW s, IsList(s), s # <<>>, NEW t, t = Front(s)
  PROVE  /\ IsList(t) /\ Len(t) = Len(s) - 1
         /\ Below(s, t, Len(s))
<1>1. PICK S : s \in Seq(S)
  BY DEF IsList
<1>. QED BY <1>1, FrontList DEF IsList, Below

LEMMA FrameOfNode ==
  ASSUME NEW n \in Nodes
  PROVE  IsFrame(Frame(n)) /\ Frame(n).node = n /\ Frame(n).pc = 0
  BY DEF Frame, IsFrame

\* What a visit method writes to its local variables, and the next step of it.
LEMMA FrameAdvanced ==
  ASSUME NEW f, IsFrame(f), NEW g, g = [f EXCEPT !.pc = @ + 1]
  PROVE  IsFrame(g) /\ g.node = f.node /\ g.pc = f.pc + 1
  BY DEF IsFrame

SamePlace(f, g) == IsFrame(g) /\ g.node = f.node /\ g.pc = f.pc
Writes(f, g) == \E x, y : g \in {f, [f EXCEPT !.vals = x], [f EXCEPT !.bbs = x],
                                 [f EXCEPT !.vals = x, !.lvalue = y]}

LEMMA LocalsWritten ==
  ASSUME NEW f, IsFrame(f), NEW g, Writes(f, g)
  PROVE  SamePlace(f, g)
  BY DEF IsFrame, SamePlace, Writes

\* push, and the scopes below the one it changes.
LEMMA PushedName ==
  ASSUME NEW sc, IsList(sc), sc # <<>>, NEW name, NEW v, NEW u, u = push(sc, name, v)
  PROVE  /\ IsList(u) /\ Len(u) = Len(sc)
         /\ \A i \in 1 .. Len(sc) - 1 : u[i] = sc[i]
         /\ DOMAIN u[Len(sc)] = DOMAIN sc[Len(sc)] \union {name}
<1>1. PICK S : sc \in Seq(S)
  BY DEF IsList
<1> DEFINE e == insert(sc[Len(sc)], name, v)
           T == S \union {e}
<1>2. sc \in Seq(T) /\ e \in T
  BY <1>1
<1>3. u = [sc EXCEPT ![Len(sc)] = e]
  BY DEF push
<1>4. DOMAIN e = DOMAIN sc[Len(sc)] \union {name}
  BY DEF insert
<1>. HIDE DEF e, T
<1>. QED BY <1>2, <1>3, <1>4 DEF IsList

(***************************************************************************)
(* The stack.  A frame above another visits the child that the one below   *)
(* it has begun.                                                           *)
(***************************************************************************)
IsKid(f, n) ==
  /\ f.node.k # "var-declaration"
  /\ Begun(f) \in DOMAIN f.node.kids /\ n = f.node.kids[Begun(f)]

Chain(s) ==
  /\ IsList(s)
  /\ \A i \in 1 .. Len(s) : IsFrame(s[i])
  /\ s # <<>> => s[1].node.k = "program"
  /\ \A i \in 1 .. Len(s) - 1 : IsKid(s[i], s[i + 1].node)

\* t is s after accept on the next child, with the child's frame.
Descends(s, t) ==
  /\ IsList(t) /\ Len(t) = Len(s) + 1
  /\ Below(s, t, Len(s))
  /\ LET n == Len(s) IN
     /\ IsFrame(t[n]) /\ t[n].node = s[n].node /\ t[n].pc = s[n].pc + 1
     /\ s[n].node.k \in {"fun-declaration", "compound-stmt"} => s[n].pc > 0
     /\ IsKid(t[n], t[n + 1].node) /\ t[n + 1].pc = 0 /\ IsFrame(t[n + 1])

\* t is s after the first step of a construct, which enters a scope.
Begins(s, t) ==
  /\ IsList(t) /\ Len(t) = Len(s)
  /\ Below(s, t, Len(s))
  /\ LET n == Len(s) IN
     /\ s[n].node.k \in {"fun-declaration", "compound-stmt"} /\ s[n].pc = 0
     /\ IsFrame(t[n]) /\ t[n].node = s[n].node /\ t[n].pc = 1

\* t is s after a method has returned.
Returns(s, t) ==
  /\ IsList(t) /\ Len(t) = Len(s) - 1
  /\ Below(s, t, Len(s))

LEMMA DescentKeepsChain ==
  ASSUME NEW s, Chain(s), s # <<>>, NEW t, Descends(s, t)
  PROVE  Chain(t)
<1> DEFINE n == Len(s)
<1>1. n \in Nat \ {0}
  BY ListLength DEF Chain
<1>2. /\ IsList(t) /\ Len(t) = n + 1
      /\ Below(s, t, n)
      /\ IsFrame(t[n]) /\ t[n].node = s[n].node
      /\ IsKid(t[n], t[n + 1].node) /\ IsFrame(t[n + 1])
  BY DEF Descends
<1>3. /\ \A i \in 1 .. n : IsFrame(s[i])
      /\ s[1].node.k = "program"
      /\ \A i \in 1 .. n - 1 : IsKid(s[i], s[i + 1].node)
  BY DEF Chain
<1>. HIDE DEF n
<1>4. \A i \in 1 .. n + 1 : IsFrame(t[i])
  BY <1>1, <1>2, <1>3 DEF Below
<1>5. t[1].node.k = "program"
  BY <1>1, <1>2, <1>3 DEF Below
<1>6. \A i \in 1 .. n : IsKid(t[i], t[i + 1].node)
  <2>1. ASSUME NEW i \in 1 .. n - 1  PROVE IsKid(t[i], t[i + 1].node)
    BY <1>1, <1>2, <1>3 DEF Below
  <2>. QED BY <1>1, <1>2, <2>1
<1>. QED BY <1>1, <1>2, <1>4, <1>5, <1>6 DEF Chain

LEMMA BeginningKeepsChain ==
  ASSUME NEW s, Chain(s), s # <<>>, NEW t, Begins(s, t)
  PROVE  Chain(t)
<1> DEFINE n == Len(s)
<1>1. n \in Nat \ {0}
  BY ListLength DEF Chain
<1>2. /\ IsList(t) /\ Len(t) = n
      /\ Below(s, t, n)
      /\ IsFrame(t[n]) /\ t[n].node = s[n].node
  BY DEF Begins
<1>3. /\ \A i \in 1 .. n : IsFrame(s[i])
      /\ s[1].node.k = "program"
      /\ \A i \in 1 .. n - 1 : IsKid(s[i], s[i + 1].node)
  BY DEF Chain
<1>. HIDE DEF n
<1>4. \A i \in 1 .. n : IsFrame(t[i]) /\ t[i].node = s[i].node
  BY <1>1, <1>2, <1>3 DEF Below
<1>5. \A i \in 1 .. n - 1 : IsKid(t[i], t[i + 1].node)
  BY <1>1, <1>2, <1>3, <1>4 DEF Below
<1>. QED BY <1>1, <1>2, <1>3, <1>4, <1>5 DEF Chain

LEMMA ReturnKeepsChain ==
  ASSUME NEW s, Chain(s), s # <<>>, NEW t, Returns(s, t)
  PROVE  Chain(t)
<1> DEFINE n == Len(s)
<1>1. n \in Nat \ {0}
  BY ListLength DEF Chain
<1>2. /\ IsList(t) /\ Len(t) = n - 1
      /\ Below(s, t, n)
  BY DEF Returns
<1>3. /\ \A i \in 1 .. n : IsFrame(s[i])
      /\ s[1].node.k = "program"
      /\ \A i \in 1 .. n - 1 : IsKid(s[i], s[i + 1].node)
  BY DEF Chain
<1>. HIDE DEF n
<1>4. \A i \in 1 .. n - 1 : IsFrame(t[i])
  BY <1>1, <1>2, <1>3 DEF Below
<1>5. t # <<>> => t[1].node.k = "program"
  <2>1. t # <<>> => n - 1 # 0
    BY <1>2, ListLength
  <2>. QED BY <1>1, <1>2, <1>3, <2>1 DEF Below
<1>6. \A i \in 1 .. n - 2 : IsKid(t[i], t[i + 1].node)
  BY <1>1, <1>2, <1>3 DEF Below
<1>7. (n - 1) - 1 = n - 2
  BY <1>1
<1>. QED BY <1>2, <1>4, <1>5, <1>6, <1>7 DEF Chain

\* Where a node can stand.
LEMMA KidFacts ==
  ASSUME NEW f, IsFrame(f), NEW n, IsKid(f, n)
  PROVE  /\ n \in Nodes /\ n.k # "program"
         /\ n.k = "fun-declaration" => f.node.k = "program"
         /\ n.k = "compound-stmt" => f.node.k # "program"
         /\ n.k \in {"var-declaration", "param"} => Opens(f)
         /\ f.node.k = "program" => n.k \in {"var-declaration", "fun-declaration"}
         /\ f.node.k \in {"fun-declaration", "compound-stmt"} => Opens(f)
         /\ Begun(f) \in Nat \ {0}
<1> DEFINE p == f.node
           i == Begun(f)
<1>1. p \in Nodes /\ p.kids \in Seq(Nodes) /\ Len(p.kids) \in KidCount(p)
      /\ p.kids[i].k \in KidClasses(p, i) /\ i \in DOMAIN p.kids /\ n = p.kids[i]
      /\ p.k # "var-declaration" /\ f.pc \in Nat
  BY NodesAssumption DEF WellFormed, IsFrame, IsKid
<1>2. i \in Nat \ {0} /\ n \in Nodes /\ n.k \in KidClasses(p, i)
  BY <1>1
<1>3. p.k \in {"fun-declaration", "compound-stmt"} => f.pc > 0
  BY <1>1, <1>2 DEF Begun
<1>. HIDE DEF i
<1>4. n.k # "program" /\ (n.k = "fun-declaration" => p.k = "program")
      /\ (p.k = "program" => n.k \in {"var-declaration", "fun-declaration"})
      /\ (n.k = "param" => p.k = "fun-declaration")
      /\ (n.k = "var-declaration" => p.k \in {"program", "compound-stmt"})
  BY <1>1, <1>2 DEF KidClasses, StatementClasses, ExpressionClasses
<1>. QED BY <1>2, <1>3, <1>4 DEF Opens, i

LEMMA ChainFacts ==
  ASSUME NEW s, Chain(s), s # <<>>
  PROVE  /\ Len(s) \in Nat \ {0} /\ Opens(s[1])
         /\ \A i \in 1 .. Len(s) : s[i].node \in Nodes /\ s[i].pc \in Nat
         /\ \A i \in 2 .. Len(s) : s[i].node.k # "program"
         /\ \A i \in 1 .. Len(s) : s[i].node.k = "fun-declaration" => i = 2
         /\ Len(s) > 2 => s[2].node.k = "fun-declaration" /\ Opens(s[2])
         /\ Len(s) > 1 => s[2].node.k \in {"var-declaration", "fun-declaration"}
<1> DEFINE n == Len(s)
<1>1. n \in Nat \ {0}
  BY ListLength DEF Chain
<1>2. /\ \A i \in 1 .. n : IsFrame(s[i])
      /\ s[1].node.k = "program"
      /\ \A i \in 1 .. n - 1 : IsKid(s[i], s[i + 1].node)
  BY DEF Chain
<1>. HIDE DEF n
<1>3. ASSUME NEW i \in 2 .. n
      PROVE  /\ s[i].node.k # "program"
             /\ s[i].node.k = "fun-declaration" => s[i - 1].node.k = "program"
  <2>1. i - 1 \in 1 .. n - 1 /\ i - 1 \in 1 .. n /\ (i - 1) + 1 = i
    BY <1>1
  <2>2. IsFrame(s[i - 1]) /\ IsKid(s[i - 1], s[i].node)
    BY <1>2, <2>1
  <2>. QED BY <2>2, KidFacts
<1>4. \A i \in 1 .. n : s[i].node.k = "fun-declaration" => i = 2
  BY <1>1, <1>2, <1>3
<1>5. ASSUME n > 1  PROVE s[2].node.k \in {"var-declaration", "fun-declaration"}
  <2>1. IsFrame(s[1]) /\ IsKid(s[1], s[2].node)
    BY <1>1, <1>2, <1>5
  <2>. QED BY <1>2, <2>1, KidFacts
<1>6. ASSUME n > 2  PROVE s[2].node.k = "fun-declaration" /\ Opens(s[2])
  <2>1. IsFrame(s[2]) /\ IsKid(s[2], s[3].node)
    BY <1>1, <1>2, <1>6
  <2>2. s[2].node.k = "fun-declaration"
    BY <1>1, <1>5, <1>6, <2>1 DEF IsKid
  <2>. QED BY <2>1, <2>2, KidFacts
<1>. QED BY <1>1, <1>2, <1>3, <1>4, <1>5, <1>6 DEF Opens, IsFrame, n

(***************************************************************************)
(* What one step of a visit method does to the stack and the scopes.       *)
(***************************************************************************)
Constructs == {"fun-declaration", "compound-stmt"}
Declaring == {"var-declaration", "param"}

StepShape(s, t, sc, u) ==
  LET n == s[Len(s)].node IN
  \/ Descends(s, t) /\ u = sc
  \/ Begins(s, t) /\ n.k = "compound-stmt" /\ u = enter(sc)
  \/ Begins(s, t) /\ n.k = "fun-declaration" /\ \E v : u = enter(push(sc, n.id, v))
  \/ Returns(s, t) /\ n.k \in Constructs /\ s[Len(s)].pc > Len(n.kids) /\ u = exit(sc)
  \/ Returns(s, t) /\ n.k \in Declaring /\ \E v : u = push(sc, n.id, v)
  \/ Returns(s, t) /\ n.k \notin Constructs \union Declaring /\ u = sc
  \/ t = s /\ u = sc

LEMMA TopFacts ==
  ASSUME Chain(stack), stack # <<>>
  PROVE  /\ IsList(stack) /\ Len(stack) \in Nat \ {0} /\ top = stack[Len(stack)]
         /\ IsFrame(top) /\ top.pc \in Nat /\ top.node \in Nodes
         /\ kids = top.node.kids /\ Len(kids) \in Nat /\ DOMAIN kids = 1 .. Len(kids)
         /\ Len(kids) \in KidCount(top.node) /\ \A i \in DOMAIN kids : kids[i] \in Nodes
<1>1. IsList(stack) /\ Len(stack) \in Nat \ {0} /\ top = stack[Len(stack)]
  BY ListLength DEF Chain, top, Last
<1>2. IsFrame(top)
  BY <1>1 DEF Chain
<1>3. top.node \in Nodes /\ top.pc \in Nat
  BY <1>2 DEF IsFrame
<1>4. kids \in Seq(Nodes) /\ Len(kids) \in KidCount(top.node)
  BY <1>3, NodesAssumption DEF WellFormed, kids
<1>. HIDE DEF kids
<1>5. Len(kids) \in Nat /\ DOMAIN kids = 1 .. Len(kids) /\ \A i \in DOMAIN kids : kids[i] \in Nodes
  BY <1>4
<1>. QED BY <1>1, <1>2, <1>3, <1>4, <1>5 DEF kids

\* accept on child i of the top frame, whose local variables may have changed.
LEMMA FramesDescend ==
  ASSUME NEW s, IsList(s), s # <<>>, NEW g, NEW c, IsFrame(g), IsFrame(c),
         g.node = s[Len(s)].node, g.pc = s[Len(s)].pc + 1,
         g.node.k \in Constructs => s[Len(s)].pc > 0,
         IsKid(g, c.node), c.pc = 0,
         NEW t, t = Front(s) \o <<g, c>>
  PROVE  Descends(s, t)
<1>1. ReplacedByTwo(s, t, g, c)
  BY ReplaceLastTwo
<1>. QED BY <1>1 DEF Descends, Constructs, ReplacedByTwo

LEMMA BegunNext ==
  ASSUME NEW f, NEW g, f.pc \in Nat, g.node = f.node, g.pc = f.pc + 1
  PROVE  Begun(g) = f.pc + (IF f.node.k \in Constructs THEN 0 ELSE 1)
  BY DEF Begun, Constructs

LEMMA AcceptDescends ==
  ASSUME NEW s, IsList(s), s # <<>>, IsFrame(s[Len(s)]),
         NEW f, IsFrame(f), f.node = s[Len(s)].node, f.pc = s[Len(s)].pc,
         f.node.k # "var-declaration",
         f.node.k \in Constructs => f.pc > 0,
         NEW i \in DOMAIN f.node.kids,
         i = f.pc + (IF f.node.k \in Constructs THEN 0 ELSE 1),
         NEW t, t = Front(s) \o <<[f EXCEPT !.pc = @ + 1], Frame(f.node.kids[i])>>
  PROVE  Descends(s, t)
<1> DEFINE g == [f EXCEPT !.pc = @ + 1]
           c == Frame(f.node.kids[i])
<1>1. f.node.kids[i] \in Nodes /\ f.pc \in Nat
  <2>1. f.node \in Nodes /\ f.pc \in Nat
    BY DEF IsFrame
  <2> DEFINE l == f.node.kids
  <2>2. l \in Seq(Nodes) /\ i \in DOMAIN l
    BY <2>1, NodesAssumption DEF WellFormed
  <2>. HIDE DEF l
  <2>3. l[i] \in Nodes
    BY <2>2
  <2>. QED BY <2>1, <2>3 DEF l
<1>2. IsFrame(c) /\ c.node = f.node.kids[i] /\ c.pc = 0
  BY <1>1, FrameOfNode
<1>3. IsFrame(g) /\ g.node = f.node /\ g.pc = f.pc + 1
  BY FrameAdvanced
<1>4. t = Front(s) \o <<g, c>>
  OBVIOUS
<1>. HIDE DEF g, c
<1>5. Begun(g) = i
  <2>1. Begun(g) = f.pc + (IF f.node.k \in Constructs THEN 0 ELSE 1)
    BY <1>1, <1>3, BegunNext
  <2>. QED BY <2>1
<1>6. IsKid(g, c.node)
  BY <1>2, <1>3, <1>5 DEF IsKid
<1>7. g.node = s[Len(s)].node /\ g.pc = s[Len(s)].pc + 1
      /\ (g.node.k \in Constructs => s[Len(s)].pc > 0)
  BY <1>3
<1>. QED BY <1>2, <1>3, <1>4, <1>6, <1>7, FramesDescend

LEMMA ProceedBegins ==
  ASSUME NEW s, IsList(s), s # <<>>, IsFrame(s[Len(s)]),
         NEW f, IsFrame(f), f.node = s[Len(s)].node, f.pc = 0, s[Len(s)].pc = 0,
         f.node.k \in Constructs,
         NEW t, t = Append(Front(s), [f EXCEPT !.pc = @ + 1])
  PROVE  Begins(s, t)
<1> DEFINE g == [f EXCEPT !.pc = @ + 1]
           n == Len(s)
<1>1. IsFrame(g) /\ g.node = f.node /\ g.pc = f.pc + 1
  BY FrameAdvanced
<1>4. t = Append(Front(s), g)
  OBVIOUS
<1>. HIDE DEF g
<1>2. Replaced(s, t, g)
  BY <1>4, ReplaceLast
<1>3. f.node = s[n].node /\ f.pc = 0 /\ s[n].pc = 0 /\ n = Len(s)
  OBVIOUS
<1>. QED BY <1>1, <1>2, <1>3 DEF Begins, Constructs, Replaced

LEMMA LeaveReturns ==
  ASSUME NEW s, IsList(s), s # <<>>, NEW t, t = Front(s)
  PROVE  Returns(s, t)
  BY RemoveLast DEF Returns

LEMMA ProgramShape ==
  ASSUME Chain(stack), VisitProgram
  PROVE  StepShape(stack, stack', scope, scope')
<1>1. stack # <<>> /\ top.node.k = "program" /\ scope' = scope
  BY DEF VisitProgram, Visiting
<1>2. CASE top.pc < Len(kids)
  <2>1. stack' = Front(stack) \o <<[top EXCEPT !.pc = @ + 1], Frame(top.node.kids[top.pc + 1])>>
    BY <1>2 DEF VisitProgram, Accept, kids
  <2>2. top.pc + 1 \in DOMAIN top.node.kids
    BY <1>1, <1>2, TopFacts
  <2>3. Descends(stack, stack')
    BY <1>1, <2>1, <2>2, TopFacts, AcceptDescends DEF Constructs
  <2>. QED BY <1>1, <2>3 DEF StepShape
<1>3. CASE ~(top.pc < Len(kids))
  <2>1. Returns(stack, stack')
    BY <1>1, <1>3, TopFacts, LeaveReturns DEF VisitProgram, Leave
  <2>. QED BY <1>1, <2>1, TopFacts DEF StepShape, Constructs, Declaring
<1>. QED BY <1>2, <1>3

LEMMA AcceptShape ==
  ASSUME Chain(stack), stack # <<>>,
         NEW f, IsFrame(f), f.node = top.node, f.pc = top.pc,
         top.node.k # "var-declaration",
         top.node.k \in Constructs => top.pc > 0,
         NEW i \in DOMAIN kids,
         i = top.pc + (IF top.node.k \in Constructs THEN 0 ELSE 1),
         Accept(f, kids[i]), scope' = scope
  PROVE  StepShape(stack, stack', scope, scope')
<1>1. IsList(stack) /\ IsFrame(stack[Len(stack)]) /\ top = stack[Len(stack)] /\ kids = f.node.kids
  BY TopFacts
<1>2. stack' = Front(stack) \o <<[f EXCEPT !.pc = @ + 1], Frame(f.node.kids[i])>>
  BY <1>1 DEF Accept
<1>3. Descends(stack, stack')
  BY <1>1, <1>2, AcceptDescends
<1>. QED BY <1>3 DEF StepShape

LEMMA LeaveShape ==
  ASSUME Chain(stack), stack # <<>>, top.node.k \notin Constructs \union Declaring,
         Leave, scope' = scope
  PROVE  StepShape(stack, stack', scope, scope')
<1>1. Returns(stack, stack')
  BY TopFacts, LeaveReturns DEF Leave
<1>. QED BY <1>1, TopFacts DEF StepShape

LEMMA DeclarationShape ==
  ASSUME Chain(stack), VisitVarDeclaration \/ VisitParam
  PROVE  StepShape(stack, stack', scope, scope')
<1>1. stack # <<>> /\ top.node.k \in Declaring
  BY DEF VisitVarDeclaration, VisitParam, Visiting, Declaring
<1>2. Leave /\ \E v : scope' = push(scope, top.node.id, v)
  BY DEF VisitVarDeclaration, VisitParam
<1>3. Returns(stack, stack')
  BY <1>1, <1>2, TopFacts, LeaveReturns DEF Leave
<1>. QED BY <1>1, <1>2, <1>3, TopFacts DEF StepShape

LEMMA CompoundShape ==
  ASSUME Chain(stack), VisitCompoundStmt
  PROVE  StepShape(stack, stack', scope, scope')
<1>1. stack # <<>> /\ top.node.k = "compound-stmt" /\ top.node.k \in Constructs
  BY DEF VisitCompoundStmt, Visiting, Constructs
<1>2. CASE top.pc = 0 /\ scope' = enter(scope) /\ Proceed(top)
  <2>1. stack' = Append(Front(stack), [top EXCEPT !.pc = @ + 1])
    BY <1>2 DEF Proceed
  <2>2. Begins(stack, stack')
    BY <1>1, <1>2, <2>1, TopFacts, ProceedBegins
  <2>. QED BY <1>1, <1>2, <2>2, TopFacts DEF StepShape
<1>3. CASE top.pc \in DOMAIN kids /\ Accept(top, kids[top.pc]) /\ scope' = scope
  <2>1. IsFrame(top) /\ top.pc > 0 /\ top.pc = top.pc + 0 /\ top.node.k # "var-declaration"
    BY <1>1, <1>3, TopFacts
  <2>. QED BY <1>1, <1>3, <2>1, AcceptShape
<1>4. CASE top.pc > Len(kids) /\ scope' = exit(scope) /\ Leave
  <2>1. Returns(stack, stack')
    BY <1>1, <1>4, TopFacts, LeaveReturns DEF Leave
  <2>. QED BY <1>1, <1>4, <2>1, TopFacts DEF StepShape
<1>. QED BY <1>2, <1>3, <1>4 DEF VisitCompoundStmt

LEMMA FunctionShape ==
  ASSUME Chain(stack), VisitFunDeclaration
  PROVE  StepShape(stack, stack', scope, scope')
<1>1. stack # <<>> /\ top.node.k = "fun-declaration" /\ top.node.k \in Constructs
  BY DEF VisitFunDeclaration, Visiting, Constructs
<1>2. CASE /\ top.pc = 0 /\ \E v : scope' = enter(push(scope, top.node.id, v))
           /\ \E x : Proceed([top EXCEPT !.vals = x])
  <2>1. PICK x : stack' = Append(Front(stack), [[top EXCEPT !.vals = x] EXCEPT !.pc = @ + 1])
    BY <1>2 DEF Proceed
  <2>. DEFINE f == [top EXCEPT !.vals = x]
  <2>2. IsFrame(top) /\ Writes(top, f)
    BY <1>1, TopFacts DEF Writes
  <2>6. SamePlace(top, f)
    BY <2>2, LocalsWritten
  <2>3. IsFrame(f) /\ f.node = top.node /\ f.pc = top.pc
    BY <2>6 DEF SamePlace
  <2>4. stack' = Append(Front(stack), [f EXCEPT !.pc = @ + 1])
    BY <2>1
  <2>. HIDE DEF f
  <2>5. Begins(stack, stack')
    BY <1>1, <1>2, <2>3, <2>4, TopFacts, ProceedBegins
  <2>. QED BY <1>1, <1>2, <2>5, TopFacts DEF StepShape
<1>3. CASE top.pc \in DOMAIN kids /\ Accept(top, kids[top.pc]) /\ scope' = scope
  <2>1. IsFrame(top) /\ top.pc > 0 /\ top.pc = top.pc + 0 /\ top.node.k # "var-declaration"
    BY <1>1, <1>3, TopFacts
  <2>. QED BY <1>1, <1>3, <2>1, AcceptShape
<1>4. CASE top.pc > Len(kids) /\ scope' = exit(scope) /\ Leave
  <2>1. Returns(stack, stack')
    BY <1>1, <1>4, TopFacts, LeaveReturns DEF Leave
  <2>. QED BY <1>1, <1>4, <2>1, TopFacts DEF StepShape
<1>5. \/ /\ top.pc = 0 /\ \E v : scope' = enter(push(scope, top.node.id, v))
         /\ \E x : Proceed([top EXCEPT !.vals = x])
      \/ top.pc \in DOMAIN kids /\ Accept(top, kids[top.pc]) /\ scope' = scope
      \/ top.pc > Len(kids) /\ scope' = exit(scope) /\ Leave
  BY DEF VisitFunDeclaration
<1>. QED BY <1>2, <1>3, <1>4, <1>5

\* The methods of statements and expressions, which leave the scopes alone.
LEMMA ChildShape ==
  ASSUME Chain(stack), stack # <<>>,
         top.node.k \notin Constructs \union Declaring \union {"program"},
         NEW f, Writes(top, f), NEW i, i \in DOMAIN kids, i = top.pc + 1,
         Accept(f, kids[i]), scope' = scope
  PROVE  StepShape(stack, stack', scope, scope')
<1>1. IsFrame(top)
  BY TopFacts
<1>2. SamePlace(top, f)
  BY <1>1, LocalsWritten
<1>3. IsFrame(f) /\ f.node = top.node /\ f.pc = top.pc
  BY <1>2 DEF SamePlace
<1>4. top.node.k # "var-declaration" /\ top.node.k \notin Constructs
  BY DEF Declaring
<1>5. i = top.pc + (IF top.node.k \in Constructs THEN 0 ELSE 1)
  BY <1>4
<1>. QED BY <1>3, <1>4, <1>5, AcceptShape

LEMMA SimpleStatementShape ==
  ASSUME Chain(stack), VisitExpressionStmt \/ VisitReturnStmt
  PROVE  StepShape(stack, stack', scope, scope')
<1>1. /\ stack # <<>> /\ top.node.k \in {"expression-stmt", "return-stmt"} /\ scope' = scope
      /\ top.node.k \notin Constructs \union Declaring \union {"program"}
  BY DEF VisitExpressionStmt, VisitReturnStmt, Visiting, Crash, Constructs, Declaring
<1>2. Len(kids) \in 0 .. 1 /\ DOMAIN kids = 1 .. Len(kids) /\ top.pc \in Nat
  BY <1>1, TopFacts DEF KidCount
<1>3. \/ Leave
      \/ top.pc < Len(kids) /\ Accept(top, kids[1])
      \/ top.pc = 0 /\ kids # <<>> /\ Accept(top, kids[1])
      \/ stack' = stack
  BY DEF VisitExpressionStmt, VisitReturnStmt, Crash
<1>4. CASE Leave
  BY <1>1, <1>4, LeaveShape
<1>5. CASE stack' = stack
  BY <1>1, <1>5 DEF StepShape
<1>6. CASE (top.pc < Len(kids) \/ (top.pc = 0 /\ kids # <<>>)) /\ Accept(top, kids[1])
  <2>1. Len(kids) > 0
    BY <1>1, <1>2, <1>6, TopFacts, ListLength
  <2>2. 1 \in DOMAIN kids /\ 1 = top.pc + 1
    BY <1>2, <1>6, <2>1
  <2>. QED BY <1>1, <1>6, <2>2, ChildShape DEF Writes
<1>. QED BY <1>3, <1>4, <1>5, <1>6

LEMMA BranchingShape ==
  ASSUME Chain(stack), VisitSelectionStmt \/ VisitIterationStmt
  PROVE  StepShape(stack, stack', scope, scope')
<1>1. /\ stack # <<>> /\ top.node.k \in {"selection-stmt", "iteration-stmt"} /\ scope' = scope
      /\ top.node.k \notin Constructs \union Declaring \union {"program"}
  BY DEF VisitSelectionStmt, VisitIterationStmt, Visiting, Constructs, Declaring
<1>2. Len(kids) \in 2 .. 3 /\ DOMAIN kids = 1 .. Len(kids)
  BY <1>1, TopFacts DEF KidCount
<1>3. \/ top.pc = 0 /\ \E f : Writes(top, f) /\ Accept(f, kids[1])
      \/ top.pc = 1 /\ \E f : Writes(top, f) /\ Accept(f, kids[2])
      \/ top.pc = 2 /\ Len(kids) = 3 /\ \E f : Writes(top, f) /\ Accept(f, kids[3])
      \/ Leave
  <2>1. CASE VisitSelectionStmt
    BY <2>1 DEF VisitSelectionStmt, Writes
  <2>2. CASE VisitIterationStmt
    BY <2>2 DEF VisitIterationStmt, Writes
  <2>. QED BY <2>1, <2>2
<1>4. CASE Leave
  BY <1>1, <1>4, LeaveShape
<1>5. ASSUME NEW f, Writes(top, f), NEW i, i \in 1 .. Len(kids), i = top.pc + 1, Accept(f, kids[i])
      PROVE  StepShape(stack, stack', scope, scope')
  BY <1>1, <1>2, <1>5, ChildShape
<1>. QED BY <1>2, <1>3, <1>4, <1>5

LEMMA ExpressionShape ==
  ASSUME Chain(stack), VisitNum \/ VisitVar \/ VisitAssignExpression \/ VisitCall
  PROVE  StepShape(stack, stack', scope, scope')
<1>1. /\ stack # <<>> /\ top.node.k \in {"num", "var", "assign-expression", "call"}
      /\ scope' = scope
      /\ top.node.k \notin Constructs \union Declaring \union {"program"}
  BY DEF VisitNum, VisitVar, VisitAssignExpression, VisitCall, Visiting, Constructs, Declaring
<1>2. /\ Len(kids) \in Nat /\ DOMAIN kids = 1 .. Len(kids) /\ top.pc \in Nat
      /\ top.node.k = "var" => Len(kids) \in 0 .. 1
      /\ top.node.k = "assign-expression" => Len(kids) = 2
  BY <1>1, TopFacts DEF KidCount
<1>3. \/ \E f, i : Writes(top, f) /\ i \in 1 .. Len(kids) /\ i = top.pc + 1 /\ Accept(f, kids[i])
      \/ Leave
      \/ stack' = stack
  <2>1. CASE VisitNum
    BY <2>1 DEF VisitNum
  <2>2. CASE VisitVar
    <3>1. \/ top.pc < Len(kids) /\ \E f : Writes(top, f) /\ Accept(f, kids[1])
          \/ Leave
          \/ stack' = stack
      BY <2>2 DEF VisitVar, Writes
    <3>2. top.node.k = "var"
      BY <2>2 DEF VisitVar, Visiting
    <3>3. top.pc < Len(kids) => 1 \in 1 .. Len(kids) /\ 1 = top.pc + 1
      BY <1>2, <3>2
    <3>. QED BY <3>1, <3>3
  <2>3. CASE VisitAssignExpression
    <3>1. \/ top.pc = 0 /\ \E f : Writes(top, f) /\ Accept(f, kids[1])
          \/ top.pc = 1 /\ \E f : Writes(top, f) /\ Accept(f, kids[2])
          \/ Leave
      BY <2>3 DEF VisitAssignExpression, Writes
    <3>2. top.node.k = "assign-expression"
      BY <2>3 DEF VisitAssignExpression, Visiting
    <3>. QED BY <1>2, <3>1, <3>2
  <2>4. CASE VisitCall
    <3>1. \/ top.pc < Len(kids) /\ \E f : Writes(top, f) /\ Accept(f, kids[top.pc + 1])
          \/ Leave
          \/ stack' = stack
      BY <2>4 DEF VisitCall, Writes
    <3>2. top.pc < Len(kids) => top.pc + 1 \in 1 .. Len(kids)
      BY <1>2
    <3>. QED BY <3>1, <3>2
  <2>. QED BY <2>1, <2>2, <2>3, <2>4
<1>4. CASE Leave
  BY <1>1, <1>4, LeaveShape
<1>5. CASE stack' = stack
  BY <1>1, <1>5 DEF StepShape
<1>6. ASSUME NEW f, Writes(top, f), NEW i, i \in 1 .. Len(kids), i = top.pc + 1, Accept(f, kids[i])
      PROVE  StepShape(stack, stack', scope, scope')
  BY <1>1, <1>2, <1>6, ChildShape
<1>. QED BY <1>3, <1>4, <1>5, <1>6

LEMMA OperationShape ==
  ASSUME Chain(stack), NEW k \in {"simple-expression", "additive-expression", "term"},
         NEW result, VisitOperation(k, result)
  PROVE  StepShape(stack, stack', scope, scope')
<1>1. /\ stack # <<>> /\ top.node.k = k /\ scope' = scope
      /\ top.node.k \notin Constructs \union Declaring \union {"program"}
  BY DEF VisitOperation, Visiting, Constructs, Declaring
<1>2. Len(kids) \in 1 .. 2 /\ DOMAIN kids = 1 .. Len(kids)
  BY <1>1, TopFacts DEF KidCount
<1>3. \/ top.pc = 0 /\ \E f : Writes(top, f) /\ Accept(f, kids[1])
      \/ top.pc = 1 /\ Len(kids) # 1 /\ \E f : Writes(top, f) /\ Accept(f, kids[2])
      \/ Leave
  BY DEF VisitOperation, Writes
<1>4. CASE Leave
  BY <1>1, <1>4, LeaveShape
<1>5. ASSUME NEW f, Writes(top, f), NEW i, i \in 1 .. Len(kids), i = top.pc + 1, Accept(f, kids[i])
      PROVE  StepShape(stack, stack', scope, scope')
  BY <1>1, <1>2, <1>5, ChildShape
<1>. QED BY <1>2, <1>3, <1>4, <1>5

LEMMA VisitShape ==
  ASSUME Chain(stack), Visit
  PROVE  stack # <<>> /\ StepShape(stack, stack', scope, scope')
<1>1. VisitProgram \/ VisitVarDeclaration \/ VisitFunDeclaration \/ VisitParam
      \/ VisitCompoundStmt \/ VisitExpressionStmt \/ VisitSelectionStmt
      \/ VisitIterationStmt \/ VisitReturnStmt
      \/ VisitNum \/ VisitVar \/ VisitAssignExpression \/ VisitCall
      \/ \E k \in {"simple-expression", "additive-expression", "term"} : \E result :
           VisitOperation(k, result)
  BY DEF Visit, VisitSimpleExpression, VisitAdditiveExpression, VisitTerm
<1>2. stack # <<>>
  BY <1>1 DEF VisitProgram, VisitVarDeclaration, VisitFunDeclaration, VisitParam,
     VisitCompoundStmt, VisitExpressionStmt, VisitSelectionStmt, VisitIterationStmt,
     VisitReturnStmt, VisitNum, VisitVar, VisitAssignExpression, VisitCall, VisitOperation,
     Visiting
<1>3. StepShape(stack, stack', scope, scope')
  BY <1>1, ProgramShape, DeclarationShape, CompoundShape, FunctionShape, SimpleStatementShape,
     BranchingShape, ExpressionShape, OperationShape
<1>. QED BY <1>2, <1>3

LEMMA ShapeKeepsChain ==
  ASSUME NEW s, Chain(s), s # <<>>, NEW t, NEW sc, NEW u, StepShape(s, t, sc, u)
  PROVE  Chain(t)
<1>1. Descends(s, t) \/ Begins(s, t) \/ Returns(s, t) \/ t = s
  BY DEF StepShape
<1>. QED BY <1>1, DescentKeepsChain, BeginningKeepsChain, ReturnKeepsChain

(***************************************************************************)
(* How many scopes are open.                                               *)
(***************************************************************************)
Depth(s, n) == Cardinality(Openers(s, n))

LEMMA DepthType ==
  ASSUME NEW s, NEW n \in Nat
  PROVE  IsFiniteSet(Openers(s, n)) /\ Depth(s, n) \in Nat
<1>1. IsFiniteSet(1 .. n)
  BY FS_Interval
<1>2. Openers(s, n) \in SUBSET (1 .. n)
  BY DEF Openers
<1>3. IsFiniteSet(Openers(s, n))
  BY <1>1, <1>2, FS_Subset
<1>. QED BY <1>3, FS_CardinalityType DEF Depth

LEMMA DepthNext ==
  ASSUME NEW s, NEW n \in Nat \ {0}
  PROVE  Depth(s, n) = Depth(s, n - 1) + (IF Opens(s[n]) THEN 1 ELSE 0)
<1>1. IsFiniteSet(Openers(s, n - 1)) /\ Depth(s, n - 1) \in Nat
  BY n - 1 \in Nat, DepthType
<1>2. n \notin Openers(s, n - 1)
  BY DEF Openers
<1>3. CASE Opens(s[n])
  <2>1. Openers(s, n) = Openers(s, n - 1) \union {n}
    BY <1>3 DEF Openers
  <2>2. Cardinality(Openers(s, n - 1) \union {n}) = Cardinality(Openers(s, n - 1)) + 1
    BY <1>1, <1>2, FS_AddElement
  <2>. QED BY <1>3, <2>1, <2>2 DEF Depth
<1>4. CASE ~Opens(s[n])
  <2>1. Openers(s, n) = Openers(s, n - 1)
    BY <1>4 DEF Openers
  <2>. QED BY <1>1, <1>4, <2>1 DEF Depth
<1>. QED BY <1>3, <1>4

LEMMA DepthOne ==
  ASSUME NEW s, Opens(s[1])
  PROVE  Depth(s, 1) = 1
<1>1. Depth(s, 1) = Depth(s, 1 - 1) + 1
  BY DepthNext
<1>2. Openers(s, 0) = {}
  BY DEF Openers
<1>3. Depth(s, 0) = 0
  BY <1>2, FS_EmptySet DEF Depth
<1>. QED BY <1>1, <1>3

LEMMA DepthSame ==
  ASSUME NEW s, NEW t, NEW n \in Nat, \A i \in 1 .. n : Opens(t[i]) = Opens(s[i])
  PROVE  Openers(t, n) = Openers(s, n) /\ Depth(t, n) = Depth(s, n)
<1>1. Openers(t, n) = Openers(s, n)
  BY DEF Openers
<1>. QED BY <1>1 DEF Depth

\* A construct entered later has a scope further in.
LEMMA DepthGrows ==
  ASSUME NEW s, NEW n \in Nat, NEW i \in Openers(s, n)
  PROVE  /\ Depth(s, i) \in 1 .. Depth(s, n)
         /\ i < n /\ Opens(s[n]) => Depth(s, i) < Depth(s, n)
         /\ i > 1 /\ Opens(s[1]) => Depth(s, i) > 1
<1>1. i \in 1 .. n /\ Opens(s[i])
  BY DEF Openers
<1>2. /\ IsFiniteSet(Openers(s, n)) /\ Depth(s, n) \in Nat
      /\ IsFiniteSet(Openers(s, i)) /\ Depth(s, i) \in Nat
  BY <1>1, DepthType
<1>3. Openers(s, i) \in SUBSET Openers(s, n) /\ i \in Openers(s, i)
  BY <1>1 DEF Openers
<1>4. Depth(s, i) <= Depth(s, n) /\ (Depth(s, n) = Depth(s, i) => Openers(s, n) = Openers(s, i))
  BY <1>2, <1>3, FS_Subset DEF Depth
<1>5. Depth(s, i) # 0
  BY <1>2, <1>3, FS_EmptySet DEF Depth
<1>6. ASSUME i < n, Opens(s[n])  PROVE Depth(s, i) < Depth(s, n)
  <2>1. n \in Openers(s, n) /\ n \notin Openers(s, i)
    BY <1>1, <1>6 DEF Openers
  <2>. QED BY <1>2, <1>4, <2>1
<1>7. ASSUME i > 1, Opens(s[1])  PROVE Depth(s, i) > 1
  <2>1. Openers(s, 1) \in SUBSET Openers(s, i) /\ 1 \in Openers(s, 1) /\ i \notin Openers(s, 1)
    BY <1>1, <1>7 DEF Openers
  <2>2. IsFiniteSet(Openers(s, 1)) /\ Depth(s, 1) \in Nat
    BY DepthType
  <2>3. Depth(s, 1) <= Depth(s, i) /\ (Depth(s, i) = Depth(s, 1) => Openers(s, i) = Openers(s, 1))
    BY <1>2, <2>1, FS_Subset DEF Depth
  <2>4. Depth(s, 1) # 0
    BY <2>1, <2>2, FS_EmptySet DEF Depth
  <2>. QED BY <1>2, <1>3, <2>1, <2>2, <2>3, <2>4
<1>. QED BY <1>2, <1>4, <1>5, <1>6, <1>7

(***************************************************************************)
(* What the scopes hold.                                                   *)
(***************************************************************************)
DeclarationClasses == {"var-declaration", "fun-declaration", "param"}
PredefinedNames == {Predefined[i].name : i \in DOMAIN Predefined}

Inner(s, sc, n) == \A i \in Openers(s, n) \ {1} : DOMAIN sc[Depth(s, i)] = DeclaredIn(s, i)
Outer(s, sc) ==
  DOMAIN sc[1] = PredefinedNames \union DeclaredIn(s, 1)
                   \union (IF Len(sc) > 1 THEN {s[2].node.id} ELSE {})

Lexical(s, sc) ==
  IsList(sc) /\ Len(sc) = Depth(s, Len(s)) /\ Inner(s, sc, Len(s)) /\ Outer(s, sc)

LEMMA NamesNext ==
  ASSUME NEW n, NEW v \in Nat \ {0}
  PROVE  NamesOf(n, v) = NamesOf(n, v - 1)
           \union (IF n.kids[v].k \in DeclarationClasses THEN {n.kids[v].id} ELSE {})
<1>1. 1 .. v = (1 .. v - 1) \union {v}
  OBVIOUS
<1>2. {j \in 1 .. v : n.kids[j].k \in DeclarationClasses}
        = {j \in 1 .. v - 1 : n.kids[j].k \in DeclarationClasses}
            \union (IF n.kids[v].k \in DeclarationClasses THEN {v} ELSE {})
  BY <1>1
<1>. QED BY <1>2 DEF NamesOf, DeclarationClasses

LEMMA NoNamesYet ==
  ASSUME NEW n  PROVE  NamesOf(n, 0) = {}
  BY DEF NamesOf

\* Frames that agree on all that scopes depend on.
Agree(s, t, n) ==
  \A i \in 1 .. n : /\ t[i].node = s[i].node /\ Opens(t[i]) = Opens(s[i])
                    /\ DeclaredIn(t, i) = DeclaredIn(s, i)

LEMMA InnerKept ==
  ASSUME NEW n \in Nat, NEW s, NEW t, NEW sc, NEW u,
         Agree(s, t, n), Inner(s, sc, n), \A r \in 1 .. Depth(s, n) : u[r] = sc[r]
  PROVE  Inner(t, u, n) /\ Depth(t, n) = Depth(s, n)
<1>1. \A i \in 1 .. n : Opens(t[i]) = Opens(s[i])
  BY DEF Agree
<1>2. Openers(t, n) = Openers(s, n) /\ Depth(t, n) = Depth(s, n)
  BY <1>1, DepthSame
<1>3. ASSUME NEW i \in Openers(s, n) \ {1}  PROVE DOMAIN u[Depth(t, i)] = DeclaredIn(t, i)
  <2>1. i \in 1 .. n
    BY DEF Openers
  <2>2. Depth(t, i) = Depth(s, i)
    BY <1>1, <2>1, DepthSame
  <2>3. Depth(s, i) \in 1 .. Depth(s, n)
    BY DepthGrows
  <2>4. DOMAIN sc[Depth(s, i)] = DeclaredIn(s, i) /\ DeclaredIn(t, i) = DeclaredIn(s, i)
    BY <2>1 DEF Inner, Agree
  <2>. QED BY <2>2, <2>3, <2>4
<1>. QED BY <1>2, <1>3 DEF Inner

\* The frames below the top one, whose children under way are all above.
LEMMA BelowAgrees ==
  ASSUME NEW s, NEW t, NEW n \in Nat, Below(s, t, n), n <= Len(s), n <= Len(t),
         Len(s) \in Nat, Len(t) \in Nat
  PROVE  Agree(s, t, n - 1)
  BY DEF Below, Agree, DeclaredIn

\* When a frame is gone, the frame below has visited the child it was at.
LEMMA DeclaredAfterReturn ==
  ASSUME NEW s, Chain(s), Len(s) > 1, NEW t, Returns(s, t), NEW n, n = Len(s)
  PROVE  /\ n \in Nat /\ n > 1 /\ Len(t) = n - 1 /\ IsList(t)
         /\ t[n - 1] = s[n - 1] /\ Agree(s, t, n - 2)
         /\ DeclaredIn(t, n - 1) = DeclaredIn(s, n - 1)
              \union (IF s[n].node.k \in DeclarationClasses THEN {s[n].node.id} ELSE {})
<1>1. n \in Nat /\ n > 1 /\ IsList(t) /\ Len(t) = n - 1 /\ Below(s, t, n)
  BY ListLength DEF Chain, Returns
<1>2. IsFrame(s[n - 1]) /\ IsKid(s[n - 1], s[(n - 1) + 1].node) /\ (n - 1) + 1 = n
  BY <1>1 DEF Chain
<1> DEFINE p == s[n - 1]
           b == Begun(p)
<1>3. b \in Nat \ {0}
  BY <1>2, KidFacts
<1>4. s[n].node = p.node.kids[b]
  BY <1>2 DEF IsKid
<1>5. t[n - 1] = p
  BY <1>1 DEF Below
<1>6. DeclaredIn(t, n - 1) = NamesOf(p.node, b) /\ DeclaredIn(s, n - 1) = NamesOf(p.node, b - 1)
  BY <1>1, <1>5 DEF DeclaredIn
<1>7. NamesOf(p.node, b) = NamesOf(p.node, b - 1)
        \union (IF s[n].node.k \in DeclarationClasses THEN {s[n].node.id} ELSE {})
  <2>. HIDE DEF b, p
  <2>. QED BY <1>3, <1>4, NamesNext
<1>8. Agree(s, t, n - 2)
  <2>1. Below(s, t, n - 1)
    BY <1>1 DEF Below
  <2>2. Agree(s, t, (n - 1) - 1)
    BY <1>1, <2>1, BelowAgrees
  <2>. QED BY <1>1, <2>2 DEF Agree
<1>. QED BY <1>1, <1>5, <1>6, <1>7, <1>8

LEMMA DescentKeepsLexical ==
  ASSUME NEW s, Chain(s), s # <<>>, NEW t, Descends(s, t), NEW sc, Lexical(s, sc)
  PROVE  Lexical(t, sc)
<1> DEFINE n == Len(s)
<1>1. n \in Nat \ {0} /\ Opens(s[1]) /\ s[n].pc \in Nat
  BY ChainFacts
<1>2. /\ IsList(t) /\ Len(t) = n + 1 /\ Below(s, t, n)
      /\ t[n].node = s[n].node /\ t[n].pc = s[n].pc + 1 /\ IsFrame(t[n])
      /\ s[n].node.k \in {"fun-declaration", "compound-stmt"} => s[n].pc > 0
      /\ IsKid(t[n], t[n + 1].node) /\ t[n + 1].pc = 0
  BY DEF Descends
<1>3. /\ IsList(sc) /\ Len(sc) = Depth(s, n) /\ Inner(s, sc, n) /\ Outer(s, sc)
  BY DEF Lexical
<1>10. n = Len(s)
  OBVIOUS
<1>. HIDE DEF n
<1>4. Agree(s, t, n - 1)
  BY <1>1, <1>2, <1>10, BelowAgrees
<1>5. t[n].node = s[n].node /\ Opens(t[n]) = Opens(s[n]) /\ DeclaredIn(t, n) = DeclaredIn(s, n)
  <2>1. Begun(t[n]) - 1 = Begun(s[n])
    BY <1>1, <1>2 DEF Begun
  <2>2. DeclaredIn(t, n) = NamesOf(t[n].node, Begun(t[n]) - 1)
    BY <1>1, <1>2 DEF DeclaredIn
  <2>3. DeclaredIn(s, n) = NamesOf(s[n].node, Begun(s[n]))
    BY <1>10 DEF DeclaredIn
  <2>4. Opens(t[n]) = Opens(s[n])
    BY <1>1, <1>2 DEF Opens
  <2>. QED BY <1>2, <2>1, <2>2, <2>3, <2>4
<1>6. Agree(s, t, n)
  BY <1>1, <1>4, <1>5 DEF Agree
<1>7. Inner(t, sc, n) /\ Depth(t, n) = Depth(s, n)
  BY <1>1, <1>3, <1>6, InnerKept
<1>8. ~Opens(t[n + 1])
  BY <1>2, KidFacts DEF Opens
<1>9. Depth(t, n + 1) = Depth(t, n) /\ Inner(t, sc, n + 1)
  <2>1. Openers(t, n + 1) = Openers(t, n)
    BY <1>1, <1>8 DEF Openers
  <2>. QED BY <1>7, <2>1 DEF Inner, Depth
<1>11. Outer(t, sc)
  <2>1. DeclaredIn(t, 1) = DeclaredIn(s, 1)
    BY <1>1, <1>6 DEF Agree
  <2>2. Len(sc) > 1 => t[2].node = s[2].node
    <3>1. Depth(s, 1) = 1
      BY <1>1, DepthOne
    <3>. QED BY <1>1, <1>3, <1>6, <3>1 DEF Agree
  <2>. QED BY <1>3, <2>1, <2>2 DEF Outer
<1>. QED BY <1>2, <1>3, <1>7, <1>9, <1>11 DEF Lexical

\* A new scope is empty.
LEMMA EnteredScope ==
  ASSUME NEW sc, IsList(sc), NEW u, u = enter(sc)
  PROVE  /\ IsList(u) /\ Len(u) = Len(sc) + 1 /\ DOMAIN u[Len(sc) + 1] = {}
         /\ Below(sc, u, Len(sc) + 1)
<1>1. PICK S : sc \in Seq(S)
  BY DEF IsList
<1> DEFINE T == S \union {<<>>}
<1>2. sc \in Seq(T) /\ <<>> \in T
  BY <1>1
<1>. HIDE DEF T
<1>3. u = Append(sc, <<>>)
  BY DEF enter
<1>4. u \in Seq(T) /\ Len(u) = Len(sc) + 1 /\ u[Len(sc) + 1] = <<>>
      /\ \A i \in 1 .. (Len(sc) + 1) - 1 : u[i] = sc[i]
  BY <1>2, <1>3
<1>5. DOMAIN <<>> = {}
  OBVIOUS
<1>. QED BY <1>4, <1>5 DEF IsList, Below

LEMMA BlockKeepsLexical ==
  ASSUME NEW s, Chain(s), s # <<>>, NEW t, Begins(s, t), s[Len(s)].node.k = "compound-stmt",
         NEW sc, Lexical(s, sc), NEW u, u = enter(sc)
  PROVE  Lexical(t, u)
<1> DEFINE n == Len(s)
<1>1. /\ n \in Nat \ {0} /\ Opens(s[1])
      /\ n > 2 => s[2].node.k = "fun-declaration" /\ Opens(s[2])
      /\ n > 1 => s[2].node.k \in {"var-declaration", "fun-declaration"}
      /\ s[1].node.k = "program"
  BY ChainFacts DEF Chain
<1>2. /\ IsList(t) /\ Len(t) = n /\ Below(s, t, n)
      /\ s[n].pc = 0 /\ t[n].node = s[n].node /\ t[n].pc = 1
  BY DEF Begins
<1>3. /\ IsList(sc) /\ Len(sc) = Depth(s, n) /\ Inner(s, sc, n) /\ Outer(s, sc)
  BY DEF Lexical
<1>4. s[n].node.k = "compound-stmt" /\ n = Len(s)
  OBVIOUS
<1>. HIDE DEF n
<1>5. n > 2
  BY <1>1, <1>4
<1>6. ~Opens(s[n]) /\ Opens(t[n])
  BY <1>2, <1>4 DEF Opens
<1>7. Agree(s, t, n - 1)
  BY <1>1, <1>2, <1>4, BelowAgrees
<1>8. Depth(s, n) = Depth(s, n - 1) /\ Depth(t, n) = Depth(t, n - 1) + 1 /\ Depth(s, n - 1) \in Nat
  <2>1. n - 1 \in Nat
    BY <1>1
  <2>. QED BY <1>1, <1>6, <2>1, DepthNext, DepthType
<1>9. /\ IsList(u) /\ Len(u) = Len(sc) + 1 /\ DOMAIN u[Len(sc) + 1] = {}
      /\ Below(sc, u, Len(sc) + 1)
  BY <1>3, EnteredScope
<1>10. Inner(t, u, n - 1) /\ Depth(t, n - 1) = Depth(s, n - 1)
  <2>1. n - 1 \in Nat
    BY <1>1
  <2>2. Inner(s, sc, n - 1)
    BY <1>1, <1>3 DEF Inner, Openers
  <2>3. \A r \in 1 .. Depth(s, n - 1) : u[r] = sc[r]
    BY <1>3, <1>8, <1>9 DEF Below
  <2>. QED BY <1>7, <2>1, <2>2, <2>3, InnerKept
<1>11. Len(u) = Depth(t, n)
  BY <1>3, <1>8, <1>9, <1>10
<1>12. DOMAIN u[Depth(t, n)] = DeclaredIn(t, n)
  <2>1. DeclaredIn(t, n) = NamesOf(t[n].node, Begun(t[n]))
    BY <1>2 DEF DeclaredIn
  <2>2. Begun(t[n]) = 0
    BY <1>2, <1>4 DEF Begun
  <2>. QED BY <1>3, <1>9, <1>11, <2>1, <2>2, NoNamesYet
<1>13. Inner(t, u, n)
  <2>1. Openers(t, n) = Openers(t, n - 1) \union {n}
    BY <1>1, <1>6 DEF Openers
  <2>. QED BY <1>10, <1>12, <2>1 DEF Inner
<1>14. Outer(t, u)
  <2>1. 2 \in Openers(s, n)
    BY <1>1, <1>5 DEF Openers
  <2>2. Depth(s, 2) > 1 /\ Depth(s, 2) \in 1 .. Depth(s, n)
    BY <1>1, <2>1, DepthGrows
  <2>3. Len(sc) > 1 /\ Len(u) > 1 /\ u[1] = sc[1]
    BY <1>3, <1>8, <1>9, <2>2 DEF Below
  <2>4. t[2] = s[2]
    BY <1>2, <1>5 DEF Below
  <2>5. DeclaredIn(t, 1) = DeclaredIn(s, 1)
    BY <1>1, <1>5, <1>7 DEF Agree
  <2>. QED BY <1>3, <2>3, <2>4, <2>5 DEF Outer
<1>. QED BY <1>2, <1>9, <1>11, <1>13, <1>14 DEF Lexical

LEMMA FunctionKeepsLexical ==
  ASSUME NEW s, Chain(s), s # <<>>, NEW t, Begins(s, t), s[Len(s)].node.k = "fun-declaration",
         NEW id, id = s[Len(s)].node.id,
         NEW sc, Lexical(s, sc), NEW v, NEW w, w = push(sc, id, v), NEW u, u = enter(w)
  PROVE  Lexical(t, u)
<1> DEFINE n == Len(s)
<1>1. n = 2 /\ Opens(s[1])
  <2>1. /\ n \in Nat \ {0} /\ Opens(s[1])
        /\ \A i \in 1 .. n : s[i].node.k = "fun-declaration" => i = 2
    BY ChainFacts
  <2>2. s[n].node.k = "fun-declaration" /\ n \in 1 .. n
    BY <2>1
  <2>. HIDE DEF n
  <2>. QED BY <2>1, <2>2
<1>2. /\ IsList(t) /\ Len(t) = n /\ Below(s, t, n)
      /\ s[n].pc = 0 /\ t[n].node = s[n].node /\ t[n].pc = 1
  BY DEF Begins
<1>3. /\ IsList(sc) /\ Len(sc) = Depth(s, n) /\ Outer(s, sc)
  BY DEF Lexical
<1>4. s[2].node.k = "fun-declaration" /\ n = Len(s) /\ id = s[2].node.id
  BY <1>1
<1>. HIDE DEF n
<1>6. /\ IsList(t) /\ Len(t) = 2 /\ t[1] = s[1]
      /\ s[2].pc = 0 /\ t[2].node = s[2].node /\ t[2].pc = 1
  BY <1>1, <1>2 DEF Below
<1>7. ~Opens(s[2]) /\ Opens(t[2]) /\ Opens(t[1])
  BY <1>1, <1>4, <1>6 DEF Opens
<1>8. Len(sc) = 1 /\ Depth(t, 2) = 2
  <2>1. Depth(s, 1) = 1 /\ Depth(t, 1) = 1
    BY <1>1, <1>7, DepthOne
  <2>2. Depth(s, 2) = Depth(s, 2 - 1) + 0 /\ Depth(t, 2) = Depth(t, 2 - 1) + 1
    BY <1>7, DepthNext
  <2>. QED BY <1>1, <1>3, <2>1, <2>2
<1>9. IsList(w) /\ Len(w) = 1 /\ DOMAIN w[1] = DOMAIN sc[1] \union {id}
  <2>1. sc # <<>>
    BY <1>8, HasElements
  <2>2. IsList(w) /\ Len(w) = Len(sc) /\ DOMAIN w[Len(sc)] = DOMAIN sc[Len(sc)] \union {id}
    BY <1>3, <2>1, PushedName
  <2>. QED BY <1>8, <2>2
<1>10. IsList(u) /\ Len(u) = 2 /\ DOMAIN u[2] = {} /\ Below(w, u, 2)
  <2>1. /\ IsList(u) /\ Len(u) = Len(w) + 1 /\ DOMAIN u[Len(w) + 1] = {}
        /\ Below(w, u, Len(w) + 1)
    BY <1>9, EnteredScope
  <2>. QED BY <1>9, <2>1
<1>11. Inner(t, u, 2)
  <2>1. DeclaredIn(t, 2) = NamesOf(t[2].node, Begun(t[2]))
    BY <1>6 DEF DeclaredIn
  <2>2. Begun(t[2]) = 0
    BY <1>4, <1>6 DEF Begun
  <2>3. DOMAIN u[Depth(t, 2)] = DeclaredIn(t, 2)
    BY <1>8, <1>10, <2>1, <2>2, NoNamesYet
  <2>4. \A i \in Openers(t, 2) \ {1} : i = 2
    BY DEF Openers
  <2>. QED BY <2>3, <2>4 DEF Inner
<1>12. Outer(t, u)
  <2>1. DeclaredIn(t, 1) = DeclaredIn(s, 1)
    BY <1>1, <1>4, <1>6 DEF DeclaredIn
  <2>2. u[1] = w[1] /\ Len(u) > 1
    BY <1>10 DEF Below
  <2>. QED BY <1>3, <1>4, <1>6, <1>8, <1>9, <2>1, <2>2 DEF Outer
<1>. QED BY <1>6, <1>8, <1>10, <1>11, <1>12 DEF Lexical

\* Leaving a scope.
LEMMA LeftScope ==
  ASSUME NEW sc, IsList(sc), sc # <<>>, NEW u, u = exit(sc)
  PROVE  IsList(u) /\ Len(u) = Len(sc) - 1 /\ Below(sc, u, Len(sc))
<1>1. u = Front(sc)
  BY DEF exit
<1>. QED BY <1>1, RemoveLast

LEMMA CloseKeepsLexical ==
  ASSUME NEW s, Chain(s), s # <<>>, NEW t, Returns(s, t), t # <<>>,
         s[Len(s)].node.k \in Constructs, s[Len(s)].pc > 0,
         NEW sc, Lexical(s, sc), NEW u, u = exit(sc)
  PROVE  Lexical(t, u)
<1> DEFINE n == Len(s)
<1>1. /\ n \in Nat \ {0} /\ Opens(s[1])
      /\ n > 2 => s[2].node.k = "fun-declaration" /\ Opens(s[2])
      /\ n > 1 => s[2].node.k \in {"var-declaration", "fun-declaration"}
      /\ s[1].node.k = "program"
      /\ \A i \in 1 .. n : s[i].node.k = "fun-declaration" => i = 2
  BY ChainFacts DEF Chain
<1>2. s[n].node.k \in Constructs /\ s[n].pc > 0 /\ n = Len(s)
  OBVIOUS
<1>3. /\ IsList(sc) /\ Len(sc) = Depth(s, n) /\ Inner(s, sc, n) /\ Outer(s, sc)
  BY DEF Lexical
<1>. HIDE DEF n
<1>4. n > 1
  BY <1>1, <1>2 DEF Constructs
<1>5. /\ Len(t) = n - 1 /\ IsList(t) /\ t[n - 1] = s[n - 1] /\ Agree(s, t, n - 2)
      /\ DeclaredIn(t, n - 1) = DeclaredIn(s, n - 1)
           \union (IF s[n].node.k \in DeclarationClasses THEN {s[n].node.id} ELSE {})
  BY <1>2, <1>4, DeclaredAfterReturn
<1>6. Opens(s[n])
  BY <1>2 DEF Opens, Constructs
<1>7. Depth(s, n) = Depth(s, n - 1) + 1 /\ Depth(s, n - 1) \in Nat
  <2>1. n - 1 \in Nat
    BY <1>1
  <2>. QED BY <1>1, <1>6, <2>1, DepthNext, DepthType
<1>8. IsList(u) /\ Len(u) = Depth(s, n - 1) /\ Below(sc, u, Len(sc))
  <2>1. sc # <<>>
    BY <1>3, <1>7, ListLength
  <2>2. IsList(u) /\ Len(u) = Len(sc) - 1 /\ Below(sc, u, Len(sc))
    BY <1>3, <2>1, LeftScope
  <2>. QED BY <1>3, <1>7, <2>2
<1>9. CASE s[n].node.k = "compound-stmt"
  <2>1. n > 2
    BY <1>1, <1>4, <1>9
  <2>2. Agree(s, t, n - 1)
    <3>1. DeclaredIn(t, n - 1) = DeclaredIn(s, n - 1)
      BY <1>5, <1>9 DEF DeclarationClasses
    <3>2. n - 1 \in Nat /\ \A i \in 1 .. n - 1 : i \in 1 .. n - 2 \/ i = n - 1
      BY <1>1
    <3>. QED BY <1>5, <3>1, <3>2 DEF Agree
  <2>3. n - 1 \in Nat /\ Inner(s, sc, n - 1)
    BY <1>1, <1>3 DEF Inner, Openers
  <2>4. \A r \in 1 .. Depth(s, n - 1) : u[r] = sc[r]
    BY <1>3, <1>7, <1>8 DEF Below
  <2>5. Inner(t, u, n - 1) /\ Depth(t, n - 1) = Depth(s, n - 1)
    BY <2>2, <2>3, <2>4, InnerKept
  <2>6. Outer(t, u)
    <3>1. 2 \in Openers(s, n - 1)
      BY <1>1, <2>1 DEF Openers
    <3>2. Depth(s, 2) > 1 /\ Depth(s, 2) \in 1 .. Depth(s, n - 1)
      BY <1>1, <2>3, <3>1, DepthGrows
    <3>3. Len(sc) > 1 /\ Len(u) > 1 /\ u[1] = sc[1]
      BY <1>3, <1>7, <1>8, <3>2 DEF Below
    <3>4. t[2].node = s[2].node /\ DeclaredIn(t, 1) = DeclaredIn(s, 1)
      BY <1>1, <2>1, <2>2 DEF Agree
    <3>. QED BY <1>3, <3>3, <3>4 DEF Outer
  <2>. QED BY <1>5, <1>8, <2>5, <2>6 DEF Lexical
<1>10. CASE s[n].node.k = "fun-declaration"
  <2>1. n = 2
    BY <1>1, <1>10
  <2>2. Depth(s, 1) = 1 /\ Depth(t, 1) = 1
    <3>1. t[1] = s[1]
      BY <1>5, <2>1
    <3>. QED BY <1>1, <3>1, DepthOne
  <2>3. Inner(t, u, 1)
    BY DEF Inner, Openers
  <2>4. Len(sc) = 2 /\ Len(u) = 1 /\ u[1] = sc[1]
    BY <1>3, <1>7, <1>8, <2>1, <2>2 DEF Below
  <2>5. DeclaredIn(t, 1) = DeclaredIn(s, 1) \union {s[2].node.id}
    BY <1>5, <1>10, <2>1 DEF DeclarationClasses
  <2>6. Outer(t, u)
    BY <1>3, <2>4, <2>5 DEF Outer
  <2>. QED BY <1>5, <1>8, <2>1, <2>2, <2>3, <2>4, <2>6 DEF Lexical
<1>. QED BY <1>2, <1>9, <1>10 DEF Constructs

LEMMA ReturnKeepsLexical ==
  ASSUME NEW s, Chain(s), s # <<>>, NEW t, Returns(s, t), t # <<>>,
         s[Len(s)].node.k \notin Constructs \union Declaring,
         NEW sc, Lexical(s, sc)
  PROVE  Lexical(t, sc)
<1> DEFINE n == Len(s)
<1>1. /\ n \in Nat \ {0} /\ Opens(s[1])
      /\ \A i \in 2 .. n : s[i].node.k # "program"
      /\ n > 2 => s[2].node.k = "fun-declaration" /\ Opens(s[2])
      /\ n > 1 => s[2].node.k \in {"var-declaration", "fun-declaration"}
  BY ChainFacts
<1>2. s[n].node.k \notin Constructs \union Declaring /\ n = Len(s)
  OBVIOUS
<1>3. /\ IsList(sc) /\ Len(sc) = Depth(s, n) /\ Inner(s, sc, n) /\ Outer(s, sc)
  BY DEF Lexical
<1>. HIDE DEF n
<1>4. n > 2
  <2>1. Len(t) # 0 /\ Len(t) = n - 1
    BY <1>2, ListLength DEF Returns
  <2>. QED BY <1>1, <1>2, <2>1 DEF Constructs, Declaring
<1>5. /\ Len(t) = n - 1 /\ IsList(t) /\ t[n - 1] = s[n - 1] /\ Agree(s, t, n - 2)
      /\ DeclaredIn(t, n - 1) = DeclaredIn(s, n - 1)
           \union (IF s[n].node.k \in DeclarationClasses THEN {s[n].node.id} ELSE {})
  BY <1>1, <1>2, <1>4, DeclaredAfterReturn
<1>6. Agree(s, t, n - 1)
  <2>1. DeclaredIn(t, n - 1) = DeclaredIn(s, n - 1)
    BY <1>2, <1>5 DEF DeclarationClasses, Constructs, Declaring
  <2>2. n - 1 \in Nat /\ \A i \in 1 .. n - 1 : i \in 1 .. n - 2 \/ i = n - 1
    BY <1>1
  <2>. QED BY <1>5, <2>1, <2>2 DEF Agree
<1>7. ~Opens(s[n])
  BY <1>1, <1>2, <1>4 DEF Opens, Constructs
<1>8. n - 1 \in Nat /\ Depth(s, n) = Depth(s, n - 1) /\ Inner(s, sc, n - 1)
  <2>1. n - 1 \in Nat /\ Inner(s, sc, n - 1)
    BY <1>1, <1>3 DEF Inner, Openers
  <2>. QED BY <1>1, <1>7, <2>1, DepthNext, DepthType
<1>9. Inner(t, sc, n - 1) /\ Depth(t, n - 1) = Depth(s, n - 1)
  BY <1>6, <1>8, InnerKept
<1>10. Outer(t, sc)
  <2>1. t[2].node = s[2].node /\ DeclaredIn(t, 1) = DeclaredIn(s, 1)
    BY <1>1, <1>4, <1>6 DEF Agree
  <2>. QED BY <1>3, <2>1 DEF Outer
<1>. QED BY <1>3, <1>5, <1>8, <1>9, <1>10 DEF Lexical

LEMMA DeclareKeepsLexical ==
  ASSUME NEW s, Chain(s), s # <<>>, NEW t, Returns(s, t), t # <<>>,
         s[Len(s)].node.k \in Declaring, NEW id, id = s[Len(s)].node.id,
         NEW sc, Lexical(s, sc), NEW v, NEW u, u = push(sc, id, v)
  PROVE  Lexical(t, u)
<1> DEFINE n == Len(s)
<1>1. n \in Nat \ {0} /\ Opens(s[1])
  BY ChainFacts
<1>2. s[n].node.k \in Declaring /\ n = Len(s) /\ id = s[n].node.id
  OBVIOUS
<1>3. /\ IsList(sc) /\ Len(sc) = Depth(s, n) /\ Inner(s, sc, n) /\ Outer(s, sc)
  BY DEF Lexical
<1>4. Len(t) # 0 /\ Len(t) = n - 1
  BY ListLength DEF Returns
<1>16. \A i \in 1 .. n - 1 : IsFrame(s[i]) /\ IsKid(s[i], s[i + 1].node)
  BY <1>1 DEF Chain
<1>. HIDE DEF n
<1>5. n > 1
  BY <1>1, <1>4
<1>6. /\ Len(t) = n - 1 /\ IsList(t) /\ t[n - 1] = s[n - 1] /\ Agree(s, t, n - 2)
      /\ DeclaredIn(t, n - 1) = DeclaredIn(s, n - 1)
           \union (IF s[n].node.k \in DeclarationClasses THEN {s[n].node.id} ELSE {})
  BY <1>1, <1>2, <1>5, DeclaredAfterReturn
<1>7. DeclaredIn(t, n - 1) = DeclaredIn(s, n - 1) \union {id}
  BY <1>2, <1>6 DEF DeclarationClasses, Declaring
<1>8. ~Opens(s[n])
  BY <1>2 DEF Opens, Declaring
<1>9. Opens(s[n - 1])
  <2>1. IsFrame(s[n - 1]) /\ IsKid(s[n - 1], s[n].node)
    <3>1. n - 1 \in 1 .. n - 1 /\ (n - 1) + 1 = n
      BY <1>1, <1>5
    <3>. QED BY <1>16, <3>1
  <2>. QED BY <1>2, <2>1, KidFacts DEF Declaring
<1>10. n - 1 \in Nat /\ Depth(s, n) = Depth(s, n - 1) /\ Inner(s, sc, n - 1)
       /\ Depth(s, n - 1) \in Nat \ {0}
  <2>1. n - 1 \in Nat /\ Inner(s, sc, n - 1)
    BY <1>1, <1>3 DEF Inner, Openers
  <2>2. Depth(s, n) = Depth(s, n - 1) /\ Depth(s, n - 1) \in Nat
    BY <1>1, <1>8, <2>1, DepthNext, DepthType
  <2>3. n - 1 \in Openers(s, n - 1)
    BY <1>1, <1>5, <1>9 DEF Openers
  <2>4. Depth(s, n - 1) \in 1 .. Depth(s, n - 1)
    BY <2>1, <2>3, DepthGrows
  <2>. QED BY <2>1, <2>2, <2>4
<1>11. /\ IsList(u) /\ Len(u) = Len(sc) /\ Below(sc, u, Len(sc))
       /\ DOMAIN u[Len(sc)] = DOMAIN sc[Len(sc)] \union {id}
  <2>1. sc # <<>>
    BY <1>3, <1>10, ListLength
  <2>. QED BY <1>3, <2>1, PushedName DEF Below
<1>12. \A i \in 1 .. n - 1 : Opens(t[i]) = Opens(s[i]) /\ t[i].node = s[i].node
  <2>1. \A i \in 1 .. n - 1 : i \in 1 .. n - 2 \/ i = n - 1
    BY <1>1
  <2>. QED BY <1>6, <2>1 DEF Agree
<1>13. Depth(t, n - 1) = Depth(s, n - 1) /\ Openers(t, n - 1) = Openers(s, n - 1)
  BY <1>10, <1>12, DepthSame
<1>14. Inner(t, u, n - 1)
  <2>1. ASSUME NEW i \in Openers(s, n - 1) \ {1}
        PROVE  DOMAIN u[Depth(t, i)] = DeclaredIn(t, i)
    <3>1. i \in 1 .. n - 1
      BY DEF Openers
    <3>2. Depth(t, i) = Depth(s, i)
      <4>1. i \in Nat /\ \A j \in 1 .. i : Opens(t[j]) = Opens(s[j])
        <5>1. i \in Nat /\ \A j \in 1 .. i : j \in 1 .. n - 1
          BY <1>1, <3>1
        <5>. QED BY <1>12, <5>1
      <4>. QED BY <4>1, DepthSame
    <3>3. DOMAIN sc[Depth(s, i)] = DeclaredIn(s, i)
      BY <1>10 DEF Inner
    <3>4. CASE i = n - 1
      BY <1>3, <1>7, <1>10, <1>11, <3>2, <3>3, <3>4
    <3>5. CASE i # n - 1
      <4>1. i \in 1 .. n - 2 /\ i < n - 1
        BY <1>1, <3>1, <3>5
      <4>2. Depth(s, i) < Depth(s, n - 1) /\ Depth(s, i) \in 1 .. Depth(s, n - 1)
        BY <1>9, <1>10, <4>1, DepthGrows
      <4>3. u[Depth(s, i)] = sc[Depth(s, i)]
        BY <1>3, <1>10, <1>11, <4>2 DEF Below
      <4>4. DeclaredIn(t, i) = DeclaredIn(s, i)
        BY <1>6, <4>1 DEF Agree
      <4>. QED BY <3>2, <3>3, <4>3, <4>4
    <3>. QED BY <3>4, <3>5
  <2>. QED BY <1>13, <2>1 DEF Inner
<1>15. Outer(t, u)
  <2>1. CASE n = 2
    <3>1. Depth(s, 1) = 1
      BY <1>1, DepthOne
    <3>2. Len(sc) = 1
      BY <1>3, <1>10, <2>1, <3>1
    <3>3. DeclaredIn(t, 1) = DeclaredIn(s, 1) \union {id}
      BY <1>7, <2>1
    <3>. QED BY <1>3, <1>11, <3>2, <3>3 DEF Outer
  <2>2. CASE n # 2
    <3>1. n - 1 \in Openers(s, n - 1) /\ n - 1 > 1
      BY <1>1, <1>5, <1>9, <2>2 DEF Openers
    <3>2. Depth(s, n - 1) > 1
      BY <1>1, <1>10, <3>1, DepthGrows
    <3>3. Len(sc) > 1 /\ u[1] = sc[1]
      BY <1>3, <1>10, <1>11, <3>2 DEF Below
    <3>4. DeclaredIn(t, 1) = DeclaredIn(s, 1)
      BY <1>1, <1>5, <1>6, <2>2 DEF Agree
    <3>5. t[2].node = s[2].node
      BY <1>10, <1>12, <3>1
    <3>. QED BY <1>3, <1>11, <3>3, <3>4, <3>5 DEF Outer
  <2>. QED BY <2>1, <2>2
<1>. QED BY <1>3, <1>6, <1>10, <1>11, <1>13, <1>14, <1>15 DEF Lexical

LEMMA ShapeKeepsLexical ==
  ASSUME NEW s, Chain(s), s # <<>>, NEW t, t # <<>>, NEW sc, NEW u,
         StepShape(s, t, sc, u), Lexical(s, sc)
  PROVE  Lexical(t, u)
<1>1. \A i \in 1 .. Len(s) : s[i].pc \in Nat /\ s[i].node \in Nodes
  BY ChainFacts
<1>2. CASE Descends(s, t) /\ u = sc
  BY <1>2, DescentKeepsLexical
<1>3. CASE Begins(s, t) /\ s[Len(s)].node.k = "compound-stmt" /\ u = enter(sc)
  BY <1>3, BlockKeepsLexical
<1>4. CASE Begins(s, t) /\ s[Len(s)].node.k = "fun-declaration"
           /\ \E v : u = enter(push(sc, s[Len(s)].node.id, v))
  <2>1. PICK v : u = enter(push(sc, s[Len(s)].node.id, v))
    BY <1>4
  <2>. DEFINE id == s[Len(s)].node.id
              w == push(sc, id, v)
  <2>2. /\ u = enter(w) /\ w = push(sc, id, v) /\ id = s[Len(s)].node.id
        /\ Begins(s, t) /\ s[Len(s)].node.k = "fun-declaration"
    BY <1>4, <2>1
  <2>. HIDE DEF w, id
  <2>. QED BY <2>2, FunctionKeepsLexical
<1>5. CASE Returns(s, t) /\ s[Len(s)].node.k \in Constructs
           /\ s[Len(s)].pc > Len(s[Len(s)].node.kids) /\ u = exit(sc)
  <2>1. Len(s) \in 1 .. Len(s)
    BY ChainFacts
  <2>2. s[Len(s)].pc \in Nat /\ s[Len(s)].node.kids \in Seq(Nodes)
    BY <1>1, <2>1, NodesAssumption DEF WellFormed
  <2>3. s[Len(s)].pc > 0
    <3>. DEFINE l == s[Len(s)].node.kids
    <3>1. Len(l) \in Nat
      BY <2>2
    <3>. QED BY <1>5, <2>2, <3>1
  <2>. QED BY <1>5, <2>3, CloseKeepsLexical
<1>6. CASE Returns(s, t) /\ s[Len(s)].node.k \in Declaring
           /\ \E v : u = push(sc, s[Len(s)].node.id, v)
  BY <1>6, DeclareKeepsLexical
<1>7. CASE Returns(s, t) /\ s[Len(s)].node.k \notin Constructs \union Declaring /\ u = sc
  BY <1>7, ReturnKeepsLexical
<1>8. CASE t = s /\ u = sc
  BY <1>8
<1>. QED BY <1>2, <1>3, <1>4, <1>5, <1>6, <1>7, <1>8 DEF StepShape

(***************************************************************************)
(* The start: the constructor's scope, and the frame of the program.       *)
(***************************************************************************)
LEMMA PredefinedScope ==
  IsList(NewScope) /\ Len(NewScope) = 1 /\ DOMAIN NewScope[1] = PredefinedNames
<1> DEFINE name(i) == Predefined[i].name
           val(i) == Value("fn", Predefined[i].ty, i)
           s0 == enter(<<>>)
           s1 == push(s0, name(1), val(1))
           s2 == push(s1, name(2), val(2))
           s3 == push(s2, name(3), val(3))
           s4 == push(s3, name(4), val(4))
           P == Predefined
<1>1. NewScope = s4
  BY DEF NewScope
<1>2. PredefinedNames = {name(1), name(2), name(3), name(4)}
  <2>1. DOMAIN P = 1 .. 4
    BY DEF Predefined
  <2>2. PredefinedNames = {P[i].name : i \in 1 .. 4}
    BY <2>1 DEF PredefinedNames
  <2>. HIDE DEF P
  <2>3. {P[i].name : i \in 1 .. 4} = {P[1].name, P[2].name, P[3].name, P[4].name}
    OBVIOUS
  <2>. QED BY <2>2, <2>3 DEF P
<1>3. /\ s0 = enter(<<>>)
      /\ s1 = push(s0, name(1), val(1)) /\ s2 = push(s1, name(2), val(2))
      /\ s3 = push(s2, name(3), val(3)) /\ s4 = push(s3, name(4), val(4))
  OBVIOUS
<1>4. IsList(<<>>) /\ Len(<<>>) = 0
  <2>1. <<>> \in Seq({}) /\ Len(<<>>) = 0
    OBVIOUS
  <2>. QED BY <2>1 DEF IsList
<1>. HIDE DEF s0, s1, s2, s3, s4, name, val, P
<1>5. IsList(s0) /\ Len(s0) = 1 /\ DOMAIN s0[1] = {}
  <2>1. IsList(s0) /\ Len(s0) = Len(<<>>) + 1 /\ DOMAIN s0[Len(<<>>) + 1] = {}
    BY <1>3, <1>4, EnteredScope
  <2>2. Len(<<>>) + 1 = 1
    BY <1>4
  <2>. QED BY <2>1, <2>2
<1>6. ASSUME NEW s, NEW t, NEW x, NEW v, IsList(s), Len(s) = 1, t = push(s, x, v)
      PROVE  IsList(t) /\ Len(t) = 1 /\ DOMAIN t[1] = DOMAIN s[1] \union {x}
  <2>1. s # <<>>
    BY <1>6, HasElements
  <2>2. IsList(t) /\ Len(t) = Len(s) /\ DOMAIN t[Len(s)] = DOMAIN s[Len(s)] \union {x}
    BY <1>6, <2>1, PushedName
  <2>. QED BY <1>6, <2>2
<1>7. IsList(s1) /\ Len(s1) = 1 /\ DOMAIN s1[1] = {name(1)}
  BY <1>3, <1>5, <1>6
<1>8. IsList(s2) /\ Len(s2) = 1 /\ DOMAIN s2[1] = {name(1)} \union {name(2)}
  BY <1>3, <1>6, <1>7
<1>9. IsList(s3) /\ Len(s3) = 1 /\ DOMAIN s3[1] = {name(1)} \union {name(2)} \union {name(3)}
  BY <1>3, <1>6, <1>8
<1>10. /\ IsList(s4) /\ Len(s4) = 1
       /\ DOMAIN s4[1] = {name(1)} \union {name(2)} \union {name(3)} \union {name(4)}
  BY <1>3, <1>6, <1>9
<1>11. {name(1)} \union {name(2)} \union {name(3)} \union {name(4)}
         = {name(1), name(2), name(3), name(4)}
  OBVIOUS
<1>. QED BY <1>1, <1>2, <1>10, <1>11

LEMMA StartOfProgram ==
  ASSUME NEW n \in Nodes, n.k = "program"
  PROVE  Chain(<<Frame(n)>>) /\ Lexical(<<Frame(n)>>, NewScope)
<1> DEFINE f == Frame(n)
           s == <<f>>
<1>1. IsFrame(f) /\ f.node = n /\ f.pc = 0
  BY FrameOfNode
<1>. HIDE DEF f
<1>2. IsList(s) /\ Len(s) = 1 /\ s[1] = f
  <2>1. s \in Seq({f}) /\ Len(s) = 1 /\ s[1] = f
    OBVIOUS
  <2>. QED BY <2>1 DEF IsList
<1>. HIDE DEF s
<1>3. Chain(s)
  BY <1>1, <1>2 DEF Chain
<1>4. Depth(s, 1) = 1
  <2>1. Opens(s[1])
    BY <1>1, <1>2 DEF Opens
  <2>. QED BY <2>1, DepthOne
<1>5. Inner(s, NewScope, 1)
  BY DEF Inner, Openers
<1>6. DeclaredIn(s, 1) = {}
  <2>1. Begun(s[1]) = 0
    BY <1>1, <1>2 DEF Begun
  <2>2. DeclaredIn(s, 1) = NamesOf(s[1].node, Begun(s[1]))
    BY <1>2 DEF DeclaredIn
  <2>. QED BY <2>1, <2>2, NoNamesYet
<1>7. Outer(s, NewScope)
  BY <1>6, PredefinedScope DEF Outer
<1>8. Lexical(s, NewScope)
  BY <1>2, <1>4, <1>5, <1>7, PredefinedScope DEF Lexical
<1>. QED BY <1>3, <1>8 DEF s, f

(***************************************************************************)
(* The flag need_as_address.                                               *)
(***************************************************************************)
LEMMA AssignmentSetsFlag ==
  ASSUME Chain(stack), VisitAssignExpression, top.pc = 0
  PROVE  LvalueFlag'
<1>1. /\ stack # <<>> /\ top.node.k = "assign-expression"
      /\ stack' = Front(stack) \o <<[top EXCEPT !.pc = @ + 1], Frame(kids[1])>>
  <2>1. stack # <<>> /\ top.node.k = "assign-expression" /\ Accept(top, kids[1])
    BY DEF VisitAssignExpression, Visiting
  <2>. QED BY <2>1 DEF Accept
<1>2. /\ IsList(stack) /\ Len(stack) \in Nat \ {0} /\ IsFrame(top) /\ top.node \in Nodes
      /\ kids = top.node.kids
  BY <1>1, TopFacts
<1>3. kids[1] \in Nodes /\ kids[1].k = "var"
  <2>1. Len(kids) = 2 /\ DOMAIN kids = 1 .. Len(kids) /\ \A i \in DOMAIN kids : kids[i] \in Nodes
    BY <1>1, TopFacts DEF KidCount
  <2>2. 1 \in DOMAIN kids
    BY <2>1
  <2>3. kids[1].k \in KidClasses(top.node, 1)
    BY <1>2, <2>2, NodesAssumption DEF WellFormed
  <2>. QED BY <1>1, <2>1, <2>2, <2>3 DEF KidClasses
<1> DEFINE g == [top EXCEPT !.pc = @ + 1]
           c == Frame(kids[1])
           n == Len(stack)
<1>4. IsFrame(g) /\ g.node = top.node /\ g.pc = 1
  <2>1. g.pc = top.pc + 1 /\ IsFrame(g) /\ g.node = top.node
    BY <1>2, FrameAdvanced
  <2>. QED BY <2>1
<1>5. c.node.k = "var" /\ c.pc = 0
  BY <1>3, FrameOfNode
<1>6. stack' = Front(stack) \o <<g, c>>
  BY <1>1
<1>. HIDE DEF g, c
<1>7. ReplacedByTwo(stack, stack', g, c)
  BY <1>1, <1>2, <1>6, ReplaceLastTwo
<1>8. n \in Nat \ {0} /\ Len(stack') = n + 1 /\ stack'[n] = g /\ stack'[n + 1] = c
  BY <1>2, <1>7 DEF ReplacedByTwo
<1>. HIDE DEF n
<1>9. /\ n + 1 > 1 /\ (n + 1) - 1 = n
      /\ stack'[n + 1].node.k = "var" /\ stack'[n + 1].pc = 0
      /\ stack'[n].node.k = "assign-expression" /\ stack'[n].pc = 1
  BY <1>1, <1>4, <1>5, <1>8
<1>. QED BY <1>8, <1>9 DEF LvalueFlag

LEMMA VisitKeepsFlag ==
  ASSUME Chain(stack), LvalueFlag, Visit
  PROVE  LvalueFlag'
<1>1. stack # <<>>
  BY VisitShape
<1>2. need_as_address => top.node.k = "var" /\ top.pc = 0
  BY <1>1, TopFacts DEF LvalueFlag
<1>3. CASE VisitAssignExpression /\ top.pc = 0
  BY <1>3, AssignmentSetsFlag
<1>4. CASE VisitVar
  <2>1. need_as_address' => need_as_address /\ top.pc > 0
    BY <1>4 DEF VisitVar, TakeFlag
  <2>2. ~need_as_address'
    BY <1>2, <2>1
  <2>. QED BY <2>2 DEF LvalueFlag
<1>5. CASE top.node.k # "var" /\ need_as_address' = need_as_address
  <2>1. ~need_as_address'
    BY <1>2, <1>5
  <2>. QED BY <2>1 DEF LvalueFlag
<1>6. CASE VisitAssignExpression /\ top.pc # 0
  <2>1. top.node.k # "var" /\ need_as_address' = need_as_address
    BY <1>6 DEF VisitAssignExpression, Visiting
  <2>. QED BY <1>5, <2>1
<1>7. ASSUME VisitProgram \/ VisitVarDeclaration \/ VisitFunDeclaration \/ VisitParam
             \/ VisitCompoundStmt
      PROVE  top.node.k # "var" /\ need_as_address' = need_as_address
  BY <1>7 DEF VisitProgram, VisitVarDeclaration, VisitFunDeclaration, VisitParam,
     VisitCompoundStmt, Visiting
<1>8. ASSUME VisitExpressionStmt \/ VisitSelectionStmt \/ VisitIterationStmt \/ VisitReturnStmt
      PROVE  top.node.k # "var" /\ need_as_address' = need_as_address
  BY <1>8 DEF VisitExpressionStmt, VisitSelectionStmt, VisitIterationStmt, VisitReturnStmt,
     Crash, Visiting
<1>9. ASSUME VisitNum \/ VisitCall \/ \E k \in {"simple-expression", "additive-expression", "term"} :
               \E result : VisitOperation(k, result)
      PROVE  top.node.k # "var" /\ need_as_address' = need_as_address
  BY <1>9 DEF VisitNum, VisitCall, VisitOperation, Visiting
<1>10. VisitProgram \/ VisitVarDeclaration \/ VisitFunDeclaration \/ VisitParam
      \/ VisitCompoundStmt \/ VisitExpressionStmt \/ VisitSelectionStmt
      \/ VisitIterationStmt \/ VisitReturnStmt
      \/ VisitNum \/ VisitVar \/ VisitAssignExpression \/ VisitCall
      \/ \E k \in {"simple-expression", "additive-expression", "term"} : \E result :
           VisitOperation(k, result)
  BY DEF Visit, VisitSimpleExpression, VisitAdditiveExpression, VisitTerm
<1>. QED BY <1>3, <1>4, <1>5, <1>6, <1>7, <1>8, <1>9, <1>10

(***************************************************************************)
(* The inductive invariant, and the theorems.                              *)
(***************************************************************************)
BuilderInv == Chain(stack) /\ (stack # <<>> => Lexical(stack, scope)) /\ LvalueFlag

LEMMA EmptyChain == Chain(<<>>)
<1>1. <<>> \in Seq({}) /\ Len(<<>>) = 0
  OBVIOUS
<1>. QED BY <1>1 DEF Chain, IsList

LEMMA InitEstablishesInv == BuilderInit => BuilderInv
  BY EmptyChain DEF BuilderInit, BuilderInv, LvalueFlag

LEMMA NextKeepsInv == BuilderInv /\ [BuilderNext]_builderVars => BuilderInv'
<1> SUFFICES ASSUME BuilderInv, [BuilderNext]_builderVars  PROVE BuilderInv'
  OBVIOUS
<1>. USE DEF BuilderInv
<1>1. ASSUME NEW n \in Nodes, n.k = "program", run_visitor(n)  PROVE BuilderInv'
  <2>1. /\ stack' = <<Frame(n)>> /\ scope' = NewScope /\ need_as_address' = FALSE
    BY <1>1 DEF run_visitor, BuilderInit
  <2>2. Chain(<<Frame(n)>>) /\ Lexical(<<Frame(n)>>, NewScope)
    BY <1>1, StartOfProgram
  <2>3. Chain(stack') /\ Lexical(stack', scope') /\ LvalueFlag'
    BY <2>1, <2>2 DEF LvalueFlag
  <2>. QED BY <2>3
<1>2. CASE Visit
  <2>1. stack # <<>> /\ StepShape(stack, stack', scope, scope')
    BY <1>2, VisitShape
  <2>2. Chain(stack')
    BY <2>1, ShapeKeepsChain
  <2>3. stack' # <<>> => Lexical(stack', scope')
    BY <2>1, ShapeKeepsLexical
  <2>4. LvalueFlag'
    BY <1>2, VisitKeepsFlag
  <2>. QED BY <2>2, <2>3, <2>4
<1>3. CASE UNCHANGED builderVars
  <2>1. stack' = stack /\ scope' = scope /\ need_as_address' = need_as_address
    BY <1>3 DEF builderVars
  <2>2. LvalueFlag'
    BY <2>1 DEF LvalueFlag
  <2>. QED BY <2>1, <2>2
<1>. QED BY <1>1, <1>2, <1>3 DEF BuilderNext

\* What the invariant says of the properties.
LEMMA InvImpliesLexical == BuilderInv => ScopesAreLexical
  BY DEF BuilderInv, Lexical, Inner, Outer, PredefinedNames, Depth, ScopesAreLexical

\* For every set of syntax trees that the classes of ast.hpp allow: no visit
\* method sees need_as_address but the Var on the left of an assignment.
THEOREM LvalueFlagTaken == BuilderSpec => []LvalueFlag
<1>1. BuilderInv => LvalueFlag
  BY DEF BuilderInv
<1>. QED BY <1>1, InitEstablishesInv, NextKeepsInv, PTL DEF BuilderSpec

\* For every set of syntax trees: the maps of Scope are one for each construct
\* that encloses the visit, and hold the names it has declared so far.
THEOREM LexicalScopes == BuilderSpec => []ScopesAreLexical
  BY InitEstablishesInv, NextKeepsInv, InvImpliesLexical, PTL DEF BuilderSpec
=============================================================================
