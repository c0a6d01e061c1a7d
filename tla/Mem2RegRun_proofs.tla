--------------------------- MODULE Mem2RegRun_proofs ---------------------------
(***************************************************************************)
(* Mem2Reg preserves what a function computes: for any function that the   *)
(* builder makes, along any path through it, each operand has the value    *)
(* after the pass that it had before, unless it comes from a variable that *)
(* was read before it was set.                                             *)
(*                                                                         *)
(* First, which value stands for what.  Q says where phis are, S[b][x] is  *)
(* the value that x has where block b begins, and R[v] is what becomes of  *)
(* the value v: of a load, the value that its variable has there.          *)
(***************************************************************************)
EXTENDS Mem2Reg_proofs

SDom(p, a, b) == a # b /\ Dom(p, a, b)
StoreAt(p, b, j, x) == p.code[b][j].op = "store" /\ p.code[b][j].var = x
LoadAt(p, b, j) == p.code[b][j].op = "load"
HasDef(p, Q, b, x) == (\E j \in 1 .. Len(p.code[b]) : StoreAt(p, b, j, x)) \/ <<b, x>> \in Q

\* The value of x after the first i instructions of block b.
Holds(p, R, S, b, i, x, w) ==
  \/ \E j \in 1 .. i : /\ StoreAt(p, b, j, x) /\ w = R[p.code[b][j].val]
                       /\ \A k \in 1 .. i : k > j => ~StoreAt(p, b, k, x)
  \/ (\A j \in 1 .. i : ~StoreAt(p, b, j, x)) /\ w = S[b][x]

\* The value v is there before instruction i of block b.
Settled(p, b, i, v) ==
  /\ v[1] = "load" => ComputedBefore(p, v, b, i)
  /\ v[1] = "phi" => v[2] \in Blocks /\ Dom(p, v[2], b)

Starts(p, Q, R, S, b, x) ==
  /\ Settled(p, b, 1, S[b][x])
  /\ <<b, x>> \in Q => S[b][x] = <<"phi", b, x>>
  /\ <<b, x>> \notin Q =>
       /\ S[b][x] # NoValue => \E d \in Blocks : SDom(p, d, b) /\ HasDef(p, Q, d, x)
       /\ \A t \in Blocks : SDom(p, t, b) =>
            \/ Holds(p, R, S, t, Len(p.code[t]), x, S[b][x])
            \/ \E d \in Blocks : SDom(p, t, d) /\ SDom(p, d, b) /\ HasDef(p, Q, d, x)

Loads(p, R, S, b, i) ==
  LoadAt(p, b, i) =>
    LET v == p.code[b][i].def
    IN  /\ Settled(p, b, i + 1, R[v])
        /\ \E w \in Operands \union {NoValue} :
             /\ Holds(p, R, S, b, i - 1, p.code[b][i].var, w)
             /\ R[v] = IF w = NoValue THEN v ELSE w

\* The points of a function, and sets of them that are closed under coming before.
Points(p) == {q \in Blocks \X Nat : q[2] <= Len(p.code[q[1]])}
Comes(p, P) ==
  /\ P \subseteq Points(p)
  /\ \A b \in Blocks : \A i \in Nat : <<b, i>> \in P =>
       /\ \A j \in 0 .. i : <<b, j>> \in P
       /\ \A d \in Blocks : SDom(p, d, b) => \A j \in 0 .. Len(p.code[d]) : <<d, j>> \in P

\* R and S are right at the points P.
Means(p, Q, P, R, S) ==
  /\ R \in [Operands -> Operands] /\ S \in [Blocks -> [Vars -> Operands \union {NoValue}]]
  /\ \A v \in Operands : v[1] # "load" => R[v] = v
  /\ \A b \in Blocks : <<b, 0>> \in P => \A x \in Vars : Starts(p, Q, R, S, b, x)
  /\ \A b \in Blocks : \A i \in 1 .. Len(p.code[b]) : <<b, i>> \in P => Loads(p, R, S, b, i)
Meaning(p, Q, R, S) == Means(p, Q, Points(p), R, S)

LEMMA ComesBefore ==
  ASSUME NEW p \in Programs, NEW P, Comes(p, P), NEW b \in Blocks, NEW i \in Nat, <<b, i>> \in P
  PROVE  /\ i <= Len(p.code[b])
         /\ \A j \in 0 .. i : <<b, j>> \in P
         /\ \A d \in Blocks : d # b /\ Dom(p, d, b) => \A j \in 0 .. Len(p.code[d]) : <<d, j>> \in P
<1>1. /\ \A j \in 0 .. i : <<b, j>> \in P
      /\ \A d \in Blocks : SDom(p, d, b) => \A j \in 0 .. Len(p.code[d]) : <<d, j>> \in P
  BY DEF Comes
<1>2. <<b, i>> \in Points(p)
  BY DEF Comes
<1>3. i <= Len(p.code[b])
  BY <1>2 DEF Points
<1>. QED BY <1>1, <1>3 DEF SDom

LEMMA OperandKinds ==
  /\ NoValue \notin Operands /\ NoValue[1] = "none"
  /\ \A v \in Operands : /\ v[1] \in {"const", "load", "phi"}
                         /\ v[1] = "phi" => v[2] \in Blocks
  /\ \A b \in Blocks, x \in Vars : <<"phi", b, x>> \in Operands
BY DEF NoValue, Operands

\* The instructions of a function.
LEMMA SourceFields ==
  ASSUME NEW p \in Programs, NEW b \in Blocks
  PROVE  /\ Len(p.code[b]) \in Nat /\ DOMAIN p.code[b] = 1 .. Len(p.code[b])
         /\ \A j \in 1 .. Len(p.code[b]) :
              /\ p.code[b][j] \in Instructions
              /\ p.code[b][j].op \in {"store", "use"} => p.code[b][j].val \in Operands /\ p.code[b][j].val[1] # "phi"
              /\ LoadAt(p, b, j) => /\ p.code[b][j].def \in Operands /\ p.code[b][j].def[1] = "load"
                                    /\ p.code[b][j].var \in Vars
              /\ p.code[b][j].val[1] = "load" => ComputedBefore(p, p.code[b][j].val, b, j)
<1>1. p.code \in Codes
  BY ProgramFields
<1>2. /\ Len(p.code[b]) \in Nat /\ DOMAIN p.code[b] = 1 .. Len(p.code[b])
      /\ \A j \in 1 .. Len(p.code[b]) : p.code[b][j] \in Instructions
  BY <1>1, CodeFields
<1>3. ASSUME NEW j \in 1 .. Len(p.code[b])
      PROVE  /\ p.code[b][j].op \in {"store", "use"} => p.code[b][j].val \in Operands /\ p.code[b][j].val[1] # "phi"
             /\ LoadAt(p, b, j) => /\ p.code[b][j].def \in Operands /\ p.code[b][j].def[1] = "load"
                                   /\ p.code[b][j].var \in Vars
             /\ p.code[b][j].val[1] = "load" => ComputedBefore(p, p.code[b][j].val, b, j)
  <2>1. /\ p.code[b][j].val[1] # "phi"
        /\ p.code[b][j].op = "load" <=> p.code[b][j].def[1] = "load"
        /\ p.code[b][j].op \in {"alloca", "load", "store"} => p.code[b][j].var \in Vars
        /\ p.code[b][j].op \in {"store", "use"} => p.code[b][j].val # NoValue
        /\ p.code[b][j].val[1] = "load" => ComputedBefore(p, p.code[b][j].val, b, j)
    BY ProgramFields
  <2>2. p.code[b][j].def \in ValueNames /\ p.code[b][j].val \in Operands \union {NoValue}
    BY <1>2, InstructionFields
  <2>3. p.code[b][j].def \in ValueNames /\ p.code[b][j].def[1] = "load" => p.code[b][j].def \in Operands
    BY DEF ValueNames
  <2>. QED BY <2>1, <2>2, <2>3 DEF LoadAt
<1>. QED BY <1>2, <1>3

LEMMA ComputedFields ==
  ASSUME NEW p \in Programs, NEW v, NEW b \in Blocks, NEW i
  PROVE  ComputedBefore(p, v, b, i) <=>
           \E d \in Blocks : \E j \in 1 .. Len(p.code[d]) :
             LoadAt(p, d, j) /\ p.code[d][j].def = v /\ IF d = b THEN j < i ELSE Dom(p, d, b)
<1>1. \A d \in Blocks : DOMAIN p.code[d] = 1 .. Len(p.code[d])
  BY SourceFields
<1>. QED BY <1>1 DEF ComputedBefore, LoadAt, Dom

\* What is there stays there.
LEMMA SettledOn ==
  ASSUME NEW p \in Programs, NEW d \in Blocks, NEW b \in Blocks, NEW i \in Nat, NEW j \in Nat,
         IF d = b THEN j <= i ELSE Dom(p, d, b), NEW v, Settled(p, d, j, v)
  PROVE  Settled(p, b, i, v)
<1>1. ASSUME v[1] = "load" PROVE ComputedBefore(p, v, b, i)
  <2>4. PICK e \in Blocks : \E k \in 1 .. Len(p.code[e]) :
          LoadAt(p, e, k) /\ p.code[e][k].def = v /\ IF e = d THEN k < j ELSE Dom(p, e, d)
    BY <1>1, ComputedFields DEF Settled
  <2>1. PICK k \in 1 .. Len(p.code[e]) :
          LoadAt(p, e, k) /\ p.code[e][k].def = v /\ IF e = d THEN k < j ELSE Dom(p, e, d)
    BY <2>4
  <2>2. k \in Nat
    BY SourceFields
  <2>3. IF e = b THEN k < i ELSE Dom(p, e, b)
    <3>1. CASE d = b
      BY <2>1, <2>2, <3>1
    <3>2. CASE d # b
      <4>1. Dom(p, e, b)
        BY <2>1, <3>2, DomOrder
      <4>2. CASE e = b
        BY <2>1, <3>2, <4>2, DomOrder
      <4>. QED BY <4>1, <4>2
    <3>. QED BY <3>1, <3>2
  <2>. QED BY <2>1, <2>3, ComputedFields
<1>2. ASSUME v[1] = "phi" PROVE v[2] \in Blocks /\ Dom(p, v[2], b)
  <2>1. v[2] \in Blocks /\ Dom(p, v[2], d) /\ Dom(p, d, b)
    BY <1>2, DomOrder DEF Settled
  <2>. QED BY <2>1, DomOrder
<1>. QED BY <1>1, <1>2 DEF Settled

(***************************************************************************)
(* Holds.                                                                  *)
(***************************************************************************)
LEMMA HoldsExists ==
  ASSUME NEW p \in Programs, NEW R \in [Operands -> Operands],
         NEW S \in [Blocks -> [Vars -> Operands \union {NoValue}]],
         NEW b \in Blocks, NEW i \in 0 .. Len(p.code[b]), NEW x \in Vars
  PROVE  \E w \in Operands \union {NoValue} : Holds(p, R, S, b, i, x, w)
<1> DEFINE T == {j \in 1 .. i : StoreAt(p, b, j, x)}
<1>1. i \in Nat /\ \A j \in 1 .. i : j \in 1 .. Len(p.code[b])
  BY SourceFields
<1>2. CASE T = {}
  <2>1. S[b][x] \in Operands \union {NoValue}
    OBVIOUS
  <2>. QED BY <1>2, <2>1 DEF Holds
<1>3. CASE T # {}
  <2>1. T \in SUBSET Nat /\ \A j \in T : j <= i
    BY <1>1
  <2>2. PICK j \in T : \A k \in T : k <= j
    <3>. HIDE DEF T
    <3>. QED BY <1>1, <1>3, <2>1, Greatest
  <2>3. p.code[b][j].val \in Operands
    BY <1>1, <2>2, SourceFields DEF StoreAt
  <2>4. \A k \in 1 .. i : k > j => ~StoreAt(p, b, k, x)
    BY <1>1, <2>2
  <2>. QED BY <2>2, <2>3, <2>4 DEF Holds
<1>. QED BY <1>2, <1>3

LEMMA HoldsUnique ==
  ASSUME NEW p, NEW R, NEW S, NEW b, NEW i \in Nat, NEW x, NEW v, NEW w,
         Holds(p, R, S, b, i, x, v), Holds(p, R, S, b, i, x, w)
  PROVE  v = w
<1>1. CASE \A j \in 1 .. i : ~StoreAt(p, b, j, x)
  BY <1>1 DEF Holds
<1>2. CASE ~ \A j \in 1 .. i : ~StoreAt(p, b, j, x)
  <2>1. PICK j \in 1 .. i : /\ StoreAt(p, b, j, x) /\ v = R[p.code[b][j].val]
                            /\ \A k \in 1 .. i : k > j => ~StoreAt(p, b, k, x)
    BY <1>2 DEF Holds
  <2>2. PICK k \in 1 .. i : /\ StoreAt(p, b, k, x) /\ w = R[p.code[b][k].val]
                            /\ \A m \in 1 .. i : m > k => ~StoreAt(p, b, m, x)
    BY <1>2 DEF Holds
  <2>3. j = k
    BY <2>1, <2>2
  <2>. QED BY <2>1, <2>2, <2>3
<1>. QED BY <1>1, <1>2

LEMMA HoldsStart ==
  ASSUME NEW p, NEW R, NEW S, NEW b, NEW x, NEW w
  PROVE  Holds(p, R, S, b, 0, x, w) <=> w = S[b][x]
BY DEF Holds

LEMMA HoldsNext ==
  ASSUME NEW p, NEW R, NEW S, NEW b, NEW i \in Nat \ {0}, NEW x
  PROVE  /\ StoreAt(p, b, i, x) => Holds(p, R, S, b, i, x, R[p.code[b][i].val])
         /\ ~StoreAt(p, b, i, x) =>
              \A w : Holds(p, R, S, b, i - 1, x, w) => Holds(p, R, S, b, i, x, w)
<1>1. /\ i \in 1 .. i /\ \A k \in 1 .. i : ~(k > i) /\ (k \in 1 .. i - 1 \/ k = i)
      /\ \A k \in 1 .. i - 1 : k \in 1 .. i
  OBVIOUS
<1>2. ASSUME StoreAt(p, b, i, x) PROVE Holds(p, R, S, b, i, x, R[p.code[b][i].val])
  BY <1>1, <1>2 DEF Holds
<1>3. ASSUME ~StoreAt(p, b, i, x), NEW w, Holds(p, R, S, b, i - 1, x, w)
      PROVE  Holds(p, R, S, b, i, x, w)
  <2>1. CASE \A j \in 1 .. i - 1 : ~StoreAt(p, b, j, x)
    BY <1>1, <1>3, <2>1 DEF Holds
  <2>2. CASE ~ \A j \in 1 .. i - 1 : ~StoreAt(p, b, j, x)
    <3>1. PICK j \in 1 .. i - 1 : /\ StoreAt(p, b, j, x) /\ w = R[p.code[b][j].val]
                                  /\ \A k \in 1 .. i - 1 : k > j => ~StoreAt(p, b, k, x)
      BY <1>3, <2>2 DEF Holds
    <3>2. \A k \in 1 .. i : k > j => ~StoreAt(p, b, k, x)
      BY <1>1, <1>3, <3>1
    <3>. QED BY <1>1, <3>1, <3>2 DEF Holds
  <2>. QED BY <2>1, <2>2
<1>. QED BY <1>2, <1>3

\* The value depends on what the block has stored and on the value at its start.
LEMMA HoldsSame ==
  ASSUME NEW p, NEW R, NEW S, NEW R2, NEW S2, NEW b, NEW i, NEW x,
         \A j \in 1 .. i : StoreAt(p, b, j, x) => R2[p.code[b][j].val] = R[p.code[b][j].val],
         S2[b][x] = S[b][x]
  PROVE  \A w : Holds(p, R, S, b, i, x, w) => Holds(p, R2, S2, b, i, x, w)
<1>. SUFFICES ASSUME NEW w, Holds(p, R, S, b, i, x, w) PROVE Holds(p, R2, S2, b, i, x, w)
  OBVIOUS
<1>1. CASE \A j \in 1 .. i : ~StoreAt(p, b, j, x)
  BY <1>1 DEF Holds
<1>2. CASE ~ \A j \in 1 .. i : ~StoreAt(p, b, j, x)
  <2>1. PICK j \in 1 .. i : /\ StoreAt(p, b, j, x) /\ w = R[p.code[b][j].val]
                            /\ \A k \in 1 .. i : k > j => ~StoreAt(p, b, k, x)
    BY <1>2 DEF Holds
  <2>2. w = R2[p.code[b][j].val]
    BY <2>1
  <2>. QED BY <2>1, <2>2 DEF Holds
<1>. QED BY <1>1, <1>2

\* What a variable holds is there.
LEMMA HoldsSettled ==
  ASSUME NEW p \in Programs, NEW Q, NEW P, NEW R, NEW S, Means(p, Q, P, R, S), Comes(p, P),
         NEW b \in Blocks, NEW i \in 0 .. Len(p.code[b]), <<b, i>> \in P,
         NEW x \in Vars, NEW w, Holds(p, R, S, b, i, x, w)
  PROVE  w \in Operands \union {NoValue} /\ Settled(p, b, i + 1, w)
<1>1. i \in Nat /\ i + 1 \in Nat /\ \A j \in 1 .. i : j \in 1 .. Len(p.code[b]) /\ j \in Nat
  BY SourceFields
<1>2. /\ R \in [Operands -> Operands] /\ S \in [Blocks -> [Vars -> Operands \union {NoValue}]]
  BY DEF Means
<1>3. CASE (\A j \in 1 .. i : ~StoreAt(p, b, j, x)) /\ w = S[b][x]
  <2>1. <<b, 0>> \in P
    <3>1. 0 \in 0 .. i
      BY <1>1
    <3>. QED BY <1>1, <3>1, ComesBefore
  <2>2. Settled(p, b, 1, w)
    BY <1>3, <2>1 DEF Means, Starts
  <2>3. w \in Operands \union {NoValue}
    BY <1>2, <1>3
  <2>. QED BY <1>1, <2>2, <2>3, SettledOn
<1>4. ASSUME NEW j \in 1 .. i, StoreAt(p, b, j, x), w = R[p.code[b][j].val]
      PROVE  w \in Operands \union {NoValue} /\ Settled(p, b, i + 1, w)
  <2> DEFINE v == p.code[b][j].val
  <2>1. v \in Operands /\ v[1] # "phi" /\ (v[1] = "load" => ComputedBefore(p, v, b, j)) /\ j \in Nat
    BY <1>1, <1>4, SourceFields DEF StoreAt
  <2>2. w \in Operands
    BY <1>2, <1>4, <2>1
  <2>. HIDE DEF v
  <2>3. CASE v[1] # "load"
    <3>1. w = v
      BY <1>4, <2>1, <2>3 DEF Means, v
    <3>. QED BY <2>1, <2>2, <2>3, <3>1 DEF Settled
  <2>4. CASE v[1] = "load"
    <3>1. PICK d \in Blocks : \E k \in 1 .. Len(p.code[d]) :
            LoadAt(p, d, k) /\ p.code[d][k].def = v /\ IF d = b THEN k < j ELSE Dom(p, d, b)
      BY <2>1, <2>4, ComputedFields
    <3>2. PICK k \in 1 .. Len(p.code[d]) :
            LoadAt(p, d, k) /\ p.code[d][k].def = v /\ IF d = b THEN k < j ELSE Dom(p, d, b)
      BY <3>1
    <3>3. k \in Nat /\ k + 1 \in Nat /\ k \in 0 .. Len(p.code[d])
      BY SourceFields
    <3>4. <<d, k>> \in P
      <4>1. CASE d = b
        <5>1. k \in 0 .. i
          BY <1>1, <2>1, <3>2, <3>3, <4>1
        <5>. QED BY <1>1, <4>1, <5>1, ComesBefore
      <4>2. CASE d # b
        BY <1>1, <3>2, <3>3, <4>2, ComesBefore
      <4>. QED BY <4>1, <4>2
    <3>5. Settled(p, d, k + 1, w)
      BY <1>4, <3>2, <3>4 DEF Means, Loads, v
    <3>6. IF d = b THEN k + 1 <= i + 1 ELSE Dom(p, d, b)
      BY <1>1, <2>1, <3>2, <3>3
    <3>. QED BY <1>1, <2>2, <3>3, <3>5, <3>6, SettledOn
  <2>. QED BY <2>3, <2>4
<1>. QED BY <1>3, <1>4 DEF Holds

(***************************************************************************)
(* For any function and any phis there are R and S that are right at every *)
(* point: those that are right at most points would allow one more.        *)
(***************************************************************************)
\* A load is computed nowhere before itself.
LEMMA DefinedOnce ==
  ASSUME NEW p \in Programs, NEW b \in Blocks, NEW i \in 1 .. Len(p.code[b]),
         NEW d \in Blocks, NEW j \in 1 .. Len(p.code[d]), p.code[b][i].def = p.code[d][j].def
  PROVE  b = d /\ i = j
BY ProgramFields

\* What happens at one more load is not used at the points before.
LEMMA NotUsedYet ==
  ASSUME NEW p \in Programs, NEW P, Comes(p, P), NEW b \in Blocks, NEW i \in 1 .. Len(p.code[b]),
         <<b, i>> \notin P, NEW d \in Blocks, NEW j \in 0 .. Len(p.code[d]),
         <<d, j>> \in P \/ (d = b /\ j < i), NEW k \in 1 .. j, p.code[d][k].op = "store"
  PROVE  p.code[d][k].val # p.code[b][i].def \/ p.code[b][i].op # "load"
<1>. SUFFICES ASSUME LoadAt(p, b, i), p.code[d][k].val = p.code[b][i].def PROVE FALSE
  BY DEF LoadAt
<1>1. k \in 1 .. Len(p.code[d]) /\ k \in Nat /\ j \in Nat /\ i \in Nat
  BY SourceFields
<1>2. p.code[b][i].def[1] = "load"
  BY SourceFields
<1>3. ComputedBefore(p, p.code[b][i].def, d, k)
  BY <1>1, <1>2, SourceFields
<1>4. PICK e \in Blocks : \E m \in 1 .. Len(p.code[e]) :
        LoadAt(p, e, m) /\ p.code[e][m].def = p.code[b][i].def /\ IF e = d THEN m < k ELSE Dom(p, e, d)
  BY <1>3, ComputedFields
<1>5. IF b = d THEN i < k ELSE Dom(p, b, d)
  BY <1>4, DefinedOnce
<1>6. CASE <<d, j>> \in P /\ b = d
  <2>1. i \in 0 .. j
    BY <1>1, <1>5, <1>6
  <2>. QED BY <1>1, <1>6, <2>1, ComesBefore
<1>7. CASE <<d, j>> \in P /\ b # d
  <2>1. i \in 0 .. Len(p.code[b])
    BY <1>1
  <2>. QED BY <1>1, <1>5, <1>7, <2>1, ComesBefore
<1>8. CASE d = b /\ j < i
  BY <1>1, <1>5, <1>8
<1>. QED BY <1>6, <1>7, <1>8

\* The conditions at a point stay true when R and S change elsewhere.
LEMMA StartsStay ==
  ASSUME NEW p \in Programs, NEW Q, NEW R, NEW S, NEW R2, NEW S2, NEW b \in Blocks, NEW x \in Vars,
         Starts(p, Q, R, S, b, x), S2[b][x] = S[b][x],
         \A t \in Blocks : SDom(p, t, b) =>
           \A w : Holds(p, R, S, t, Len(p.code[t]), x, w) => Holds(p, R2, S2, t, Len(p.code[t]), x, w)
  PROVE  Starts(p, Q, R2, S2, b, x)
BY DEF Starts

LEMMA LoadsStay ==
  ASSUME NEW p \in Programs, NEW R, NEW S, NEW R2, NEW S2, NEW b \in Blocks, NEW i,
         Loads(p, R, S, b, i), R2[p.code[b][i].def] = R[p.code[b][i].def],
         \A w : Holds(p, R, S, b, i - 1, p.code[b][i].var, w) => Holds(p, R2, S2, b, i - 1, p.code[b][i].var, w)
  PROVE  Loads(p, R2, S2, b, i)
BY DEF Loads
\* One instruction more.
LEMMA MeansNext ==
  ASSUME NEW p \in Programs, NEW Q, NEW P, NEW R, NEW S, Means(p, Q, P, R, S), Comes(p, P),
         NEW b \in Blocks, NEW i \in 1 .. Len(p.code[b]), <<b, i - 1>> \in P, <<b, i>> \notin P
  PROVE  \E R2 : Means(p, Q, P \union {<<b, i>>}, R2, S)
<1> DEFINE L == p.code[b][i].def
           X == p.code[b][i].var
           P2 == P \union {<<b, i>>}
<1>1. /\ R \in [Operands -> Operands] /\ S \in [Blocks -> [Vars -> Operands \union {NoValue}]]
      /\ i \in Nat /\ i - 1 \in Nat /\ i - 1 \in 0 .. Len(p.code[b]) /\ i # 0 /\ Len(p.code[b]) \in Nat
  BY SourceFields DEF Means
<1>2. CASE ~LoadAt(p, b, i)
  <2>1. \A d \in Blocks : <<d, 0>> \in P2 <=> <<d, 0>> \in P
    BY <1>1
  <2>2. ASSUME NEW d \in Blocks, NEW j \in 1 .. Len(p.code[d]), <<d, j>> \in P2
        PROVE  Loads(p, R, S, d, j)
    <3>1. CASE <<d, j>> \in P
      BY <3>1 DEF Means
    <3>2. CASE d = b /\ j = i
      BY <1>2, <3>2 DEF Loads
    <3>. QED BY <2>2, <3>1, <3>2
  <2>. HIDE DEF P2
  <2>3. Means(p, Q, P2, R, S)
    BY <1>1, <2>1, <2>2 DEF Means
  <2>. QED BY <2>3 DEF P2
<1>3. CASE LoadAt(p, b, i)
  <2>1. L \in Operands /\ L[1] = "load" /\ X \in Vars
    BY <1>3, SourceFields
  <2>2. PICK w \in Operands \union {NoValue} : Holds(p, R, S, b, i - 1, X, w)
    BY <1>1, <2>1, HoldsExists
  <2> DEFINE u == IF w = NoValue THEN L ELSE w
             R2 == [R EXCEPT ![L] = u]
  <2>3. u \in Operands
    BY <2>1, <2>2
  <2>4. R2 \in [Operands -> Operands] /\ R2[L] = u /\ \A v \in Operands : v # L => R2[v] = R[v]
    BY <1>1, <2>1, <2>3
  <2>5. Settled(p, b, i + 1, u)
    <3>1. CASE w = NoValue
      <4>1. ComputedBefore(p, L, b, i + 1)
        <5>1. i < i + 1
          BY <1>1
        <5>. QED BY <1>3, <5>1, ComputedFields
      <4>. QED BY <2>1, <3>1, <4>1 DEF Settled
    <3>2. CASE w # NoValue
      <4>1. Settled(p, b, (i - 1) + 1, w)
        BY <1>1, <2>1, <2>2, HoldsSettled
      <4>2. (i - 1) + 1 \in Nat /\ i + 1 \in Nat /\ (i - 1) + 1 <= i + 1
        BY <1>1
      <4>3. Settled(p, b, i + 1, w)
        BY <4>1, <4>2, SettledOn
      <4>. QED BY <3>2, <4>3
    <3>. QED BY <3>1, <3>2
  <2>. HIDE DEF R2, u
  <2>6. ASSUME NEW d \in Blocks, NEW j \in 0 .. Len(p.code[d]), <<d, j>> \in P \/ (d = b /\ j < i),
               NEW x, NEW v, Holds(p, R, S, d, j, x, v)
        PROVE  Holds(p, R2, S, d, j, x, v)
    <3>1. ASSUME NEW k \in 1 .. j, StoreAt(p, d, k, x)
          PROVE  R2[p.code[d][k].val] = R[p.code[d][k].val]
      <4>1. k \in 1 .. Len(p.code[d])
        BY SourceFields
      <4>2. p.code[d][k].val # L
        BY <1>3, <2>6, <3>1, NotUsedYet DEF StoreAt, LoadAt
      <4>3. p.code[d][k].val \in Operands
        BY <3>1, <4>1, SourceFields DEF StoreAt
      <4>. QED BY <2>4, <4>2, <4>3
    <3>. QED BY <2>6, <3>1, HoldsSame
  <2>7. ASSUME NEW d \in Blocks, <<d, 0>> \in P2, NEW x \in Vars PROVE Starts(p, Q, R2, S, d, x)
    <3>1. <<d, 0>> \in P
      BY <1>1, <2>7
    <3>2. Starts(p, Q, R, S, d, x)
      BY <3>1 DEF Means
    <3>3. \A t \in Blocks : SDom(p, t, d) => <<t, Len(p.code[t])>> \in P /\ Len(p.code[t]) \in 0 .. Len(p.code[t])
      <4>. SUFFICES ASSUME NEW t \in Blocks, SDom(p, t, d)
                    PROVE  <<t, Len(p.code[t])>> \in P /\ Len(p.code[t]) \in 0 .. Len(p.code[t])
        OBVIOUS
      <4>1. Len(p.code[t]) \in 0 .. Len(p.code[t])
        BY SourceFields
      <4>. QED BY <3>1, <4>1, ComesBefore DEF SDom
    <3>. QED BY <2>6, <3>2, <3>3, StartsStay
  <2>8. ASSUME NEW d \in Blocks, NEW j \in 1 .. Len(p.code[d]), <<d, j>> \in P
        PROVE  Loads(p, R2, S, d, j)
    <3>1. CASE ~LoadAt(p, d, j)
      BY <3>1 DEF Loads
    <3>2. CASE LoadAt(p, d, j)
      <4>1. Loads(p, R, S, d, j) /\ j \in Nat
        BY <2>8, SourceFields DEF Means
      <4>2. p.code[d][j].def # L
        BY <2>8, DefinedOnce
      <4>3. R2[p.code[d][j].def] = R[p.code[d][j].def]
        BY <2>4, <3>2, <4>2, SourceFields
      <4>4. j - 1 \in 0 .. Len(p.code[d]) /\ j - 1 \in 0 .. j
        BY <4>1, SourceFields
      <4>5. <<d, j - 1>> \in P
        BY <2>8, <4>1, <4>4, ComesBefore
      <4>. QED BY <2>6, <4>1, <4>3, <4>4, <4>5, LoadsStay
    <3>. QED BY <3>1, <3>2
  <2>9. Loads(p, R2, S, b, i)
    <3>1. Holds(p, R2, S, b, i - 1, X, w)
      BY <1>1, <2>2, <2>6
    <3>. QED BY <2>2, <2>4, <2>5, <3>1 DEF Loads, u
  <2>10. ASSUME NEW d \in Blocks, NEW j \in 1 .. Len(p.code[d]), <<d, j>> \in P2
         PROVE  Loads(p, R2, S, d, j)
    BY <2>8, <2>9, <2>10
  <2>11. \A v \in Operands : v[1] # "load" => R2[v] = v
    BY <2>1, <2>4 DEF Means
  <2>. HIDE DEF P2
  <2>12. Means(p, Q, P2, R2, S)
    BY <1>1, <2>4, <2>7, <2>10, <2>11 DEF Means
  <2>. QED BY <2>12 DEF P2
<1>. QED BY <1>2, <1>3

\* A block has an immediate dominator.
LEMMA ParentOf ==
  ASSUME NEW p \in Programs, NEW b \in Blocks, b # Entry
  PROVE  \E t \in Blocks : SDom(p, t, b) /\ \A d \in Blocks : SDom(p, d, b) => Dom(p, d, t)
<1> DEFINE D(a) == {d \in Blocks : Dom(p, d, a)}
           T == {Cardinality(D(a)) : a \in {a \in Blocks : SDom(p, a, b)}}
<1>1. \A a \in Blocks : /\ IsFiniteSet(D(a)) /\ Cardinality(D(a)) \in Nat
                        /\ Cardinality(D(a)) <= Cardinality(Blocks)
  BY BlocksAssumption, FS_Subset, FS_CardinalityType
<1>2. Cardinality(Blocks) \in Nat
  BY BlocksAssumption, FS_CardinalityType
<1>3. SDom(p, Entry, b)
  BY BlocksAssumption, DomOrder DEF SDom
<1>4. PICK t \in Blocks : SDom(p, t, b) /\ \A a \in Blocks : SDom(p, a, b) => Cardinality(D(a)) <= Cardinality(D(t))
  <2>1. T \in SUBSET Nat /\ \A n \in T : n <= Cardinality(Blocks)
    BY <1>1
  <2>2. T # {}
    BY <1>3, BlocksAssumption
  <2>3. PICK m \in T : \A n \in T : n <= m
    <3>. HIDE DEF T
    <3>. QED BY <1>2, <2>1, <2>2, Greatest
  <2>. QED BY <2>3
<1>5. ASSUME NEW d \in Blocks, SDom(p, d, b) PROVE Dom(p, d, t)
  <2>1. Dom(p, d, b) /\ Dom(p, t, b)
    BY <1>4, <1>5 DEF SDom
  <2>2. Dom(p, d, t) \/ Dom(p, t, d)
    BY <2>1, DomOrder
  <2>3. ASSUME Dom(p, t, d), t # d PROVE FALSE
    <3>1. D(t) \subseteq D(d) /\ d \in D(d) /\ d \notin D(t)
      BY <2>3, DomOrder
    <3>2. Cardinality(D(t)) < Cardinality(D(d))
      <4>1. IsFiniteSet(D(d)) /\ D(t) \in SUBSET D(d) /\ D(t) # D(d)
        BY <1>1, <3>1
      <4> DEFINE m == Cardinality(D(t))
                 n == Cardinality(D(d))
      <4>2. m <= n /\ (m = n => D(t) = D(d))
        <5>. HIDE DEF D
        <5>. QED BY <4>1, FS_Subset
      <4>3. m \in Nat /\ n \in Nat
        BY <1>1
      <4>4. m # n
        BY <4>1, <4>2
      <4>. HIDE DEF D, m, n
      <4>5. m < n
        BY <4>2, <4>3, <4>4
      <4>. QED BY <4>5 DEF m, n
    <3>3. Cardinality(D(d)) <= Cardinality(D(t))
      <4>. HIDE DEF D
      <4>. QED BY <1>4, <1>5
    <3>4. Cardinality(D(t)) \in Nat /\ Cardinality(D(d)) \in Nat
      <4>. HIDE DEF D
      <4>. QED BY <1>1
    <3> DEFINE m == Cardinality(D(t))
               n == Cardinality(D(d))
    <3>5. m < n /\ n <= m /\ m \in Nat /\ n \in Nat
      BY <3>2, <3>3, <3>4
    <3>. HIDE DEF m, n
    <3>. QED BY <3>5
  <2>4. t = d => Dom(p, d, t)
    BY DomOrder
  <2>. QED BY <2>2, <2>3, <2>4
<1>. QED BY <1>4, <1>5
\* The start of one block more: what dominates it is behind.
LEMMA MeansStart ==
  ASSUME NEW p \in Programs, NEW Q, NEW P, NEW R, NEW S, Means(p, Q, P, R, S), Comes(p, P),
         NEW b \in Blocks, <<b, 0>> \notin P,
         \A d \in Blocks : SDom(p, d, b) => <<d, Len(p.code[d])>> \in P
  PROVE  \E S2 : Means(p, Q, P \union {<<b, 0>>}, R, S2)
<1>1. /\ R \in [Operands -> Operands] /\ S \in [Blocks -> [Vars -> Operands \union {NoValue}]]
  BY DEF Means
<1>2. \A d \in Blocks : Len(p.code[d]) \in Nat /\ Len(p.code[d]) \in 0 .. Len(p.code[d])
  BY SourceFields
<1> DEFINE Right(x, v) ==
             /\ v \in Operands \union {NoValue}
             /\ Settled(p, b, 1, v)
             /\ <<b, x>> \in Q => v = <<"phi", b, x>>
             /\ <<b, x>> \notin Q =>
                  /\ v # NoValue => \E d \in Blocks : SDom(p, d, b) /\ HasDef(p, Q, d, x)
                  /\ \A t \in Blocks : SDom(p, t, b) =>
                       \/ Holds(p, R, S, t, Len(p.code[t]), x, v)
                       \/ \E d \in Blocks : SDom(p, t, d) /\ SDom(p, d, b) /\ HasDef(p, Q, d, x)
<1>3. ASSUME NEW x \in Vars PROVE \E v : Right(x, v)
  <2>1. CASE <<b, x>> \in Q
    <3> DEFINE v == <<"phi", b, x>>
    <3>1. v \in Operands /\ v[1] = "phi" /\ v[2] = b
      BY OperandKinds
    <3>2. Settled(p, b, 1, v)
      BY <3>1, DomOrder DEF Settled
    <3>3. Right(x, v)
      BY <2>1, <3>1, <3>2
    <3>. QED BY <3>3
  <2>2. CASE <<b, x>> \notin Q /\ b = Entry
    <3>1. Settled(p, b, 1, NoValue)
      BY OperandKinds DEF Settled
    <3>2. \A d \in Blocks : ~SDom(p, d, b)
      BY <2>2, DomOrder DEF SDom
    <3>3. Right(x, NoValue)
      BY <2>2, <3>1, <3>2
    <3>. QED BY <3>3
  <2>3. CASE <<b, x>> \notin Q /\ b # Entry
    <3>1. PICK t \in Blocks : SDom(p, t, b) /\ \A d \in Blocks : SDom(p, d, b) => Dom(p, d, t)
      BY <2>3, ParentOf
    <3> DEFINE n == Len(p.code[t])
    <3>2. n \in Nat /\ n \in 0 .. n /\ <<t, n>> \in P
      BY <1>2, <3>1
    <3>. HIDE DEF n
    <3>3. PICK w \in Operands \union {NoValue} : Holds(p, R, S, t, n, x, w)
      BY <1>1, <3>2, HoldsExists DEF n
    <3>4. Settled(p, t, n + 1, w)
      BY <3>2, <3>3, HoldsSettled DEF n
    <3>5. Settled(p, b, 1, w)
      BY <3>1, <3>2, <3>4, SettledOn DEF SDom
    <3>6. <<t, 0>> \in P /\ Starts(p, Q, R, S, t, x)
      <4>1. 0 \in 0 .. n
        BY <3>2
      <4>2. <<t, 0>> \in P
        BY <3>2, <4>1, ComesBefore
      <4>. QED BY <4>2 DEF Means
    <3>7. CASE HasDef(p, Q, t, x)
      <4>1. ASSUME NEW a \in Blocks, SDom(p, a, b), a # t
            PROVE  \E d \in Blocks : SDom(p, a, d) /\ SDom(p, d, b) /\ HasDef(p, Q, d, x)
        BY <3>1, <3>7, <4>1 DEF SDom
      <4>2. \A a \in Blocks : SDom(p, a, b) =>
              \/ Holds(p, R, S, a, Len(p.code[a]), x, w)
              \/ \E d \in Blocks : SDom(p, a, d) /\ SDom(p, d, b) /\ HasDef(p, Q, d, x)
        BY <3>3, <4>1 DEF n
      <4>3. Right(x, w)
        BY <2>3, <3>1, <3>3, <3>5, <3>7, <4>2
      <4>. QED BY <4>3
    <3>8. CASE ~HasDef(p, Q, t, x)
      <4>1. w = S[t][x]
        <5>1. \A j \in 1 .. n : ~StoreAt(p, t, j, x)
          BY <3>8 DEF HasDef, n
        <5>. QED BY <3>3, <5>1 DEF Holds
      <4>2. <<t, x>> \notin Q
        BY <3>8 DEF HasDef
      <4>3. \A d \in Blocks : SDom(p, d, t) => SDom(p, d, b)
        BY <3>1, DomOrder DEF SDom
      <4>4. w # NoValue => \E d \in Blocks : SDom(p, d, b) /\ HasDef(p, Q, d, x)
        BY <3>6, <4>1, <4>2, <4>3 DEF Starts
      <4>5. ASSUME NEW a \in Blocks, SDom(p, a, b)
            PROVE  \/ Holds(p, R, S, a, Len(p.code[a]), x, w)
                   \/ \E d \in Blocks : SDom(p, a, d) /\ SDom(p, d, b) /\ HasDef(p, Q, d, x)
        <5>1. CASE a = t
          BY <3>3, <5>1 DEF n
        <5>2. CASE a # t
          <6>1. SDom(p, a, t)
            BY <3>1, <4>5, <5>2 DEF SDom
          <6>2. \/ Holds(p, R, S, a, Len(p.code[a]), x, S[t][x])
                \/ \E d \in Blocks : SDom(p, a, d) /\ SDom(p, d, t) /\ HasDef(p, Q, d, x)
            BY <3>6, <4>2, <6>1 DEF Starts
          <6>. QED BY <4>1, <4>3, <6>2
        <5>. QED BY <5>1, <5>2
      <4>6. Right(x, w)
        BY <2>3, <3>3, <3>5, <4>4, <4>5
      <4>. QED BY <4>6
    <3>. QED BY <3>7, <3>8
  <2>. QED BY <2>1, <2>2, <2>3
<1> DEFINE g == [x \in Vars |-> CHOOSE v : Right(x, v)]
           S2 == [S EXCEPT ![b] = g]
           P2 == P \union {<<b, 0>>}
<1>4. ASSUME NEW x \in Vars PROVE Right(x, g[x])
  <2>1. g[x] = CHOOSE v : Right(x, v)
    OBVIOUS
  <2>. HIDE DEF g, Right
  <2>. QED BY <1>3, <2>1
<1>5. g \in [Vars -> Operands \union {NoValue}]
  BY <1>4
<1>6. /\ S2 \in [Blocks -> [Vars -> Operands \union {NoValue}]]
      /\ S2[b] = g /\ \A d \in Blocks : d # b => S2[d] = S[d]
  <2>. HIDE DEF g
  <2>. QED BY <1>1, <1>5
<1>. HIDE DEF g, S2
<1>7. ASSUME NEW d \in Blocks, NEW j \in 0 .. Len(p.code[d]), <<d, j>> \in P,
             NEW x, NEW v, Holds(p, R, S, d, j, x, v)
      PROVE  Holds(p, R, S2, d, j, x, v)
  <2>1. 0 \in 0 .. j /\ j \in Nat
    BY <1>2
  <2>2. <<d, 0>> \in P
    BY <1>7, <2>1, ComesBefore
  <2>3. S2[d][x] = S[d][x]
    BY <1>6, <2>2
  <2>. QED BY <1>7, <2>3, HoldsSame
<1>8. ASSUME NEW d \in Blocks, <<d, 0>> \in P, NEW x \in Vars PROVE Starts(p, Q, R, S2, d, x)
  <2>1. Starts(p, Q, R, S, d, x) /\ S2[d][x] = S[d][x]
    BY <1>6, <1>8 DEF Means
  <2>2. \A t \in Blocks : SDom(p, t, d) => <<t, Len(p.code[t])>> \in P
    BY <1>2, <1>8, ComesBefore DEF SDom
  <2>. QED BY <1>2, <1>7, <2>1, <2>2, StartsStay
<1>9. ASSUME NEW x \in Vars PROVE Starts(p, Q, R, S2, b, x)
  <2>1. Right(x, S2[b][x])
    BY <1>4, <1>6
  <2>2. \A t \in Blocks : SDom(p, t, b) =>
          \/ Holds(p, R, S2, t, Len(p.code[t]), x, S2[b][x])
          \/ \E d \in Blocks : SDom(p, t, d) /\ SDom(p, d, b) /\ HasDef(p, Q, d, x)
          \/ <<b, x>> \in Q
    BY <1>2, <1>7, <2>1
  <2>. QED BY <2>1, <2>2 DEF Starts
<1>10. ASSUME NEW d \in Blocks, NEW i \in 1 .. Len(p.code[d]), <<d, i>> \in P PROVE Loads(p, R, S2, d, i)
  <2>1. i \in Nat /\ i - 1 \in 0 .. i /\ i - 1 \in 0 .. Len(p.code[d])
    BY <1>2
  <2>2. <<d, i - 1>> \in P
    BY <1>10, <2>1, ComesBefore
  <2>3. Loads(p, R, S, d, i)
    BY <1>10 DEF Means
  <2>. QED BY <1>7, <2>1, <2>2, <2>3, LoadsStay
<1>11. \A d \in Blocks : <<d, 0>> \in P2 => d = b \/ <<d, 0>> \in P
  OBVIOUS
<1>12. \A d \in Blocks : \A i \in 1 .. Len(p.code[d]) : <<d, i>> \in P2 => <<d, i>> \in P
  BY <1>2
<1>13. \A v \in Operands : v[1] # "load" => R[v] = v
  BY DEF Means
<1>. HIDE DEF P2
<1>14. Means(p, Q, P2, R, S2)
  BY <1>1, <1>6, <1>8, <1>9, <1>10, <1>11, <1>12, <1>13 DEF Means
<1>. QED BY <1>14 DEF P2

\* All points of the blocks D, and the first i + 1 of block b.
AllOf(p, D) == {q \in Points(p) : q[1] \in D}
UpTo(p, D, b, i) == AllOf(p, D) \union {<<b, j>> : j \in 0 .. i}
DomClosed(p, D) == \A b \in D : \A d \in Blocks : Dom(p, d, b) => d \in D

LEMMA PointOf ==
  ASSUME NEW p \in Programs, NEW D \in SUBSET Blocks, NEW b \in Blocks, NEW j \in Nat
  PROVE  <<b, j>> \in AllOf(p, D) <=> b \in D /\ j <= Len(p.code[b])
BY DEF AllOf, Points

LEMMA ComesUpTo ==
  ASSUME NEW p \in Programs, NEW D \in SUBSET Blocks, DomClosed(p, D), NEW b \in Blocks,
         \A d \in Blocks : SDom(p, d, b) => d \in D, NEW i \in 0 .. Len(p.code[b])
  PROVE  Comes(p, AllOf(p, D)) /\ Comes(p, UpTo(p, D, b, i))
<1>1. \A d \in Blocks : Len(p.code[d]) \in Nat
  BY SourceFields
<1>2. ASSUME NEW d \in Blocks, NEW k \in Nat, <<d, k>> \in AllOf(p, D)
      PROVE  /\ \A j \in 0 .. k : <<d, j>> \in AllOf(p, D)
             /\ \A e \in Blocks : SDom(p, e, d) => \A j \in 0 .. Len(p.code[e]) : <<e, j>> \in AllOf(p, D)
  <2>1. d \in D /\ k <= Len(p.code[d])
    BY <1>2, PointOf
  <2>2. \A j \in 0 .. k : j \in Nat /\ j <= Len(p.code[d])
    BY <1>1, <2>1
  <2>3. ASSUME NEW e \in Blocks, SDom(p, e, d), NEW j \in 0 .. Len(p.code[e])
        PROVE  <<e, j>> \in AllOf(p, D)
    <3>1. e \in D /\ j \in Nat /\ j <= Len(p.code[e])
      BY <1>1, <2>1, <2>3 DEF DomClosed, SDom
    <3>. QED BY <3>1, PointOf
  <2>. QED BY <2>1, <2>2, <2>3, PointOf
<1>3. AllOf(p, D) \subseteq Points(p)
  BY DEF AllOf
<1>4. Comes(p, AllOf(p, D))
  BY <1>2, <1>3 DEF Comes
<1>5. \A j \in 0 .. i : <<b, j>> \in Points(p) /\ <<b, j>> \in UpTo(p, D, b, i)
  BY <1>1 DEF Points, UpTo
<1>6. UpTo(p, D, b, i) \subseteq Points(p)
  BY <1>3, <1>5 DEF UpTo
<1>7. ASSUME NEW d \in Blocks, NEW k \in Nat, <<d, k>> \in UpTo(p, D, b, i)
      PROVE  /\ \A j \in 0 .. k : <<d, j>> \in UpTo(p, D, b, i)
             /\ \A e \in Blocks : SDom(p, e, d) => \A j \in 0 .. Len(p.code[e]) : <<e, j>> \in UpTo(p, D, b, i)
  <2>1. CASE <<d, k>> \in AllOf(p, D)
    BY <1>2, <2>1 DEF UpTo
  <2>2. CASE d = b /\ k \in 0 .. i
    <3>1. \A j \in 0 .. k : j \in 0 .. i
      BY <2>2
    <3>2. ASSUME NEW e \in Blocks, SDom(p, e, d), NEW j \in 0 .. Len(p.code[e])
          PROVE  <<e, j>> \in UpTo(p, D, b, i)
      <4>1. e \in D /\ j \in Nat /\ j <= Len(p.code[e])
        BY <1>1, <2>2, <3>2
      <4>2. <<e, j>> \in AllOf(p, D)
        BY <4>1, PointOf
      <4>. QED BY <4>2 DEF UpTo
    <3>. QED BY <1>5, <2>2, <3>1, <3>2
  <2>. QED BY <1>7, <2>1, <2>2 DEF UpTo
<1>8. Comes(p, UpTo(p, D, b, i))
  BY <1>6, <1>7 DEF Comes
<1>. QED BY <1>4, <1>8

LEMMA MeansBlock ==
  ASSUME NEW p \in Programs, NEW Q, NEW D \in SUBSET Blocks, DomClosed(p, D), NEW b \in Blocks, b \notin D,
         \A d \in Blocks : SDom(p, d, b) => d \in D,
         NEW R, NEW S, Means(p, Q, AllOf(p, D), R, S)
  PROVE  \E R2, S2 : Means(p, Q, AllOf(p, D \union {b}), R2, S2)
<1> DEFINE n == Len(p.code[b])
           T == {i \in 0 .. n : \E R2, S2 : Means(p, Q, UpTo(p, D, b, i), R2, S2)}
<1>1. n \in Nat /\ \A d \in Blocks : Len(p.code[d]) \in Nat
  BY SourceFields
<1>2. \A i \in 0 .. n : Comes(p, UpTo(p, D, b, i)) /\ Comes(p, AllOf(p, D))
  BY ComesUpTo
<1>3. \A j \in Nat : <<b, j>> \notin AllOf(p, D)
  BY PointOf
<1>4. 0 \in T
  <2>1. \A d \in Blocks : SDom(p, d, b) => <<d, Len(p.code[d])>> \in AllOf(p, D)
    BY <1>1, PointOf
  <2>2. 0 \in 0 .. n /\ 0 \in Nat
    BY <1>1
  <2>3. \E S2 : Means(p, Q, AllOf(p, D) \union {<<b, 0>>}, R, S2)
    BY <1>2, <1>3, <2>1, <2>2, MeansStart
  <2>4. UpTo(p, D, b, 0) = AllOf(p, D) \union {<<b, 0>>}
    <3>1. 0 .. 0 = {0}
      OBVIOUS
    <3>. QED BY <3>1 DEF UpTo
  <2>. QED BY <2>2, <2>3, <2>4
<1>5. PICK m \in T : \A i \in T : i <= m
  <2>1. T \in SUBSET Nat /\ \A i \in T : i <= n
    BY <1>1
  <2>. HIDE DEF T, n
  <2>. QED BY <1>1, <1>4, <2>1, Greatest
<1>6. PICK R2, S2 : Means(p, Q, UpTo(p, D, b, m), R2, S2)
  OBVIOUS
<1>7. m = n
  <2>. SUFFICES ASSUME m # n PROVE FALSE
    OBVIOUS
  <2>1. m \in 0 .. n /\ m + 1 \in 1 .. n /\ m + 1 \in 0 .. n /\ (m + 1) - 1 = m /\ m + 1 \in Nat /\ m \in Nat
    BY <1>1
  <2>2. <<b, m>> \in UpTo(p, D, b, m)
    BY <2>1 DEF UpTo
  <2>3. <<b, m + 1>> \notin UpTo(p, D, b, m)
    BY <1>3, <2>1 DEF UpTo
  <2>4. \E R3 : Means(p, Q, UpTo(p, D, b, m) \union {<<b, m + 1>>}, R3, S2)
    BY <1>2, <1>6, <2>1, <2>2, <2>3, MeansNext
  <2>5. UpTo(p, D, b, m + 1) = UpTo(p, D, b, m) \union {<<b, m + 1>>}
    <3>1. 0 .. m + 1 = (0 .. m) \union {m + 1}
      BY <2>1
    <3>. QED BY <3>1 DEF UpTo
  <2>6. m + 1 \in T
    BY <2>1, <2>4, <2>5
  <2>. QED BY <1>5, <2>1, <2>6
<1>8. UpTo(p, D, b, n) = AllOf(p, D \union {b})
  <2>1. \A j \in 0 .. n : <<b, j>> \in AllOf(p, D \union {b})
    BY <1>1 DEF AllOf, Points
  <2>2. AllOf(p, D) \subseteq AllOf(p, D \union {b})
    BY DEF AllOf
  <2>3. ASSUME NEW q \in AllOf(p, D \union {b}) PROVE q \in UpTo(p, D, b, n)
    <3>1. q \in Points(p) /\ (q[1] \in D \/ q[1] = b)
      BY DEF AllOf
    <3>2. CASE q[1] \in D
      BY <3>1, <3>2 DEF AllOf, UpTo
    <3>3. CASE q[1] = b
      <4>1. q = <<b, q[2]>> /\ q[2] \in 0 .. n
        BY <1>1, <3>1, <3>3 DEF Points
      <4>. QED BY <4>1 DEF UpTo
    <3>. QED BY <3>1, <3>2, <3>3
  <2>. QED BY <2>1, <2>2, <2>3 DEF UpTo
<1>. QED BY <1>6, <1>7, <1>8

LEMMA MeaningExists ==
  ASSUME NEW p \in Programs, NEW Q
  PROVE  \E R, S : Meaning(p, Q, R, S)
<1> DEFINE Ok(D) == D \in SUBSET Blocks /\ DomClosed(p, D) /\ \E R, S : Means(p, Q, AllOf(p, D), R, S)
           T == {Cardinality(D) : D \in {D \in SUBSET Blocks : Ok(D)}}
           N == Cardinality(Blocks)
<1>1. N \in Nat /\ \A D \in SUBSET Blocks : /\ IsFiniteSet(D) /\ Cardinality(D) \in Nat
                                           /\ Cardinality(D) <= N
  BY BlocksAssumption, FS_Subset, FS_CardinalityType
<1>2. Ok({})
  <2>1. DomClosed(p, {})
    BY DEF DomClosed
  <2>2. AllOf(p, {}) = {}
    BY DEF AllOf
  <2> DEFINE R == [v \in Operands |-> v]
             S == [b \in Blocks |-> [x \in Vars |-> NoValue]]
  <2>3. /\ R \in [Operands -> Operands] /\ S \in [Blocks -> [Vars -> Operands \union {NoValue}]]
        /\ \A v \in Operands : R[v] = v
    OBVIOUS
  <2>. HIDE DEF R, S
  <2>4. Means(p, Q, {}, R, S)
    BY <2>3 DEF Means
  <2>. QED BY <2>1, <2>2, <2>4
<1>3. PICK D \in SUBSET Blocks : Ok(D) /\ \A C \in SUBSET Blocks : Ok(C) => Cardinality(C) <= Cardinality(D)
  <2>. HIDE DEF Ok
  <2>1. T \in SUBSET Nat /\ \A n \in T : n <= N
    BY <1>1
  <2>2. T # {}
    BY <1>2
  <2>3. PICK m \in T : \A n \in T : n <= m
    <3>. HIDE DEF T, N
    <3>. QED BY <1>1, <2>1, <2>2, Greatest
  <2>. QED BY <2>3
<1>4. D = Blocks
  <2>. SUFFICES ASSUME D # Blocks PROVE FALSE
    OBVIOUS
  <2>. DEFINE U == {Cardinality({d \in Blocks : Dom(p, d, b)}) : b \in Blocks \ D}
  <2>1. PICK b \in Blocks \ D : \A c \in Blocks \ D :
          Cardinality({d \in Blocks : Dom(p, d, b)}) <= Cardinality({d \in Blocks : Dom(p, d, c)})
    <3>1. U \in SUBSET Nat /\ U # {}
      BY <1>1
    <3>2. PICK m \in U : \A n \in U : m <= n
      <4>. HIDE DEF U
      <4>. QED BY <3>1, Least
    <3>. QED BY <3>2
  <2>2. ASSUME NEW d \in Blocks, SDom(p, d, b) PROVE d \in D
    <3>. SUFFICES ASSUME d \notin D PROVE FALSE
      OBVIOUS
    <3> DEFINE A == {e \in Blocks : Dom(p, e, d)}
               B == {e \in Blocks : Dom(p, e, b)}
    <3>1. A \subseteq B /\ b \in B /\ b \notin A
      BY <2>2, DomOrder DEF SDom
    <3>2. IsFiniteSet(B) /\ A \in SUBSET B /\ A # B /\ Cardinality(A) \in Nat /\ Cardinality(B) \in Nat
      BY <1>1, <3>1
    <3>3. Cardinality(B) <= Cardinality(A)
      BY <2>1
    <3>. HIDE DEF A, B
    <3>4. Cardinality(A) <= Cardinality(B) /\ (Cardinality(B) = Cardinality(A) => B = A)
      BY <3>2, FS_Subset
    <3>. QED BY <3>2, <3>3, <3>4
  <2>3. PICK R, S : Means(p, Q, AllOf(p, D), R, S)
    BY <1>3
  <2>4. \E R2, S2 : Means(p, Q, AllOf(p, D \union {b}), R2, S2)
    BY <1>3, <2>1, <2>2, <2>3, MeansBlock
  <2>5. DomClosed(p, D \union {b})
    BY <1>3, <2>2 DEF DomClosed, SDom
  <2>6. Ok(D \union {b})
    BY <2>4, <2>5
  <2>7. Cardinality(D \union {b}) = Cardinality(D) + 1
    BY <1>1, <2>1, FS_AddElement
  <2>8. Cardinality(D) \in Nat /\ D \union {b} \in SUBSET Blocks
    BY <1>1
  <2>. QED BY <1>3, <2>6, <2>7, <2>8
<1>5. AllOf(p, Blocks) = Points(p)
  BY DEF AllOf, Points
<1>. QED BY <1>3, <1>4, <1>5 DEF Meaning

(***************************************************************************)
(* What follows from R and S being right everywhere.                       *)
(***************************************************************************)
LEMMA MeaningFields ==
  ASSUME NEW p \in Programs, NEW Q, NEW R, NEW S, Meaning(p, Q, R, S)
  PROVE  /\ R \in [Operands -> Operands] /\ S \in [Blocks -> [Vars -> Operands \union {NoValue}]]
         /\ \A v \in Operands : v[1] # "load" => R[v] = v
         /\ \A b \in Blocks, x \in Vars : Starts(p, Q, R, S, b, x)
         /\ \A b \in Blocks : \A i \in 1 .. Len(p.code[b]) : Loads(p, R, S, b, i)
         /\ \A b \in Blocks, x \in Vars : \A i \in 0 .. Len(p.code[b]) : \A w :
              Holds(p, R, S, b, i, x, w) => w \in Operands \union {NoValue} /\ Settled(p, b, i + 1, w)
         /\ \A b \in Blocks, x \in Vars : \A i \in 0 .. Len(p.code[b]) :
              \E w \in Operands \union {NoValue} : Holds(p, R, S, b, i, x, w)
<1>1. \A b \in Blocks : Len(p.code[b]) \in Nat
  BY SourceFields
<1>2. \A b \in Blocks : \A i \in 0 .. Len(p.code[b]) : <<b, i>> \in Points(p)
  BY <1>1 DEF Points
<1>3. \A b \in Blocks : 0 \in 0 .. Len(p.code[b]) /\ \A i \in 1 .. Len(p.code[b]) : i \in 0 .. Len(p.code[b])
  BY <1>1
<1>4. Comes(p, Points(p))
  <2>1. ASSUME NEW b \in Blocks, NEW i \in Nat, <<b, i>> \in Points(p)
        PROVE  \A j \in 0 .. i : <<b, j>> \in Points(p)
    <3>1. i <= Len(p.code[b])
      BY <2>1 DEF Points
    <3>2. \A j \in 0 .. i : j \in 0 .. Len(p.code[b])
      BY <1>1, <3>1
    <3>. QED BY <1>2, <3>2
  <2>. QED BY <1>2, <2>1 DEF Comes
<1>5. Means(p, Q, Points(p), R, S)
  BY DEF Meaning
<1>6. /\ R \in [Operands -> Operands] /\ S \in [Blocks -> [Vars -> Operands \union {NoValue}]]
      /\ \A v \in Operands : v[1] # "load" => R[v] = v
      /\ \A b \in Blocks, x \in Vars : Starts(p, Q, R, S, b, x)
      /\ \A b \in Blocks : \A i \in 1 .. Len(p.code[b]) : Loads(p, R, S, b, i)
  BY <1>2, <1>3, <1>5 DEF Means
<1>7. \A b \in Blocks, x \in Vars : \A i \in 0 .. Len(p.code[b]) : \A w :
        Holds(p, R, S, b, i, x, w) => w \in Operands \union {NoValue} /\ Settled(p, b, i + 1, w)
  BY <1>2, <1>4, <1>5, HoldsSettled
<1>8. \A b \in Blocks, x \in Vars : \A i \in 0 .. Len(p.code[b]) :
        \E w \in Operands \union {NoValue} : Holds(p, R, S, b, i, x, w)
  BY <1>6, HoldsExists
<1>. QED BY <1>6, <1>7, <1>8

\* A value was given to the variable on the way.
LEMMA HoldsReaches ==
  ASSUME NEW p \in Programs, NEW Q, NEW R, NEW S, Meaning(p, Q, R, S), NEW b \in Blocks, NEW x \in Vars,
         NEW i \in 0 .. Len(p.code[b]), NEW w, Holds(p, R, S, b, i, x, w), w # NoValue
  PROVE  \E d \in Blocks : Dom(p, d, b) /\ HasDef(p, Q, d, x)
<1>1. Dom(p, b, b) /\ \A j \in 1 .. i : j \in 1 .. Len(p.code[b])
  BY DomOrder, SourceFields
<1>2. CASE \E j \in 1 .. i : StoreAt(p, b, j, x)
  BY <1>1, <1>2 DEF HasDef
<1>3. CASE w = S[b][x]
  <2>1. Starts(p, Q, R, S, b, x)
    BY MeaningFields
  <2>2. CASE <<b, x>> \in Q
    BY <1>1, <2>2 DEF HasDef
  <2>3. CASE <<b, x>> \notin Q
    BY <1>3, <2>1, <2>3 DEF Starts, SDom
  <2>. QED BY <2>2, <2>3
<1>. QED BY <1>2, <1>3 DEF Holds

\* The parent of a block has the value with which the block starts.
LEMMA ParentHolds ==
  ASSUME NEW p \in Programs, NEW Q, NEW R, NEW S, Meaning(p, Q, R, S), NEW b \in Blocks, NEW x \in Vars,
         <<b, x>> \notin Q, NEW t \in Blocks, SDom(p, t, b), \A d \in Blocks : SDom(p, d, b) => Dom(p, d, t)
  PROVE  Holds(p, R, S, t, Len(p.code[t]), x, S[b][x])
<1>1. Starts(p, Q, R, S, b, x)
  BY MeaningFields
<1>2. \A d \in Blocks : ~(SDom(p, t, d) /\ SDom(p, d, b))
  BY DomOrder DEF SDom
<1>. QED BY <1>1, <1>2 DEF Starts

\* Where phis are at the frontiers of all definitions, a block without a phi
\* starts with the value that each predecessor ends with.
LEMMA EdgeHolds ==
  ASSUME NEW p \in Programs, NEW Q, NEW R, NEW S, Meaning(p, Q, R, S), NEW x \in Vars,
         \A d \in Blocks : HasDef(p, Q, d, x) => \A b \in p.df[d] : <<b, x>> \in Q,
         NEW a \in Blocks, NEW s \in Blocks, <<a, s>> \in EdgesOf(p), <<s, x>> \notin Q
  PROVE  Holds(p, R, S, a, Len(p.code[a]), x, S[s][x])
<1>1. s # Entry
  BY ProgramsAssumption
<1>2. PICK t \in Blocks : SDom(p, t, s) /\ \A d \in Blocks : SDom(p, d, s) => Dom(p, d, t)
  BY <1>1, ParentOf
<1>3. Holds(p, R, S, t, Len(p.code[t]), x, S[s][x])
  BY <1>2, ParentHolds
<1>4. Dom(p, t, a)
  BY <1>2, GraphOf, DominatesPredecessor DEF Dom, SDom
<1>5. ASSUME NEW d \in Blocks, SDom(p, t, d), Dom(p, d, a) PROVE ~HasDef(p, Q, d, x)
  <2>1. ~SDom(p, d, s)
    BY <1>2, <1>5, DomOrder DEF SDom
  <2>2. s \in p.df[d]
    <3>1. p.df[d] = DominanceFrontier(d, Entry, Blocks, EdgesOf(p))
      BY ProgramsAssumption
    <3>. QED BY <1>5, <2>1, <3>1 DEF DominanceFrontier, SDom, Dom, StrictlyDominates
  <2>. QED BY <2>2
<1>6. CASE a = t
  BY <1>3, <1>6
<1>7. CASE a # t
  <2>1. ~HasDef(p, Q, a, x)
    BY <1>4, <1>5, <1>7, DomOrder DEF SDom
  <2>2. Starts(p, Q, R, S, a, x)
    BY MeaningFields
  <2>3. \/ Holds(p, R, S, t, Len(p.code[t]), x, S[a][x])
        \/ \E d \in Blocks : SDom(p, t, d) /\ SDom(p, d, a) /\ HasDef(p, Q, d, x)
    BY <1>4, <1>7, <2>1, <2>2 DEF Starts, SDom, HasDef
  <2>4. Holds(p, R, S, t, Len(p.code[t]), x, S[a][x])
    BY <1>5, <2>3 DEF SDom
  <2>5. S[a][x] = S[s][x]
    BY <1>3, <2>4, HoldsUnique, SourceFields
  <2>6. Holds(p, R, S, a, Len(p.code[a]), x, S[a][x])
    BY <2>1 DEF Holds, HasDef
  <2>. QED BY <2>5, <2>6
<1>. QED BY <1>6, <1>7

(***************************************************************************)
(* Machines: memory, registers and output.                                 *)
(***************************************************************************)
Vals == Operands \union {Undef}
IsMachine(m, mem, reg, out) ==
  /\ m = [mem |-> mem, reg |-> reg, out |-> out]
  /\ mem \in [Vars -> Vals] /\ out \in Seq(Vals) /\ \A v \in DOMAIN reg : reg[v] \in Vals /\ v[1] # "const"
Machine(m) == \E mem, reg, out : IsMachine(m, mem, reg, out)

LEMMA MachineFields ==
  ASSUME NEW m, NEW mem, NEW reg, NEW out, IsMachine(m, mem, reg, out)
  PROVE  m.mem = mem /\ m.reg = reg /\ m.out = out /\ Machine(m)
BY DEF IsMachine, Machine

LEMMA ValueOfType ==
  ASSUME NEW v \in Operands \union {NoValue}, NEW reg,
         \A u \in DOMAIN reg : reg[u] \in Vals /\ u[1] # "const"
  PROVE  /\ ValueOf(v, reg) \in Vals
         /\ v[1] = "const" => ValueOf(v, reg) = v
<1>1. CASE v[1] = "const"
  <2>1. v \in Operands /\ v \notin DOMAIN reg
    BY <1>1, OperandKinds
  <2>. QED BY <1>1, <2>1 DEF ValueOf, Vals
<1>2. CASE v[1] # "const" /\ v \in DOMAIN reg
  BY <1>2 DEF ValueOf
<1>3. CASE v[1] # "const" /\ v \notin DOMAIN reg
  BY <1>3 DEF ValueOf, Vals
<1>. QED BY <1>1, <1>2, <1>3

\* Registers that are set, and others.
LEMMA ValueOfSet ==
  ASSUME NEW v, NEW f, NEW reg
  PROVE  /\ v \in DOMAIN f /\ v[1] # "const" => ValueOf(v, With(f, reg)) = f[v]
         /\ v \notin DOMAIN f => ValueOf(v, With(f, reg)) = ValueOf(v, reg)
         /\ DOMAIN With(f, reg) = DOMAIN f \union DOMAIN reg
         /\ \A u \in DOMAIN f : With(f, reg)[u] = f[u]
         /\ \A u \in DOMAIN reg : u \notin DOMAIN f => With(f, reg)[u] = reg[u]
<1> DEFINE h == With(f, reg)
<1>1. h = [u \in DOMAIN f \union DOMAIN reg |-> IF u \in DOMAIN f THEN f[u] ELSE reg[u]]
  BY DEF With
<1>2. /\ DOMAIN h = DOMAIN f \union DOMAIN reg
      /\ \A u \in DOMAIN f : h[u] = f[u]
      /\ \A u \in DOMAIN reg : u \notin DOMAIN f => h[u] = reg[u]
  BY <1>1
<1>. HIDE DEF h
<1>3. v \in DOMAIN f /\ v[1] # "const" => ValueOf(v, h) = f[v]
  BY <1>2 DEF ValueOf
<1>4. v \notin DOMAIN f => ValueOf(v, h) = ValueOf(v, reg)
  BY <1>2 DEF ValueOf
<1>. QED BY <1>2, <1>3, <1>4 DEF h

\* What an instruction does.
LEMMA Run1Does ==
  ASSUME NEW m, NEW mem, NEW reg, NEW out, IsMachine(m, mem, reg, out),
         NEW ins \in Instructions, ins.op \in {"alloca", "load", "store"} => ins.var \in Vars,
         ins.op = "load" => ins.def[1] = "load"
  PROVE  /\ ins.op = "alloca" => IsMachine(Run1(m, ins), [mem EXCEPT ![ins.var] = Undef], reg, out)
         /\ ins.op = "store" =>
              IsMachine(Run1(m, ins), [mem EXCEPT ![ins.var] = ValueOf(ins.val, reg)], reg, out)
         /\ ins.op = "load" => IsMachine(Run1(m, ins), mem, With([v \in {ins.def} |-> mem[ins.var]], reg), out)
         /\ ins.op = "use" => IsMachine(Run1(m, ins), mem, reg, Append(out, ValueOf(ins.val, reg)))
         /\ ins.op = "phi" => IsMachine(Run1(m, ins), mem, reg, out)
<1>1. /\ m = [mem |-> mem, reg |-> reg, out |-> out] /\ mem \in [Vars -> Vals] /\ out \in Seq(Vals)
      /\ \A v \in DOMAIN reg : reg[v] \in Vals /\ v[1] # "const"
  BY DEF IsMachine
<1>2. Undef \in Vals /\ ValueOf(ins.val, reg) \in Vals
  BY <1>1, InstructionFields, ValueOfType DEF Vals
<1>3. CASE ins.op = "alloca"
  <2>1. Run1(m, ins) = [m EXCEPT !.mem[ins.var] = Undef]
    BY <1>3 DEF Run1
  <2>2. Run1(m, ins) = [mem |-> [mem EXCEPT ![ins.var] = Undef], reg |-> reg, out |-> out]
    BY <1>1, <2>1
  <2>. QED BY <1>1, <1>2, <1>3, <2>2 DEF IsMachine
<1>4. CASE ins.op = "store"
  <2>1. Run1(m, ins) = [m EXCEPT !.mem[ins.var] = ValueOf(ins.val, m.reg)]
    BY <1>4 DEF Run1
  <2>2. Run1(m, ins) = [mem |-> [mem EXCEPT ![ins.var] = ValueOf(ins.val, reg)], reg |-> reg, out |-> out]
    BY <1>1, <2>1
  <2>. QED BY <1>1, <1>2, <1>4, <2>2 DEF IsMachine
<1>5. CASE ins.op = "load"
  <2> DEFINE f == [v \in {ins.def} |-> mem[ins.var]]
  <2>1. Run1(m, ins) = [m EXCEPT !.reg = With([v \in {ins.def} |-> m.mem[ins.var]], @)]
    BY <1>5 DEF Run1
  <2>2. Run1(m, ins) = [mem |-> mem, reg |-> With(f, reg), out |-> out]
    BY <1>1, <2>1
  <2>3. \A u \in DOMAIN f : f[u] \in Vals /\ u[1] # "const"
    BY <1>1, <1>5
  <2>. HIDE DEF f
  <2>4. \A u \in DOMAIN With(f, reg) : With(f, reg)[u] \in Vals /\ u[1] # "const"
    BY <1>1, <2>3 DEF With
  <2>5. IsMachine(Run1(m, ins), mem, With(f, reg), out)
    BY <1>1, <2>2, <2>4 DEF IsMachine
  <2>. QED BY <1>5, <2>5 DEF f
<1>6. CASE ins.op = "use"
  <2>1. Run1(m, ins) = [m EXCEPT !.out = Append(@, ValueOf(ins.val, m.reg))]
    BY <1>6 DEF Run1
  <2>2. Run1(m, ins) = [mem |-> mem, reg |-> reg, out |-> Append(out, ValueOf(ins.val, reg))]
    BY <1>1, <2>1
  <2>3. Append(out, ValueOf(ins.val, reg)) \in Seq(Vals)
    BY <1>1, <1>2
  <2>. QED BY <1>1, <1>6, <2>2, <2>3 DEF IsMachine
<1>7. CASE ins.op = "phi"
  <2>1. Run1(m, ins) = m
    BY <1>7 DEF Run1
  <2>. QED BY <1>7, <2>1
<1>8. ins.op \in Ops
  BY InstructionFields
<1>. QED BY <1>3, <1>4, <1>5, <1>6, <1>7, <1>8 DEF Ops

(***************************************************************************)
(* Runs of a block.                                                        *)
(***************************************************************************)
PhiInstrs(instrs) == {ins \in Range(instrs) : ins.op = "phi"}
PhiValues(instrs, from, reg) ==
  [d \in {phi.def : phi \in PhiInstrs(instrs)} |->
     PhiValue(CHOOSE phi \in PhiInstrs(instrs) : phi.def = d, from, reg)]
Begin(instrs, from, m) == [m EXCEPT !.reg = With(PhiValues(instrs, from, m.reg), @), !.out = <<>>]
RunOf(f, s, m, n) == f = [i \in 0 .. n |-> IF i = 0 THEN m ELSE Run1(f[i - 1], s[i])]

LEMMA RunExists ==
  ASSUME NEW s, NEW m, NEW n \in Nat
  PROVE  \E f : RunOf(f, s, m, n)
<1> DEFINE Bad == {k \in Nat : ~ \E f : RunOf(f, s, m, k)}
<1> SUFFICES ASSUME Bad # {} PROVE FALSE
  OBVIOUS
<1>1. PICK l \in Bad : \A k \in Bad : l <= k
  <2>1. Bad \in SUBSET Nat
    OBVIOUS
  <2>. HIDE DEF Bad
  <2>. QED BY <2>1, Least
<1>2. CASE l = 0
  <2>1. RunOf([k \in 0 .. 0 |-> m], s, m, 0)
    BY DEF RunOf
  <2>. QED BY <1>2, <2>1
<1>3. CASE l # 0
  <2>1. l - 1 \in Nat /\ l - 1 \notin Bad
    BY <1>1, <1>3
  <2>2. PICK f : RunOf(f, s, m, l - 1)
    BY <2>1
  <2> DEFINE g == [k \in 0 .. l |-> IF k = l THEN Run1(f[l - 1], s[l]) ELSE f[k]]
             h == [k \in 0 .. l |-> IF k = 0 THEN m ELSE Run1(g[k - 1], s[k])]
  <2>3. ASSUME NEW k \in 0 .. l PROVE g[k] = h[k]
    <3>1. CASE k = 0
      <4>1. f[0] = m
        BY <2>1, <2>2 DEF RunOf
      <4>. QED BY <3>1, <4>1, <1>3
    <3>2. CASE k = l
      <4>1. g[l] = Run1(f[l - 1], s[l]) /\ h[l] = Run1(g[l - 1], s[l]) /\ g[l - 1] = f[l - 1]
        BY <2>1, <1>3
      <4>. QED BY <3>2, <4>1
    <3>3. CASE k # 0 /\ k # l
      <4>1. k \in 0 .. l - 1 /\ k - 1 \in 0 .. l - 1
        BY <3>3, <1>1
      <4>2. f[k] = Run1(f[k - 1], s[k])
        BY <4>1, <3>3, <2>2 DEF RunOf
      <4>3. g[k] = f[k] /\ g[k - 1] = f[k - 1] /\ h[k] = Run1(g[k - 1], s[k])
        BY <4>1, <3>3
      <4>. QED BY <4>2, <4>3
    <3>. QED BY <3>1, <3>2, <3>3
  <2>4. g = h
    <3>1. g = [k \in 0 .. l |-> g[k]] /\ h = [k \in 0 .. l |-> h[k]]
      OBVIOUS
    <3>. HIDE DEF g, h
    <3>. QED BY <2>3, <3>1
  <2>5. RunOf(g, s, m, l)
    <3>. HIDE DEF g
    <3>. QED BY <2>4 DEF RunOf
  <2>. QED BY <2>5
<1>. QED BY <1>2, <1>3

LEMMA RunBlockIs ==
  ASSUME NEW s, NEW from, NEW m, Len(s) \in Nat
  PROVE  \E f : /\ f[0] = Begin(s, from, m)
                /\ \A i \in 1 .. Len(s) : f[i] = Run1(f[i - 1], s[i])
                /\ RunBlock(s, from, m) = f[Len(s)]
<1> DEFINE b == Begin(s, from, m)
           g == CHOOSE g : RunOf(g, s, b, Len(s))
<1>1. RunOf(g, s, b, Len(s))
  BY RunExists
<1>2. RunBlock(s, from, m) = g[Len(s)]
  BY DEF RunBlock, RunOf, Begin, PhiValues, PhiInstrs
<1>. HIDE DEF g, b
<1>3. 0 \in 0 .. Len(s) /\ \A i \in 1 .. Len(s) : i \in 0 .. Len(s) /\ i # 0
  OBVIOUS
<1>4. \A i \in 0 .. Len(s) : g[i] = IF i = 0 THEN b ELSE Run1(g[i - 1], s[i])
  BY <1>1 DEF RunOf
<1>5. g[0] = b /\ \A i \in 1 .. Len(s) : g[i] = Run1(g[i - 1], s[i])
  BY <1>3, <1>4
<1>. QED BY <1>2, <1>5 DEF b

(***************************************************************************)
(* Two machines side by side: m runs the source, n what the pass made of   *)
(* it.  What m has in memory, and what it loaded, n has in the register    *)
(* that stands for it.                                                     *)
(***************************************************************************)
Carries(w, u, reg) == w \in Operands /\ w[1] # "load" /\ ValueOf(w, reg) = u
Passed(p, b, i, d, j) == IF d = b THEN j <= i ELSE Dom(p, d, b)
MemoryHeld(p, R, S, b, i, mem, reg) ==
  \A x \in Vars : mem[x] # Undef => \E w : Holds(p, R, S, b, i, x, w) /\ Carries(w, mem[x], reg)
LoadsHeld(p, R, b, i, regm, reg) ==
  \A d \in Blocks : \A j \in 1 .. Len(p.code[d]) :
    LET v == p.code[d][j].def
    IN  LoadAt(p, d, j) /\ Passed(p, b, i, d, j) /\ ValueOf(v, regm) # Undef =>
          Carries(R[v], ValueOf(v, regm), reg)
SameOut(out, new) == Len(new) = Len(out) /\ \A k \in 1 .. Len(out) : out[k] # Undef => new[k] = out[k]
Related(p, R, S, b, i, m, n) ==
  /\ MemoryHeld(p, R, S, b, i, m.mem, n.reg) /\ LoadsHeld(p, R, b, i, m.reg, n.reg)
  /\ SameOut(m.out, n.out)

\* An operand of the source has in n the value it has in m.
LEMMA OperandHeld ==
  ASSUME NEW p \in Programs, NEW Q, NEW R, NEW S, Meaning(p, Q, R, S), NEW b \in Blocks,
         NEW i \in 1 .. Len(p.code[b]), p.code[b][i].op \in {"store", "use"}, NEW regm, NEW reg,
         LoadsHeld(p, R, b, i - 1, regm, reg),
         \A v \in DOMAIN regm : regm[v] \in Vals /\ v[1] # "const",
         \A v \in DOMAIN reg : reg[v] \in Vals /\ v[1] # "const",
         ValueOf(p.code[b][i].val, regm) # Undef
  PROVE  Carries(R[p.code[b][i].val], ValueOf(p.code[b][i].val, regm), reg)
<1> DEFINE v == p.code[b][i].val
<1>1. /\ v \in Operands /\ v[1] # "phi"
      /\ v[1] = "load" => ComputedBefore(p, v, b, i)
  BY SourceFields
<1>. HIDE DEF v
<1>2. R \in [Operands -> Operands] /\ (v[1] # "load" => R[v] = v)
  BY <1>1, MeaningFields
<1>3. CASE v[1] = "const"
  BY <1>1, <1>2, <1>3, ValueOfType DEF Carries, v
<1>4. CASE v[1] = "load"
  <2>1. PICK d \in Blocks : \E j \in 1 .. Len(p.code[d]) :
          LoadAt(p, d, j) /\ p.code[d][j].def = v /\ IF d = b THEN j < i ELSE Dom(p, d, b)
    BY <1>1, <1>4, ComputedFields
  <2>2. PICK j \in 1 .. Len(p.code[d]) :
          LoadAt(p, d, j) /\ p.code[d][j].def = v /\ IF d = b THEN j < i ELSE Dom(p, d, b)
    BY <2>1
  <2>3. j \in Nat /\ i \in Nat
    BY SourceFields
  <2>4. Passed(p, b, i - 1, d, j)
    BY <2>2, <2>3 DEF Passed
  <2>. QED BY <2>2, <2>4 DEF LoadsHeld, v
<1>. QED BY <1>1, <1>3, <1>4, OperandKinds

\* A step of m, and at most one of n.
LEMMA MemoryStep ==
  ASSUME NEW p \in Programs, NEW Q, NEW R, NEW S, Meaning(p, Q, R, S), NEW b \in Blocks,
         NEW i \in 1 .. Len(p.code[b]), NEW m, NEW mem, NEW regm, NEW out, IsMachine(m, mem, regm, out),
         NEW reg, NEW reg2,
         \A v \in DOMAIN reg : reg[v] \in Vals /\ v[1] # "const",
         MemoryHeld(p, R, S, b, i - 1, mem, reg), LoadsHeld(p, R, b, i - 1, regm, reg),
         \A w : w[1] # "load" => ValueOf(w, reg2) = ValueOf(w, reg)
  PROVE  MemoryHeld(p, R, S, b, i, Run1(m, p.code[b][i]).mem, reg2)
<1> DEFINE ins == p.code[b][i]
           new == Run1(m, ins)
<1>1. /\ ins \in Instructions /\ ins.op # "phi"
      /\ ins.op = "load" <=> ins.def[1] = "load"
      /\ ins.op \in {"alloca", "load", "store"} => ins.var \in Vars
  BY ProgramFields, SourceFields
<1>2. /\ ins.op = "alloca" => IsMachine(new, [mem EXCEPT ![ins.var] = Undef], regm, out)
      /\ ins.op = "store" => IsMachine(new, [mem EXCEPT ![ins.var] = ValueOf(ins.val, regm)], regm, out)
      /\ ins.op = "load" => IsMachine(new, mem, With([v \in {ins.def} |-> mem[ins.var]], regm), out)
      /\ ins.op = "use" => IsMachine(new, mem, regm, Append(out, ValueOf(ins.val, regm)))
  BY <1>1, Run1Does
<1>3. ins.op \in {"alloca", "load", "store", "use"}
  BY <1>1, InstructionFields DEF Ops
<1>4. /\ mem \in [Vars -> Vals]
      /\ \A v \in DOMAIN regm : regm[v] \in Vals /\ v[1] # "const"
      /\ i \in Nat \ {0}
  BY SourceFields DEF IsMachine
<1>5. ASSUME NEW x \in Vars, ~StoreAt(p, b, i, x), mem[x] # Undef
      PROVE  \E w : Holds(p, R, S, b, i, x, w) /\ Carries(w, mem[x], reg2)
  <2>1. PICK w : Holds(p, R, S, b, i - 1, x, w) /\ Carries(w, mem[x], reg)
    BY <1>5 DEF MemoryHeld
  <2>2. Holds(p, R, S, b, i, x, w)
    BY <1>4, <1>5, <2>1, HoldsNext
  <2>3. Carries(w, mem[x], reg2)
    BY <2>1 DEF Carries
  <2>. QED BY <2>2, <2>3
<1>6. CASE ins.op \in {"load", "use"}
  <2>1. new.mem = mem
    BY <1>2, <1>6, MachineFields
  <2>2. \A x \in Vars : ~StoreAt(p, b, i, x)
    BY <1>6 DEF StoreAt
  <2>. QED BY <1>5, <2>1, <2>2 DEF MemoryHeld
<1>7. CASE ins.op = "alloca"
  <2>1. new.mem = [mem EXCEPT ![ins.var] = Undef]
    BY <1>2, <1>7, MachineFields
  <2>2. \A x \in Vars : ~StoreAt(p, b, i, x)
    BY <1>7 DEF StoreAt
  <2>3. \A x \in Vars : new.mem[x] = mem[x] \/ new.mem[x] = Undef
    BY <1>4, <2>1
  <2>. HIDE DEF new
  <2>4. \A x \in Vars : new.mem[x] # Undef => new.mem[x] = mem[x] /\ mem[x] # Undef
    BY <2>3
  <2>. QED BY <1>5, <2>2, <2>4 DEF MemoryHeld, new
<1>8. CASE ins.op = "store"
  <2>1. new.mem = [mem EXCEPT ![ins.var] = ValueOf(ins.val, regm)]
    BY <1>2, <1>8, MachineFields
  <2>2. \A x \in Vars : x # ins.var => new.mem[x] = mem[x] /\ ~StoreAt(p, b, i, x)
    BY <1>4, <2>1 DEF StoreAt
  <2>3. new.mem[ins.var] = ValueOf(ins.val, regm) /\ StoreAt(p, b, i, ins.var)
    BY <1>1, <1>4, <1>8, <2>1 DEF StoreAt
  <2>4. Holds(p, R, S, b, i, ins.var, R[ins.val])
    BY <1>4, <2>3, HoldsNext
  <2>5. ValueOf(ins.val, regm) # Undef => Carries(R[ins.val], ValueOf(ins.val, regm), reg)
    BY <1>4, <1>8, OperandHeld
  <2>6. ValueOf(ins.val, regm) # Undef => Carries(R[ins.val], ValueOf(ins.val, regm), reg2)
    BY <2>5 DEF Carries
  <2>. HIDE DEF new
  <2>7. ASSUME NEW x \in Vars, new.mem[x] # Undef
        PROVE  \E w : Holds(p, R, S, b, i, x, w) /\ Carries(w, new.mem[x], reg2)
    <3>1. CASE x = ins.var
      BY <2>3, <2>4, <2>6, <2>7, <3>1
    <3>2. CASE x # ins.var
      BY <1>5, <2>2, <2>7, <3>2
    <3>. QED BY <3>1, <3>2
  <2>. QED BY <2>7 DEF MemoryHeld, new
<1>. QED BY <1>3, <1>6, <1>7, <1>8

LEMMA LoadsStep ==
  ASSUME NEW p \in Programs, NEW Q, NEW R, NEW S, Meaning(p, Q, R, S), NEW b \in Blocks,
         NEW i \in 1 .. Len(p.code[b]), NEW m, NEW mem, NEW regm, NEW out, IsMachine(m, mem, regm, out),
         NEW reg, NEW reg2,
         MemoryHeld(p, R, S, b, i - 1, mem, reg), LoadsHeld(p, R, b, i - 1, regm, reg),
         \A w : w[1] # "load" => ValueOf(w, reg2) = ValueOf(w, reg)
  PROVE  LoadsHeld(p, R, b, i, Run1(m, p.code[b][i]).reg, reg2)
<1> DEFINE ins == p.code[b][i]
           new == Run1(m, ins)
<1>1. /\ ins \in Instructions /\ ins.op # "phi"
      /\ ins.op = "load" <=> ins.def[1] = "load"
      /\ ins.op \in {"alloca", "load", "store"} => ins.var \in Vars
  BY ProgramFields, SourceFields
<1>2. /\ ins.op = "alloca" => IsMachine(new, [mem EXCEPT ![ins.var] = Undef], regm, out)
      /\ ins.op = "store" => IsMachine(new, [mem EXCEPT ![ins.var] = ValueOf(ins.val, regm)], regm, out)
      /\ ins.op = "load" => IsMachine(new, mem, With([v \in {ins.def} |-> mem[ins.var]], regm), out)
      /\ ins.op = "use" => IsMachine(new, mem, regm, Append(out, ValueOf(ins.val, regm)))
  BY <1>1, Run1Does
<1>3. ins.op \in {"alloca", "load", "store", "use"} /\ i \in Nat \ {0} /\ i - 1 \in 0 .. Len(p.code[b])
  BY <1>1, InstructionFields, SourceFields DEF Ops
<1>. SUFFICES ASSUME NEW d \in Blocks, NEW j \in 1 .. Len(p.code[d]), LoadAt(p, d, j),
                     Passed(p, b, i, d, j), ValueOf(p.code[d][j].def, new.reg) # Undef
              PROVE  Carries(R[p.code[d][j].def], ValueOf(p.code[d][j].def, new.reg), reg2)
  BY DEF LoadsHeld
<1> DEFINE v == p.code[d][j].def
<1>4. v[1] = "load" /\ v \in Operands /\ j \in Nat
  BY SourceFields
<1>5. CASE d = b /\ j = i
  <2>1. ins.op = "load" /\ v = ins.def
    BY <1>5 DEF LoadAt
  <2>2. new.reg = With([u \in {ins.def} |-> mem[ins.var]], regm)
    BY <1>2, <2>1, MachineFields
  <2>3. ValueOf(v, new.reg) = mem[ins.var]
    <3> DEFINE g == [u \in {ins.def} |-> mem[ins.var]]
    <3>1. v \in DOMAIN g /\ g[v] = mem[ins.var]
      BY <2>1
    <3>. HIDE DEF g, v, new
    <3>2. ValueOf(v, With(g, regm)) = g[v]
      BY <1>4, <3>1, ValueOfSet
    <3>. QED BY <2>2, <3>1, <3>2 DEF g
  <2>4. PICK w : Holds(p, R, S, b, i - 1, ins.var, w) /\ Carries(w, mem[ins.var], reg)
    <3>. HIDE DEF new, v
    <3>. QED BY <1>1, <2>1, <2>3 DEF MemoryHeld, v
  <2>5. R[v] = w
    <3>1. Loads(p, R, S, b, i)
      BY MeaningFields
    <3>2. PICK u : /\ Holds(p, R, S, b, i - 1, ins.var, u)
                   /\ R[ins.def] = IF u = NoValue THEN ins.def ELSE u
      BY <1>5, <3>1 DEF Loads
    <3>3. u = w /\ w # NoValue
      BY <1>3, <2>4, <3>2, HoldsUnique, OperandKinds DEF Carries
    <3>. QED BY <2>1, <3>2, <3>3
  <2>. HIDE DEF new, v
  <2>. QED BY <2>3, <2>4, <2>5 DEF Carries, v
<1>6. CASE ~(d = b /\ j = i)
  <2>1. v # ins.def
    BY <1>6, DefinedOnce
  <2>2. ValueOf(v, new.reg) = ValueOf(v, regm)
    <3>1. CASE ins.op = "load"
      <4> DEFINE g == [u \in {ins.def} |-> mem[ins.var]]
      <4>1. new.reg = With(g, regm) /\ v \notin DOMAIN g
        BY <1>2, <2>1, <3>1, MachineFields
      <4>. HIDE DEF g, v, new
      <4>2. ValueOf(v, With(g, regm)) = ValueOf(v, regm)
        BY <4>1 DEF ValueOf, With
      <4>. QED BY <4>1, <4>2
    <3>2. CASE ins.op # "load"
      BY <1>2, <1>3, <3>2, MachineFields
    <3>. QED BY <3>1, <3>2
  <2>3. Passed(p, b, i - 1, d, j)
    <3>1. CASE d = b
      <4>1. j <= i /\ j # i
        BY <1>6, <3>1 DEF Passed
      <4>2. j <= i - 1
        BY <1>3, <1>4, <4>1
      <4>. QED BY <3>1, <4>2 DEF Passed
    <3>2. CASE d # b
      BY <3>2 DEF Passed
    <3>. QED BY <3>1, <3>2
  <2>. HIDE DEF new
  <2>4. Carries(R[v], ValueOf(v, regm), reg)
    BY <2>2, <2>3 DEF LoadsHeld
  <2>. QED BY <2>2, <2>4 DEF Carries
<1>. QED BY <1>5, <1>6

LEMMA RelatedStep ==
  ASSUME NEW p \in Programs, NEW Q, NEW R, NEW S, Meaning(p, Q, R, S), NEW b \in Blocks,
         NEW i \in 1 .. Len(p.code[b]), NEW m, NEW n, NEW n2, Machine(m), Machine(n),
         Related(p, R, S, b, i - 1, m, n),
         \A w : w[1] # "load" => ValueOf(w, n2.reg) = ValueOf(w, n.reg),
         n2.out = IF p.code[b][i].op = "use" THEN Append(n.out, ValueOf(R[p.code[b][i].val], n.reg))
                  ELSE n.out
  PROVE  Machine(Run1(m, p.code[b][i])) /\ Related(p, R, S, b, i, Run1(m, p.code[b][i]), n2)
<1> DEFINE ins == p.code[b][i]
           new == Run1(m, ins)
<1>1. /\ ins \in Instructions /\ ins.op # "phi"
      /\ ins.op = "load" <=> ins.def[1] = "load"
      /\ ins.op \in {"alloca", "load", "store"} => ins.var \in Vars
  BY ProgramFields, SourceFields
<1>2. PICK mem, regm, out : IsMachine(m, mem, regm, out)
  BY DEF Machine
<1>3. PICK memn, reg, outn : IsMachine(n, memn, reg, outn)
  BY DEF Machine
<1>4. /\ m.mem = mem /\ m.reg = regm /\ m.out = out /\ out \in Seq(Vals)
      /\ n.reg = reg /\ n.out = outn /\ outn \in Seq(Vals)
      /\ \A v \in DOMAIN regm : regm[v] \in Vals /\ v[1] # "const"
      /\ \A v \in DOMAIN reg : reg[v] \in Vals /\ v[1] # "const"
  BY <1>2, <1>3, MachineFields DEF IsMachine
<1>5. /\ ins.op = "alloca" => IsMachine(new, [mem EXCEPT ![ins.var] = Undef], regm, out)
      /\ ins.op = "store" => IsMachine(new, [mem EXCEPT ![ins.var] = ValueOf(ins.val, regm)], regm, out)
      /\ ins.op = "load" => IsMachine(new, mem, With([v \in {ins.def} |-> mem[ins.var]], regm), out)
      /\ ins.op = "use" => IsMachine(new, mem, regm, Append(out, ValueOf(ins.val, regm)))
  BY <1>1, <1>2, Run1Does
<1>6. ins.op \in {"alloca", "load", "store", "use"}
  BY <1>1, InstructionFields DEF Ops
<1>. HIDE DEF new, ins
<1>7. /\ MemoryHeld(p, R, S, b, i - 1, mem, reg) /\ LoadsHeld(p, R, b, i - 1, regm, reg)
      /\ SameOut(out, outn)
  BY <1>4 DEF Related
<1>8. \A w : w[1] # "load" => ValueOf(w, n2.reg) = ValueOf(w, reg)
  BY <1>4
<1>9. MemoryHeld(p, R, S, b, i, new.mem, n2.reg) /\ LoadsHeld(p, R, b, i, new.reg, n2.reg)
  BY <1>2, <1>4, <1>7, <1>8, MemoryStep, LoadsStep DEF new, ins
<1>10. Machine(new) /\ new.out = IF ins.op = "use" THEN Append(out, ValueOf(ins.val, regm)) ELSE out
  BY <1>5, <1>6, MachineFields
<1>11. SameOut(new.out, n2.out)
  <2>1. CASE ins.op # "use"
    BY <1>4, <1>7, <1>10, <2>1 DEF ins
  <2>2. CASE ins.op = "use"
    <3>1. ValueOf(ins.val, regm) # Undef => ValueOf(R[ins.val], reg) = ValueOf(ins.val, regm)
      <4>1. p.code[b][i].op \in {"store", "use"}
        BY <2>2 DEF ins
      <4>2. ASSUME ValueOf(ins.val, regm) # Undef PROVE Carries(R[ins.val], ValueOf(ins.val, regm), reg)
        BY <1>4, <1>7, <4>1, <4>2, OperandHeld DEF ins
      <4>. QED BY <4>2 DEF Carries
    <3> DEFINE u == ValueOf(ins.val, regm)
               w == ValueOf(R[ins.val], reg)
    <3>2. new.out = Append(out, u) /\ n2.out = Append(outn, w)
      BY <1>4, <1>10, <2>2 DEF ins
    <3>3. u # Undef => w = u
      BY <3>1
    <3>. HIDE DEF u, w
    <3>4. SameOut(Append(out, u), Append(outn, w))
      BY <1>4, <1>7, <3>3 DEF SameOut
    <3>. QED BY <3>2, <3>4
  <2>. QED BY <2>1, <2>2
<1>. QED BY <1>9, <1>10, <1>11 DEF Related, new, ins

\* What n does for an instruction that it has kept.
LEMMA KeptStep ==
  ASSUME NEW p \in Programs, NEW R, NEW b \in Blocks, NEW i \in 1 .. Len(p.code[b]), NEW n, Machine(n),
         NEW ins \in Instructions, SameAccess(ins, p.code[b][i]),
         ins.op = "use" => ins.val = R[p.code[b][i].val]
  PROVE  /\ Machine(Run1(n, ins))
         /\ \A w : w[1] # "load" => ValueOf(w, Run1(n, ins).reg) = ValueOf(w, n.reg)
         /\ Run1(n, ins).out = IF p.code[b][i].op = "use"
                               THEN Append(n.out, ValueOf(R[p.code[b][i].val], n.reg)) ELSE n.out
<1> DEFINE old == p.code[b][i]
           new == Run1(n, ins)
<1>1. /\ old.op # "phi" /\ old.op \in Ops
      /\ old.op = "load" <=> old.def[1] = "load"
      /\ old.op \in {"alloca", "load", "store"} => old.var \in Vars
  BY ProgramFields, SourceFields, InstructionFields
<1>2. ins.op = old.op /\ ins.def = old.def /\ ins.var = old.var
  BY DEF SameAccess
<1>. HIDE DEF old, new
<1>3. PICK mem, reg, out : IsMachine(n, mem, reg, out)
  BY DEF Machine
<1>4. n.reg = reg /\ n.out = out
  BY <1>3, MachineFields
<1>5. /\ ins.op = "alloca" => IsMachine(new, [mem EXCEPT ![ins.var] = Undef], reg, out)
      /\ ins.op = "store" => IsMachine(new, [mem EXCEPT ![ins.var] = ValueOf(ins.val, reg)], reg, out)
      /\ ins.op = "load" => IsMachine(new, mem, With([v \in {ins.def} |-> mem[ins.var]], reg), out)
      /\ ins.op = "use" => IsMachine(new, mem, reg, Append(out, ValueOf(ins.val, reg)))
  BY <1>1, <1>2, <1>3, Run1Does DEF new
<1>6. Machine(new) /\ new.out = IF old.op = "use" THEN Append(out, ValueOf(ins.val, reg)) ELSE out
  BY <1>1, <1>2, <1>5, MachineFields DEF Ops
<1>7. \A w : w[1] # "load" => ValueOf(w, new.reg) = ValueOf(w, reg)
  <2>1. CASE ins.op = "load"
    <3> DEFINE g == [v \in {ins.def} |-> mem[ins.var]]
    <3>1. new.reg = With(g, reg) /\ \A w : w[1] # "load" => w \notin DOMAIN g
      BY <1>1, <1>2, <1>5, <2>1, MachineFields
    <3>. HIDE DEF g
    <3>. QED BY <3>1 DEF ValueOf, With
  <2>2. CASE ins.op # "load"
    BY <1>1, <1>2, <1>5, <2>2, MachineFields DEF Ops
  <2>. QED BY <2>1, <2>2
<1>. QED BY <1>2, <1>4, <1>6, <1>7 DEF old, new

(***************************************************************************)
(* A block before and after the pass: the sequence s has phis that p.code  *)
(* does not, and lacks some of its loads, stores and allocas.  W are the   *)
(* loads that have been replaced.                                          *)
(***************************************************************************)
NowIs(R, W, v) == IF v \in W THEN R[v] ELSE v
StepOf(p, s, b, R, W, u, v, k) ==
  \/ u[k] = u[k - 1] /\ v[k] = v[k - 1] + 1 /\ s[v[k]].op = "phi"
  \/ /\ u[k] = u[k - 1] + 1 /\ v[k] = v[k - 1] + 1 /\ SameAccess(s[v[k]], p.code[b][u[k]])
     /\ s[v[k]].op = "use" => s[v[k]].val = NowIs(R, W, p.code[b][u[k]].val)
  \/ u[k] = u[k - 1] + 1 /\ v[k] = v[k - 1] /\ p.code[b][u[k]].op # "use"
PathOf(p, s, b, R, W, m, u, v) ==
  /\ m \in Nat /\ u \in [0 .. m -> 0 .. Len(p.code[b])] /\ v \in [0 .. m -> 0 .. Len(s)]
  /\ u[0] = 0 /\ v[0] = 0 /\ u[m] = Len(p.code[b]) /\ v[m] = Len(s)
  /\ \A k \in 1 .. m : StepOf(p, s, b, R, W, u, v, k)
Synced(p, s, b, R, W) == \E m, u, v : PathOf(p, s, b, R, W, m, u, v)

LEMMA PhiDoesNothing ==
  ASSUME NEW n, NEW ins, ins.op = "phi" PROVE Run1(n, ins) = n
BY DEF Run1

LEMMA SyncedRun ==
  ASSUME NEW p \in Programs, NEW Q, NEW R, NEW S, Meaning(p, Q, R, S), NEW b \in Blocks,
         NEW s \in Seq(Instructions), NEW W, Synced(p, s, b, R, W),
         \A i \in 1 .. Len(p.code[b]) : p.code[b][i].op = "use" =>
           NowIs(R, W, p.code[b][i].val) = R[p.code[b][i].val],
         NEW f, NEW g, Machine(f[0]), Machine(g[0]), Related(p, R, S, b, 0, f[0], g[0]),
         \A i \in 1 .. Len(p.code[b]) : f[i] = Run1(f[i - 1], p.code[b][i]),
         \A j \in 1 .. Len(s) : g[j] = Run1(g[j - 1], s[j])
  PROVE  LET i == Len(p.code[b])
             j == Len(s)
         IN  Machine(f[i]) /\ Machine(g[j]) /\ Related(p, R, S, b, i, f[i], g[j])
<1> DEFINE Fine(i, j) == Machine(f[i]) /\ Machine(g[j]) /\ Related(p, R, S, b, i, f[i], g[j])
<1>1. PICK m, u, v : PathOf(p, s, b, R, W, m, u, v)
  BY DEF Synced
<1>2. /\ m \in Nat /\ u \in [0 .. m -> 0 .. Len(p.code[b])] /\ v \in [0 .. m -> 0 .. Len(s)]
      /\ u[0] = 0 /\ v[0] = 0 /\ u[m] = Len(p.code[b]) /\ v[m] = Len(s)
      /\ \A k \in 1 .. m : StepOf(p, s, b, R, W, u, v, k)
  BY <1>1 DEF PathOf
<1>3. Len(p.code[b]) \in Nat /\ Len(s) \in Nat /\ \A j \in 1 .. Len(s) : s[j] \in Instructions
  BY SourceFields
<1>4. ASSUME NEW k \in 1 .. m, Fine(u[k - 1], v[k - 1]) PROVE Fine(u[k], v[k])
  <2>1. k \in 0 .. m /\ k - 1 \in 0 .. m
    BY <1>2
  <2>2. u[k] \in 0 .. Len(p.code[b]) /\ u[k - 1] \in 0 .. Len(p.code[b])
        /\ v[k] \in 0 .. Len(s) /\ v[k - 1] \in 0 .. Len(s)
    BY <1>2, <2>1
  <2> DEFINE i == u[k]
             j == v[k]
             h == u[k - 1]
             l == v[k - 1]
  <2>3. \/ i = h /\ j = l + 1 /\ s[j].op = "phi"
        \/ /\ i = h + 1 /\ j = l + 1 /\ SameAccess(s[j], p.code[b][i])
           /\ s[j].op = "use" => s[j].val = NowIs(R, W, p.code[b][i].val)
        \/ i = h + 1 /\ j = l /\ p.code[b][i].op # "use"
    BY <1>2 DEF StepOf
  <2>4. Machine(f[h]) /\ Machine(g[l]) /\ Related(p, R, S, b, h, f[h], g[l])
    BY <1>4
  <2>5. /\ i \in 0 .. Len(p.code[b]) /\ h \in 0 .. Len(p.code[b]) /\ j \in 0 .. Len(s) /\ l \in 0 .. Len(s)
        /\ i = h + 1 => i \in 1 .. Len(p.code[b]) /\ i - 1 = h
        /\ j = l + 1 => j \in 1 .. Len(s) /\ j - 1 = l
    <3>. HIDE DEF i, j, h, l
    <3>1. /\ i \in 0 .. Len(p.code[b]) /\ h \in 0 .. Len(p.code[b]) /\ j \in 0 .. Len(s) /\ l \in 0 .. Len(s)
      BY <2>2 DEF i, j, h, l
    <3>. QED BY <1>3, <3>1
  <2>. HIDE DEF i, j, h, l
  <2>6. CASE i = h /\ j = l + 1 /\ s[j].op = "phi"
    <3>1. g[j] = g[l]
      BY <2>5, <2>6, PhiDoesNothing
    <3>. QED BY <2>4, <2>6, <3>1 DEF i, j
  <2>7. CASE /\ i = h + 1 /\ j = l + 1 /\ SameAccess(s[j], p.code[b][i])
             /\ s[j].op = "use" => s[j].val = NowIs(R, W, p.code[b][i].val)
    <3>1. i \in 1 .. Len(p.code[b]) /\ i - 1 = h /\ j \in 1 .. Len(s) /\ j - 1 = l /\ s[j] \in Instructions
      BY <1>3, <2>5, <2>7
    <3>2. f[i] = Run1(f[h], p.code[b][i]) /\ g[j] = Run1(g[l], s[j])
      BY <3>1
    <3>3. s[j].op = "use" => s[j].val = R[p.code[b][i].val]
      BY <2>7, <3>1 DEF SameAccess
    <3>4. /\ Machine(g[j])
          /\ \A w : w[1] # "load" => ValueOf(w, g[j].reg) = ValueOf(w, g[l].reg)
          /\ g[j].out = IF p.code[b][i].op = "use"
                        THEN Append(g[l].out, ValueOf(R[p.code[b][i].val], g[l].reg)) ELSE g[l].out
      <4> DEFINE n == g[l]
                 ins == s[j]
      <4>1. /\ ins \in Instructions /\ SameAccess(ins, p.code[b][i]) /\ Machine(n)
            /\ ins.op = "use" => ins.val = R[p.code[b][i].val]
        BY <2>4, <2>7, <3>1, <3>3
      <4>. HIDE DEF n, ins
      <4>2. /\ Machine(Run1(n, ins))
            /\ \A w : w[1] # "load" => ValueOf(w, Run1(n, ins).reg) = ValueOf(w, n.reg)
            /\ Run1(n, ins).out = IF p.code[b][i].op = "use"
                                  THEN Append(n.out, ValueOf(R[p.code[b][i].val], n.reg)) ELSE n.out
        BY <3>1, <4>1, KeptStep
      <4>. QED BY <3>2, <4>2 DEF n, ins
    <3>5. Machine(f[i]) /\ Related(p, R, S, b, i, f[i], g[j])
      <4> DEFINE m1 == f[h]
                 n == g[l]
                 n2 == g[j]
      <4>1. Machine(m1) /\ Machine(n) /\ Related(p, R, S, b, i - 1, m1, n)
        BY <2>4, <3>1
      <4>2. /\ \A w : w[1] # "load" => ValueOf(w, n2.reg) = ValueOf(w, n.reg)
            /\ n2.out = IF p.code[b][i].op = "use" THEN Append(n.out, ValueOf(R[p.code[b][i].val], n.reg))
                        ELSE n.out
        BY <3>4
      <4>. HIDE DEF m1, n, n2
      <4>3. Machine(Run1(m1, p.code[b][i])) /\ Related(p, R, S, b, i, Run1(m1, p.code[b][i]), n2)
        BY <3>1, <4>1, <4>2, RelatedStep
      <4>. QED BY <3>2, <4>3 DEF m1, n2
    <3>. QED BY <3>4, <3>5 DEF i, j
  <2>8. CASE i = h + 1 /\ j = l /\ p.code[b][i].op # "use"
    <3>1. i \in 1 .. Len(p.code[b]) /\ i - 1 = h /\ f[i] = Run1(f[h], p.code[b][i])
      BY <2>5, <2>8
    <3>2. Machine(f[i]) /\ Related(p, R, S, b, i, f[i], g[l])
      <4> DEFINE m1 == f[h]
                 n == g[l]
      <4>1. Machine(m1) /\ Machine(n) /\ Related(p, R, S, b, i - 1, m1, n)
        BY <2>4, <3>1
      <4>. HIDE DEF m1, n
      <4>2. n.out = IF p.code[b][i].op = "use" THEN Append(n.out, ValueOf(R[p.code[b][i].val], n.reg))
                    ELSE n.out
        BY <2>8
      <4>3. Machine(Run1(m1, p.code[b][i])) /\ Related(p, R, S, b, i, Run1(m1, p.code[b][i]), n)
        BY <3>1, <4>1, <4>2, RelatedStep
      <4>. QED BY <3>1, <4>3 DEF m1, n
    <3>. QED BY <2>4, <2>8, <3>2 DEF i, j
  <2>. QED BY <2>3, <2>6, <2>7, <2>8
<1> DEFINE Bad == {k \in 0 .. m : ~Fine(u[k], v[k])}
<1>5. Bad = {}
  <2>. SUFFICES ASSUME Bad # {} PROVE FALSE
    OBVIOUS
  <2>1. Bad \in SUBSET Nat
    BY <1>2
  <2>2. PICK k \in Bad : \A l \in Bad : k <= l
    <3>. HIDE DEF Bad
    <3>. QED BY <2>1, Least
  <2>3. k \in 0 .. m /\ ~Fine(u[k], v[k]) /\ k \in Nat
    BY <1>2, <2>2
  <2>4. k # 0
    BY <1>2, <2>3
  <2>5. k - 1 \in 0 .. m /\ k \in 1 .. m /\ k - 1 \notin Bad
    BY <1>2, <2>2, <2>3, <2>4
  <2>6. Fine(u[k - 1], v[k - 1])
    BY <2>5
  <2>. QED BY <1>4, <2>3, <2>5, <2>6
<1>6. Fine(u[m], v[m])
  <2>1. m \in 0 .. m
    BY <1>2
  <2>. QED BY <1>5, <2>1
<1>. QED BY <1>2, <1>6

\* Where the elements of a sequence are in what is kept of it.
Traces(h, s, K, r) ==
  /\ h \in [0 .. Len(s) -> 0 .. Len(r)] /\ h[0] = 0 /\ h[Len(s)] = Len(r)
  /\ \A k \in 1 .. Len(s) : /\ s[k] \in K => h[k] = h[k - 1] + 1 /\ r[h[k]] = s[k]
                            /\ s[k] \notin K => h[k] = h[k - 1]

LEMMA KeptTrace ==
  ASSUME NEW S, NEW s \in Seq(S), NEW K
  PROVE  \E h : Traces(h, s, K, Kept(s, K))
<1> DEFINE n == Len(s)
<1>1. n \in Nat
  OBVIOUS
<1>2. PICK f : Keeping(f, s, K, n) /\ Kept(s, K) = f[n]
  <2> DEFINE g == CHOOSE g : Keeping(g, s, K, n)
  <2>1. Keeping(g, s, K, n)
    BY <1>1, KeepingExists
  <2>2. Kept(s, K) = g[n]
    BY DEF Kept, Keeping, Keep
  <2>. QED BY <2>1, <2>2
<1>3. f[0] = <<>> /\ \A k \in 1 .. n : f[k] = IF s[k] \in K THEN Append(f[k - 1], s[k]) ELSE f[k - 1]
  <2>1. 0 \in 0 .. n /\ \A k \in 1 .. n : k \in 0 .. n /\ k # 0
    BY <1>1
  <2>2. \A k \in 0 .. n : f[k] = IF k = 0 THEN <<>> ELSE Keep(f[k - 1], s, K, k)
    BY <1>2 DEF Keeping
  <2>. QED BY <2>1, <2>2 DEF Keep
<1>4. \A k \in 1 .. n : s[k] \in S
  OBVIOUS
<1>. HIDE DEF n
<1> DEFINE Bad == {k \in 0 .. n : f[k] \notin Seq(S)}
<1>5. Bad = {}
  <2>. SUFFICES ASSUME Bad # {} PROVE FALSE
    OBVIOUS
  <2>1. Bad \in SUBSET Nat
    BY <1>1
  <2>2. PICK k \in Bad : \A l \in Bad : k <= l
    <3>. HIDE DEF Bad
    <3>. QED BY <2>1, Least
  <2>3. k \in 0 .. n /\ f[k] \notin Seq(S)
    BY <2>2
  <2>4. k # 0
    <3>1. <<>> \in Seq(S)
      OBVIOUS
    <3>. QED BY <1>3, <2>3, <3>1
  <2>5. k \in 1 .. n /\ k - 1 \in 0 .. n /\ k - 1 \notin Bad
    BY <1>1, <2>2, <2>3, <2>4
  <2>6. f[k - 1] \in Seq(S) /\ s[k] \in S
    BY <1>4, <2>5
  <2>7. Append(f[k - 1], s[k]) \in Seq(S)
    BY <2>6
  <2>8. f[k] = Append(f[k - 1], s[k]) \/ f[k] = f[k - 1]
    BY <1>3, <2>5
  <2>. QED BY <2>3, <2>6, <2>7, <2>8
<1>6. \A k \in 0 .. n : f[k] \in Seq(S) /\ Len(f[k]) \in Nat
  BY <1>5
<1> DEFINE Within(k) == Len(f[k]) <= Len(f[n]) /\ \A i \in 1 .. Len(f[k]) : f[k][i] = f[n][i]
           Out == {k \in 0 .. n : ~Within(k)}
<1>7. ASSUME NEW k \in 1 .. n, Within(k) PROVE Within(k - 1)
  <2>1. k - 1 \in 0 .. n /\ k \in 0 .. n
    BY <1>1
  <2>2. f[k] = Append(f[k - 1], s[k]) \/ f[k] = f[k - 1]
    BY <1>3
  <2>3. f[k - 1] \in Seq(S) /\ s[k] \in S /\ f[n] \in Seq(S)
    <3>1. n \in 0 .. n
      BY <1>1
    <3>. QED BY <1>4, <1>6, <2>1, <3>1
  <2>4. CASE f[k] = f[k - 1]
    BY <1>7, <2>4
  <2>5. CASE f[k] = Append(f[k - 1], s[k])
    <3>1. /\ Len(f[k]) = Len(f[k - 1]) + 1 /\ Len(f[k - 1]) \in Nat /\ Len(f[n]) \in Nat
          /\ \A i \in 1 .. Len(f[k - 1]) : f[k][i] = f[k - 1][i]
      BY <2>3, <2>5
    <3>2. Len(f[k - 1]) <= Len(f[n]) /\ \A i \in 1 .. Len(f[k - 1]) : i \in 1 .. Len(f[k])
      BY <1>7, <3>1
    <3>. QED BY <1>7, <3>1, <3>2
  <2>. QED BY <2>2, <2>4, <2>5
<1>8. Out = {}
  <2>. SUFFICES ASSUME Out # {} PROVE FALSE
    OBVIOUS
  <2>1. Out \in SUBSET Nat /\ \A k \in Out : k <= n
    BY <1>1
  <2>2. PICK k \in Out : \A l \in Out : l <= k
    <3>. HIDE DEF Out
    <3>. QED BY <1>1, <2>1, Greatest
  <2>3. k \in 0 .. n /\ ~Within(k)
    BY <2>2
  <2>4. k # n
    <3>1. n \in 0 .. n
      BY <1>1
    <3>2. Len(f[n]) \in Nat
      BY <1>6, <3>1
    <3>. QED BY <2>3, <3>2
  <2>5. k + 1 \in 1 .. n /\ k + 1 \in 0 .. n /\ ~(k + 1 <= k) /\ (k + 1) - 1 = k
    BY <1>1, <2>3, <2>4
  <2>6. Within(k + 1)
    BY <2>2, <2>5
  <2>7. Within((k + 1) - 1)
    <3>. HIDE DEF Within
    <3>. QED BY <1>7, <2>5, <2>6
  <2>. QED BY <2>3, <2>5, <2>7
<1>9. \A k \in 0 .. n : Within(k)
  BY <1>8
<1> DEFINE h == [k \in 0 .. n |-> Len(f[k])]
           r == f[n]
<1>10. 0 \in 0 .. n /\ n \in 0 .. n /\ \A k \in 1 .. n : k \in 0 .. n /\ k - 1 \in 0 .. n
  BY <1>1
<1>11. h \in [0 .. n -> 0 .. Len(r)] /\ h[0] = 0 /\ h[n] = Len(r)
  <2>1. \A k \in 0 .. n : Len(f[k]) \in 0 .. Len(r)
    BY <1>6, <1>9, <1>10
  <2>. QED BY <1>3, <1>10, <2>1
<1>12. ASSUME NEW k \in 1 .. n
       PROVE  /\ s[k] \in K => h[k] = h[k - 1] + 1 /\ r[h[k]] = s[k]
              /\ s[k] \notin K => h[k] = h[k - 1]
  <2>1. h[k] = Len(f[k]) /\ h[k - 1] = Len(f[k - 1]) /\ f[k - 1] \in Seq(S) /\ s[k] \in S
    BY <1>4, <1>6, <1>10
  <2>2. CASE s[k] \in K
    <3>1. f[k] = Append(f[k - 1], s[k])
      BY <1>3, <2>2
    <3>2. Len(f[k]) = Len(f[k - 1]) + 1 /\ f[k][Len(f[k])] = s[k] /\ Len(f[k]) \in 1 .. Len(f[k])
      <4> DEFINE e == f[k - 1]
                 a == s[k]
      <4>1. e \in Seq(S) /\ a \in S /\ f[k] = Append(e, a)
        BY <2>1, <3>1
      <4>. HIDE DEF e, a
      <4>2. Len(Append(e, a)) = Len(e) + 1 /\ Append(e, a)[Len(e) + 1] = a /\ Len(e) \in Nat
        BY <4>1
      <4>3. Len(e) + 1 \in 1 .. Len(e) + 1
        BY <4>2
      <4>. QED BY <4>1, <4>2, <4>3 DEF e, a
    <3>3. f[k][Len(f[k])] = r[Len(f[k])]
      BY <1>9, <1>10, <3>2
    <3>. QED BY <2>1, <2>2, <3>2, <3>3
  <2>3. CASE s[k] \notin K
    BY <1>3, <2>1, <2>3
  <2>. QED BY <2>2, <2>3
<1>13. Traces(h, s, K, r)
  <2>. HIDE DEF h, r
  <2>. QED BY <1>11, <1>12 DEF Traces, n
<1>. QED BY <1>2, <1>13

\* Phis and uses are kept.
LEMMA SyncedKept ==
  ASSUME NEW p \in Programs, NEW R, NEW b \in Blocks, NEW s \in Seq(Instructions), NEW W, NEW K,
         Synced(p, s, b, R, W),
         \A k \in 1 .. Len(s) : s[k].op \in {"phi", "use"} => s[k] \in K
  PROVE  Synced(p, Kept(s, K), b, R, W)
<1> DEFINE r == Kept(s, K)
<1>1. PICK m, u, v : PathOf(p, s, b, R, W, m, u, v)
  BY DEF Synced
<1>2. PICK h : Traces(h, s, K, r)
  BY KeptTrace
<1>. HIDE DEF r
<1>3. /\ m \in Nat /\ u \in [0 .. m -> 0 .. Len(p.code[b])] /\ v \in [0 .. m -> 0 .. Len(s)]
      /\ u[0] = 0 /\ v[0] = 0 /\ u[m] = Len(p.code[b]) /\ v[m] = Len(s)
      /\ \A k \in 1 .. m : StepOf(p, s, b, R, W, u, v, k)
  BY <1>1 DEF PathOf
<1>4. /\ h \in [0 .. Len(s) -> 0 .. Len(r)] /\ h[0] = 0 /\ h[Len(s)] = Len(r)
      /\ \A k \in 1 .. Len(s) : /\ s[k] \in K => h[k] = h[k - 1] + 1 /\ r[h[k]] = s[k]
                                /\ s[k] \notin K => h[k] = h[k - 1]
  BY <1>2 DEF Traces
<1>5. Len(s) \in Nat
  OBVIOUS
<1> DEFINE w == [k \in 0 .. m |-> h[v[k]]]
<1>6. /\ w \in [0 .. m -> 0 .. Len(r)] /\ w[0] = 0 /\ w[m] = Len(r)
      /\ \A k \in 0 .. m : w[k] = h[v[k]]
  BY <1>3, <1>4
<1>. HIDE DEF w
<1>7. ASSUME NEW k \in 1 .. m PROVE StepOf(p, r, b, R, W, u, w, k)
  <2>1. k \in 0 .. m /\ k - 1 \in 0 .. m
    BY <1>3
  <2>2. w[k] = h[v[k]] /\ w[k - 1] = h[v[k - 1]] /\ v[k] \in 0 .. Len(s) /\ v[k - 1] \in 0 .. Len(s)
    BY <1>3, <1>6, <2>1
  <2>3. v[k] = v[k - 1] + 1 =>
          /\ v[k] \in 1 .. Len(s)
          /\ s[v[k]] \in K => w[k] = w[k - 1] + 1 /\ r[w[k]] = s[v[k]]
          /\ s[v[k]] \notin K => w[k] = w[k - 1]
    <3> DEFINE i == v[k]
               j == v[k - 1]
    <3>1. i \in 0 .. Len(s) /\ j \in 0 .. Len(s) /\ w[k] = h[i] /\ w[k - 1] = h[j]
      BY <2>2
    <3>. HIDE DEF i, j
    <3>2. ASSUME i = j + 1 PROVE i \in 1 .. Len(s) /\ i - 1 = j
      BY <1>5, <3>1, <3>2
    <3>3. ASSUME i = j + 1
          PROVE  /\ s[i] \in K => w[k] = w[k - 1] + 1 /\ r[w[k]] = s[i]
                 /\ s[i] \notin K => w[k] = w[k - 1]
      BY <1>4, <3>1, <3>2, <3>3
    <3>. QED BY <3>2, <3>3 DEF i, j
  <2>4. StepOf(p, s, b, R, W, u, v, k)
    BY <1>3
  <2>5. CASE u[k] = u[k - 1] /\ v[k] = v[k - 1] + 1 /\ s[v[k]].op = "phi"
    <3>1. w[k] = w[k - 1] + 1 /\ r[w[k]].op = "phi"
      BY <2>3, <2>5
    <3>. QED BY <2>5, <3>1 DEF StepOf
  <2>6. CASE /\ u[k] = u[k - 1] + 1 /\ v[k] = v[k - 1] + 1 /\ SameAccess(s[v[k]], p.code[b][u[k]])
             /\ s[v[k]].op = "use" => s[v[k]].val = NowIs(R, W, p.code[b][u[k]].val)
    <3>1. CASE s[v[k]] \in K
      <4>1. w[k] = w[k - 1] + 1 /\ r[w[k]] = s[v[k]]
        BY <2>3, <2>6, <3>1
      <4>. QED BY <2>6, <4>1 DEF StepOf
    <3>2. CASE s[v[k]] \notin K
      <4>1. w[k] = w[k - 1] /\ s[v[k]].op # "use"
        BY <2>3, <2>6, <3>2
      <4>2. p.code[b][u[k]].op # "use"
        BY <2>6, <4>1 DEF SameAccess
      <4>. QED BY <2>6, <4>1, <4>2 DEF StepOf
    <3>. QED BY <3>1, <3>2
  <2>7. CASE u[k] = u[k - 1] + 1 /\ v[k] = v[k - 1] /\ p.code[b][u[k]].op # "use"
    <3>1. w[k] = w[k - 1]
      BY <2>2, <2>7
    <3>. QED BY <2>7, <3>1 DEF StepOf
  <2>. QED BY <2>4, <2>5, <2>6, <2>7 DEF StepOf
<1>8. PathOf(p, r, b, R, W, m, u, w)
  BY <1>3, <1>6, <1>7 DEF PathOf
<1>. QED BY <1>8 DEF Synced, r

\* The code that nothing has been deleted from.
LEMMA SyncedBuilt ==
  ASSUME NEW p \in Programs, NEW R, NEW b \in Blocks, NEW s \in Seq(Instructions), NEW W, NEW n \in Nat,
         Len(s) = n + Len(p.code[b]),
         \A i \in 1 .. n : s[i].op = "phi",
         \A i \in 1 .. Len(p.code[b]) : SameAccess(s[n + i], p.code[b][i]),
         \A i \in 1 .. Len(p.code[b]) : s[n + i].op = "use" => s[n + i].val = NowIs(R, W, p.code[b][i].val)
  PROVE  Synced(p, s, b, R, W)
<1> DEFINE m == Len(s)
           u == [k \in 0 .. m |-> IF k <= n THEN 0 ELSE k - n]
           v == [k \in 0 .. m |-> k]
<1>1. Len(p.code[b]) \in Nat /\ m \in Nat /\ m = n + Len(p.code[b])
  BY SourceFields
<1>2. /\ u \in [0 .. m -> 0 .. Len(p.code[b])] /\ v \in [0 .. m -> 0 .. Len(s)]
      /\ u[0] = 0 /\ v[0] = 0 /\ u[m] = Len(p.code[b]) /\ v[m] = Len(s)
  <2>. HIDE DEF m
  <2>1. \A k \in 0 .. m : (IF k <= n THEN 0 ELSE k - n) \in 0 .. Len(p.code[b])
    BY <1>1
  <2>2. 0 \in 0 .. m /\ m \in 0 .. m /\ (IF m <= n THEN 0 ELSE m - n) = Len(p.code[b])
    BY <1>1
  <2>. QED BY <2>1, <2>2 DEF m
<1>3. ASSUME NEW k \in 1 .. m PROVE StepOf(p, s, b, R, W, u, v, k)
  <2>1. k \in 0 .. m /\ k - 1 \in 0 .. m /\ v[k] = k /\ v[k - 1] = k - 1 /\ v[k] = v[k - 1] + 1
    BY <1>1
  <2>2. u[k] = (IF k <= n THEN 0 ELSE k - n) /\ u[k - 1] = (IF k - 1 <= n THEN 0 ELSE k - 1 - n)
    BY <2>1
  <2>. HIDE DEF u, v, m
  <2>3. CASE k <= n
    <3>1. u[k] = u[k - 1] /\ k \in 1 .. n
      BY <2>1, <2>2, <2>3, <1>1
    <3>. QED BY <2>1, <3>1 DEF StepOf
  <2>4. CASE ~(k <= n)
    <3>1. u[k] = k - n /\ u[k] = u[k - 1] + 1 /\ k - n \in 1 .. Len(p.code[b]) /\ n + (k - n) = k
      <4>1. k \in Nat /\ k <= m /\ n < k
        BY <1>1, <2>1, <2>4
      <4>2. u[k] = k - n /\ (IF k - 1 <= n THEN 0 ELSE k - 1 - n) = k - n - 1
        BY <2>2, <2>4, <4>1
      <4>3. k - n \in 1 .. Len(p.code[b]) /\ n + (k - n) = k /\ k - n = (k - n - 1) + 1
        BY <1>1, <4>1
      <4>. QED BY <2>2, <4>2, <4>3
    <3>2. SameAccess(s[k], p.code[b][k - n]) /\ (s[k].op = "use" => s[k].val = NowIs(R, W, p.code[b][k - n].val))
      BY <3>1
    <3>. QED BY <2>1, <3>1, <3>2 DEF StepOf
  <2>. QED BY <2>3, <2>4
<1>4. PathOf(p, s, b, R, W, m, u, v)
  <2>. HIDE DEF u, v
  <2>. QED BY <1>1, <1>2, <1>3 DEF PathOf
<1>. QED BY <1>4 DEF Synced

\* Operands change in place.
LEMMA SyncedMoves ==
  ASSUME NEW p \in Programs, NEW R, NEW b \in Blocks, NEW s, NEW t, NEW W, NEW W2, Synced(p, s, b, R, W),
         Len(s) \in Nat, Len(t) = Len(s), \A i \in 1 .. Len(s) : SameAccess(t[i], s[i]),
         \A i \in 1 .. Len(s) : \A j \in 1 .. Len(p.code[b]) :
           s[i].op = "use" /\ SameAccess(s[i], p.code[b][j]) /\ s[i].val = NowIs(R, W, p.code[b][j].val) =>
             t[i].val = NowIs(R, W2, p.code[b][j].val)
  PROVE  Synced(p, t, b, R, W2)
<1>1. PICK m, u, v : PathOf(p, s, b, R, W, m, u, v)
  BY DEF Synced
<1>2. /\ m \in Nat /\ u \in [0 .. m -> 0 .. Len(p.code[b])] /\ v \in [0 .. m -> 0 .. Len(s)]
      /\ u[0] = 0 /\ v[0] = 0 /\ u[m] = Len(p.code[b]) /\ v[m] = Len(s)
      /\ \A k \in 1 .. m : StepOf(p, s, b, R, W, u, v, k)
  BY <1>1 DEF PathOf
<1>3. ASSUME NEW k \in 1 .. m PROVE StepOf(p, t, b, R, W2, u, v, k)
  <2>1. k \in 0 .. m /\ k - 1 \in 0 .. m
    BY <1>2
  <2>2. u[k] \in 0 .. Len(p.code[b]) /\ v[k] \in 0 .. Len(s) /\ u[k - 1] \in 0 .. Len(p.code[b]) /\ v[k - 1] \in 0 .. Len(s)
    BY <1>2, <2>1
  <2>3. /\ v[k] = v[k - 1] + 1 => v[k] \in 1 .. Len(s)
        /\ u[k] = u[k - 1] + 1 => u[k] \in 1 .. Len(p.code[b])
    <3>1. Len(p.code[b]) \in Nat
      BY SourceFields
    <3> DEFINE a == u[k]
               c == u[k - 1]
               d == v[k]
               e == v[k - 1]
    <3>2. a \in 0 .. Len(p.code[b]) /\ c \in 0 .. Len(p.code[b]) /\ d \in 0 .. Len(s) /\ e \in 0 .. Len(s)
      BY <2>2
    <3>. HIDE DEF a, c, d, e
    <3>3. (d = e + 1 => d \in 1 .. Len(s)) /\ (a = c + 1 => a \in 1 .. Len(p.code[b]))
      BY <3>1, <3>2
    <3>. QED BY <3>3 DEF a, c, d, e
  <2>4. StepOf(p, s, b, R, W, u, v, k)
    BY <1>2
  <2>5. CASE u[k] = u[k - 1] /\ v[k] = v[k - 1] + 1 /\ s[v[k]].op = "phi"
    BY <2>3, <2>5 DEF StepOf, SameAccess
  <2>6. CASE /\ u[k] = u[k - 1] + 1 /\ v[k] = v[k - 1] + 1 /\ SameAccess(s[v[k]], p.code[b][u[k]])
             /\ s[v[k]].op = "use" => s[v[k]].val = NowIs(R, W, p.code[b][u[k]].val)
    <3>1. SameAccess(t[v[k]], s[v[k]])
      BY <2>3, <2>6
    <3>2. SameAccess(t[v[k]], p.code[b][u[k]]) /\ t[v[k]].op = s[v[k]].op
      BY <2>6, <3>1 DEF SameAccess
    <3>3. t[v[k]].op = "use" => t[v[k]].val = NowIs(R, W2, p.code[b][u[k]].val)
      BY <2>3, <2>6, <3>2
    <3>. QED BY <2>6, <3>2, <3>3 DEF StepOf
  <2>7. CASE u[k] = u[k - 1] + 1 /\ v[k] = v[k - 1] /\ p.code[b][u[k]].op # "use"
    BY <2>7 DEF StepOf
  <2>. QED BY <2>4, <2>5, <2>6, <2>7 DEF StepOf
<1>4. PathOf(p, t, b, R, W2, m, u, v)
  BY <1>2, <1>3 DEF PathOf
<1>. QED BY <1>4 DEF Synced

(***************************************************************************)
(* Where a block begins.                                                   *)
(***************************************************************************)
PhisNamed(c) ==
  \A b \in Blocks : \A i \in 1 .. Len(c[b]) : c[b][i].op = "phi" =>
    c[b][i].var \in Vars /\ c[b][i].def = <<"phi", b, c[b][i].var>>

\* The value of a phi is that of an operand it has for the block.
LEMMA PhiValueIs ==
  ASSUME NEW phi \in Instructions, NEW from, NEW reg
  PROVE  /\ (\E j \in 1 .. Len(phi.pairs) : phi.pairs[j][2] = from) =>
              \E j \in 1 .. Len(phi.pairs) :
                phi.pairs[j][2] = from /\ PhiValue(phi, from, reg) = ValueOf(phi.pairs[j][1], reg)
         /\ ~(\E j \in 1 .. Len(phi.pairs) : phi.pairs[j][2] = from) => PhiValue(phi, from, reg) = Undef
<1> DEFINE taken == {v \in {pair[1] : pair \in {q \in Range(phi.pairs) : q[2] = from}} : TRUE}
           v == CHOOSE u \in taken : TRUE
<1>1. PhiValue(phi, from, reg) = IF taken = {} THEN Undef ELSE ValueOf(v, reg)
  BY DEF PhiValue
<1>2. phi.pairs \in Seq(Operands \X Blocks)
  BY InstructionFields
<1>3. DOMAIN phi.pairs = 1 .. Len(phi.pairs)
  BY <1>2
<1>4. \A q : q \in Range(phi.pairs) <=> \E j \in 1 .. Len(phi.pairs) : q = phi.pairs[j]
  BY <1>3 DEF Range
<1>5. \A u : u \in taken <=> \E j \in 1 .. Len(phi.pairs) : u = phi.pairs[j][1] /\ phi.pairs[j][2] = from
  BY <1>4
<1>. HIDE DEF taken
<1>6. taken # {} => v \in taken
  OBVIOUS
<1>. HIDE DEF v
<1>. QED BY <1>1, <1>5, <1>6

PhisRead(s, from, m) ==
  LET f == PhiValues(s, from, m.reg)
      new == Begin(s, from, m)
  IN  /\ Machine(new) /\ new.mem = m.mem /\ new.out = <<>> /\ new.reg = With(f, m.reg)
      /\ \A d \in DOMAIN f : d[1] = "phi"
      /\ \A i \in 1 .. Len(s) : s[i].op = "phi" => s[i].def \in DOMAIN f
      /\ \A d \in DOMAIN f : \E i \in 1 .. Len(s) :
           s[i].op = "phi" /\ s[i].def = d /\ f[d] = PhiValue(s[i], from, m.reg)

LEMMA BeginFields ==
  ASSUME NEW s \in Seq(Instructions), \A i \in 1 .. Len(s) : s[i].op = "phi" => s[i].def[1] = "phi",
         NEW m, Machine(m), NEW from
  PROVE  PhisRead(s, from, m)
<1> DEFINE f == PhiValues(s, from, m.reg)
           new == Begin(s, from, m)
<1>1. PICK mem, reg, out : IsMachine(m, mem, reg, out)
  BY DEF Machine
<1>2. /\ m = [mem |-> mem, reg |-> reg, out |-> out] /\ m.reg = reg /\ m.mem = mem
      /\ mem \in [Vars -> Vals] /\ \A v \in DOMAIN reg : reg[v] \in Vals /\ v[1] # "const"
  BY <1>1 DEF IsMachine
<1>3. \A ins : ins \in PhiInstrs(s) <=> \E i \in 1 .. Len(s) : ins = s[i] /\ s[i].op = "phi"
  <2>1. DOMAIN s = 1 .. Len(s)
    OBVIOUS
  <2>. QED BY <2>1 DEF PhiInstrs, Range
<1>4. DOMAIN f = {phi.def : phi \in PhiInstrs(s)}
  BY DEF PhiValues
<1>5. ASSUME NEW d \in DOMAIN f
      PROVE  \E i \in 1 .. Len(s) : s[i].op = "phi" /\ s[i].def = d /\ f[d] = PhiValue(s[i], from, m.reg)
  <2> DEFINE phi == CHOOSE q \in PhiInstrs(s) : q.def = d
  <2>1. phi \in PhiInstrs(s) /\ phi.def = d
    BY <1>4
  <2>2. f[d] = PhiValue(phi, from, m.reg)
    BY <1>4 DEF PhiValues
  <2>. HIDE DEF phi, f
  <2>. QED BY <1>3, <2>1, <2>2
<1>6. new = [m EXCEPT !.reg = With(f, @), !.out = <<>>]
  BY DEF Begin
<1>. HIDE DEF f
<1>7. new = [mem |-> mem, reg |-> With(f, reg), out |-> <<>>]
  BY <1>2, <1>6
<1>8. \A d \in DOMAIN f : d[1] = "phi" /\ f[d] \in Vals
  <2>. SUFFICES ASSUME NEW d \in DOMAIN f PROVE d[1] = "phi" /\ f[d] \in Vals
    OBVIOUS
  <2>1. PICK i \in 1 .. Len(s) : s[i].op = "phi" /\ s[i].def = d /\ f[d] = PhiValue(s[i], from, m.reg)
    BY <1>5
  <2>2. s[i] \in Instructions /\ s[i].pairs \in Seq(Operands \X Blocks)
    BY InstructionFields
  <2>3. \A j \in 1 .. Len(s[i].pairs) : s[i].pairs[j][1] \in Operands
    BY <2>2
  <2>4. \A v \in Operands : ValueOf(v, reg) \in Vals
    BY <1>2, ValueOfType
  <2>5. PhiValue(s[i], from, reg) \in Vals
    BY <2>2, <2>3, <2>4, PhiValueIs DEF Vals
  <2>. QED BY <1>2, <2>1, <2>5
<1>9. \A d \in DOMAIN With(f, reg) : With(f, reg)[d] \in Vals /\ d[1] # "const"
  BY <1>2, <1>8 DEF With
<1>10. IsMachine(new, mem, With(f, reg), <<>>)
  BY <1>2, <1>7, <1>9 DEF IsMachine
<1>11. \A i \in 1 .. Len(s) : s[i].op = "phi" => s[i].def \in DOMAIN f
  BY <1>3, <1>4
<1>. HIDE DEF new
<1>. QED BY <1>2, <1>5, <1>8, <1>10, <1>11, MachineFields DEF f, new, PhisRead

PhisAt(c) == {q \in Blocks \X Vars : PhiIn(c, q[1], q[2])}
\* The pairs of phis are what their variables hold at the end of the predecessors.
PairsMean(p, c, R, S) ==
  \A b \in Blocks : \A i \in 1 .. Len(c[b]) : c[b][i].op = "phi" =>
    \A m \in 1 .. Len(c[b][i].pairs) :
      LET pair == c[b][i].pairs[m]
      IN  Holds(p, R, S, pair[2], Len(p.code[pair[2]]), c[b][i].var, pair[1])
PhisClosed(p, c) ==
  \A b \in Blocks : \A x \in Vars : Defines(p, c, b, x) => \A s \in p.df[b] : PhiIn(c, s, x)
PairsComplete(p, c) ==
  \A b \in Blocks : \A i \in 1 .. Len(c[b]) : c[b][i].op = "phi" =>
    \A a \in Blocks : IsPred(p, a, b) /\ Reaches(p, c, c[b][i].var, a) => PairOf(c[b][i], a)

LEMMA DefinesHasDef ==
  ASSUME NEW p, NEW c, NEW b \in Blocks, NEW x \in Vars
  PROVE  /\ HasDef(p, PhisAt(c), b, x) <=> Defines(p, c, b, x)
         /\ <<b, x>> \in PhisAt(c) <=> PhiIn(c, b, x)
<1>1. <<b, x>> \in PhisAt(c) <=> PhiIn(c, b, x)
  BY DEF PhisAt
<1>. QED BY <1>1 DEF HasDef, Defines, StoreAt

LEMMA EdgePred ==
  ASSUME NEW p \in Programs, NEW a \in Blocks, NEW b \in Blocks
  PROVE  IsPred(p, a, b) <=> <<a, b>> \in EdgesOf(p)
BY DEF IsPred, EdgesOf

\* A value that is there before block s begins is no phi of it.
LEMMA NotOwnPhi ==
  ASSUME NEW p \in Programs, NEW t \in Blocks, NEW s \in Blocks, SDom(p, t, s), NEW i, NEW v, Settled(p, t, i, v)
  PROVE  ~(v[1] = "phi" /\ v[2] = s)
BY DomOrder DEF SDom, Settled

\* What m has in memory when s begins is in the value that stands for it there.
LEMMA MemoryBegins ==
  ASSUME NEW p \in Programs, NEW c \in Codes, NEW R, NEW S, Meaning(p, PhisAt(c), R, S),
         PhisNamed(c), PairsMean(p, c, R, S), PhisClosed(p, c), PairsComplete(p, c),
         NEW from \in Blocks, NEW s \in Blocks, IsPred(p, from, s), NEW n, Machine(n), NEW mem,
         MemoryHeld(p, R, S, from, Len(p.code[from]), mem, n.reg)
  PROVE  MemoryHeld(p, R, S, s, 0, mem, Begin(c[s], from, n).reg)
<1>. SUFFICES ASSUME NEW x \in Vars, mem[x] # Undef
              PROVE  \E w : Holds(p, R, S, s, 0, x, w) /\ Carries(w, mem[x], Begin(c[s], from, n).reg)
  BY DEF MemoryHeld
<1> DEFINE f == PhiValues(c[s], from, n.reg)
           new == Begin(c[s], from, n)
<1>1. PICK w : Holds(p, R, S, from, Len(p.code[from]), x, w) /\ Carries(w, mem[x], n.reg)
  BY DEF MemoryHeld
<1>2. /\ c[s] \in Seq(Instructions) /\ \A i \in 1 .. Len(c[s]) : c[s][i] \in Instructions
      /\ \A i \in 1 .. Len(c[s]) : c[s][i].op = "phi" =>
           c[s][i].var \in Vars /\ c[s][i].def = <<"phi", s, c[s][i].var>>
  BY CodeFields DEF PhisNamed
<1>3. /\ new.reg = With(f, n.reg)
      /\ \A d \in DOMAIN f : d[1] = "phi"
      /\ \A i \in 1 .. Len(c[s]) : c[s][i].op = "phi" => c[s][i].def \in DOMAIN f
      /\ \A d \in DOMAIN f : \E i \in 1 .. Len(c[s]) :
           c[s][i].op = "phi" /\ c[s][i].def = d /\ f[d] = PhiValue(c[s][i], from, n.reg)
  <2>1. \A i \in 1 .. Len(c[s]) : c[s][i].op = "phi" => c[s][i].def[1] = "phi"
    BY <1>2
  <2>2. PhisRead(c[s], from, n)
    BY <1>2, <2>1, BeginFields
  <2>. QED BY <2>2 DEF PhisRead
<1>. HIDE DEF f, new
<1>4. Holds(p, R, S, s, 0, x, S[s][x])
  BY HoldsStart
<1>5. Len(p.code[from]) \in Nat /\ Len(p.code[from]) \in 0 .. Len(p.code[from])
  BY SourceFields
<1>6. CASE <<s, x>> \in PhisAt(c)
  <2>1. S[s][x] = <<"phi", s, x>> /\ PhiIn(c, s, x)
    <3>1. Starts(p, PhisAt(c), R, S, s, x)
      BY MeaningFields
    <3>. QED BY <1>6, <3>1, DefinesHasDef DEF Starts
  <2>2. <<"phi", s, x>> \in DOMAIN f
    <3>1. PICK i \in 1 .. Len(c[s]) : c[s][i].op = "phi" /\ c[s][i].var = x
      BY <2>1 DEF PhiIn
    <3>2. c[s][i].def = <<"phi", s, x>> /\ c[s][i].def \in DOMAIN f
      BY <1>2, <1>3, <3>1
    <3>. QED BY <3>2
  <2>3. PICK i \in 1 .. Len(c[s]) :
          c[s][i].op = "phi" /\ c[s][i].def = <<"phi", s, x>> /\ f[<<"phi", s, x>>] = PhiValue(c[s][i], from, n.reg)
    BY <1>3, <2>2
  <2>4. c[s][i].var = x
    <3>1. c[s][i].def = <<"phi", s, c[s][i].var>>
      BY <1>2, <2>3
    <3>. QED BY <2>3, <3>1
  <2>5. w # NoValue
    BY <1>1, OperandKinds DEF Carries
  <2>6. Reaches(p, c, x, from)
    <3>1. PICK d \in Blocks : Dom(p, d, from) /\ HasDef(p, PhisAt(c), d, x)
      BY <1>1, <1>5, <2>5, HoldsReaches
    <3>. QED BY <3>1, DefinesHasDef DEF Reaches
  <2>7. PairOf(c[s][i], from)
    BY <2>3, <2>4, <2>6 DEF PairsComplete
  <2>8. PICK j \in 1 .. Len(c[s][i].pairs) :
          c[s][i].pairs[j][2] = from /\ PhiValue(c[s][i], from, n.reg) = ValueOf(c[s][i].pairs[j][1], n.reg)
    BY <1>2, <2>7, PhiValueIs DEF PairOf
  <2>9. Holds(p, R, S, from, Len(p.code[from]), x, c[s][i].pairs[j][1])
    BY <2>3, <2>4, <2>8 DEF PairsMean
  <2>10. c[s][i].pairs[j][1] = w
    BY <1>1, <1>5, <2>9, HoldsUnique
  <2>11. f[<<"phi", s, x>>] = mem[x]
    BY <1>1, <2>3, <2>8, <2>10 DEF Carries
  <2>12. ValueOf(<<"phi", s, x>>, new.reg) = mem[x]
    <3> DEFINE v == <<"phi", s, x>>
    <3>1. v \in DOMAIN f /\ v[1] # "const" /\ f[v] = mem[x]
      BY <2>2, <2>11
    <3>. HIDE DEF v
    <3>2. ValueOf(v, new.reg) = f[v]
      BY <1>3, <3>1 DEF ValueOf, With
    <3>. QED BY <3>1, <3>2 DEF v
  <2>13. <<"phi", s, x>> \in Operands /\ <<"phi", s, x>>[1] # "load"
    BY OperandKinds
  <2>. QED BY <1>4, <2>1, <2>12, <2>13 DEF Carries, new
<1>7. CASE <<s, x>> \notin PhisAt(c)
  <2>1. <<from, s>> \in EdgesOf(p)
    BY EdgePred
  <2>2. \A d \in Blocks : HasDef(p, PhisAt(c), d, x) => \A b \in p.df[d] : <<b, x>> \in PhisAt(c)
    <3>. SUFFICES ASSUME NEW d \in Blocks, HasDef(p, PhisAt(c), d, x), NEW b \in p.df[d]
                  PROVE  <<b, x>> \in PhisAt(c)
      OBVIOUS
    <3>1. b \in Blocks
      BY ProgramsAssumption DEF DominanceFrontier
    <3>2. PhiIn(c, b, x)
      BY DefinesHasDef DEF PhisClosed
    <3>. QED BY <3>1, <3>2, DefinesHasDef
  <2>3. Holds(p, R, S, from, Len(p.code[from]), x, S[s][x])
    BY <1>7, <2>1, <2>2, EdgeHolds
  <2>4. w = S[s][x]
    BY <1>1, <1>5, <2>3, HoldsUnique
  <2>5. s # Entry
    BY <2>1, ProgramsAssumption
  <2>6. PICK t \in Blocks : SDom(p, t, s) /\ \A d \in Blocks : SDom(p, d, s) => Dom(p, d, t)
    BY <2>5, ParentOf
  <2>7. Holds(p, R, S, t, Len(p.code[t]), x, w)
    BY <1>7, <2>4, <2>6, ParentHolds
  <2>8. Settled(p, t, Len(p.code[t]) + 1, w)
    <3>1. Len(p.code[t]) \in 0 .. Len(p.code[t])
      BY SourceFields
    <3>. QED BY <2>7, <3>1, MeaningFields
  <2>9. ~(w[1] = "phi" /\ w[2] = s)
    BY <2>6, <2>8, NotOwnPhi
  <2>10. w \notin DOMAIN f
    BY <1>2, <1>3, <2>9
  <2>11. ValueOf(w, new.reg) = ValueOf(w, n.reg)
    BY <1>3, <2>10 DEF ValueOf, With
  <2>. QED BY <1>1, <1>4, <2>4, <2>11 DEF Carries, new
<1>. QED BY <1>6, <1>7

LEMMA LoadsBegin ==
  ASSUME NEW p \in Programs, NEW c \in Codes, NEW Q, NEW R, NEW S, Meaning(p, Q, R, S), PhisNamed(c),
         NEW from \in Blocks, NEW s \in Blocks, IsPred(p, from, s), NEW n, Machine(n), NEW regm, NEW new,
         LoadsHeld(p, R, from, Len(p.code[from]), regm, n.reg),
         \A v : ValueOf(v, new) = ValueOf(v, regm)
  PROVE  LoadsHeld(p, R, s, 0, new, Begin(c[s], from, n).reg)
<1>. SUFFICES ASSUME NEW d \in Blocks, NEW j \in 1 .. Len(p.code[d]), LoadAt(p, d, j),
                     Passed(p, s, 0, d, j), ValueOf(p.code[d][j].def, new) # Undef
              PROVE  Carries(R[p.code[d][j].def], ValueOf(p.code[d][j].def, new), Begin(c[s], from, n).reg)
  BY DEF LoadsHeld
<1> DEFINE v == p.code[d][j].def
           w == R[v]
           f == PhiValues(c[s], from, n.reg)
           after == Begin(c[s], from, n)
<1>1. d # s /\ Dom(p, d, s) /\ Len(p.code[d]) \in Nat
  BY SourceFields DEF Passed
<1>2. Dom(p, d, from)
  BY <1>1, GraphOf, EdgePred, DominatesPredecessor DEF Dom
<1>3. Passed(p, from, Len(p.code[from]), d, j)
  BY <1>1, <1>2 DEF Passed
<1>. HIDE DEF after, f
<1>4. Carries(w, ValueOf(v, regm), n.reg)
  BY <1>3 DEF LoadsHeld
<1>5. Settled(p, d, j + 1, w)
  <2>1. Loads(p, R, S, d, j)
    BY MeaningFields
  <2>. QED BY <2>1 DEF Loads
<1>. HIDE DEF w, v
<1>6. ~(w[1] = "phi" /\ w[2] = s)
  BY <1>1, <1>5, NotOwnPhi DEF SDom
<1>7. after.reg = With(f, n.reg) /\ w \notin DOMAIN f
  <2>1. \A i \in 1 .. Len(c[s]) : c[s][i].op = "phi" => c[s][i].def = <<"phi", s, c[s][i].var>>
    BY DEF PhisNamed
  <2>2. /\ c[s] \in Seq(Instructions)
        /\ \A i \in 1 .. Len(c[s]) : c[s][i].op = "phi" => c[s][i].def[1] = "phi" /\ c[s][i].def[2] = s
    BY <2>1, CodeFields
  <2>3. /\ after.reg = With(f, n.reg)
        /\ \A e \in DOMAIN f : \E i \in 1 .. Len(c[s]) : c[s][i].op = "phi" /\ c[s][i].def = e
    <3>1. PhisRead(c[s], from, n)
      BY <2>2, BeginFields
    <3>. QED BY <3>1 DEF after, f, PhisRead
  <2>. QED BY <1>6, <2>2, <2>3
<1>8. ValueOf(w, after.reg) = ValueOf(w, n.reg)
  BY <1>7 DEF ValueOf, With
<1>. QED BY <1>4, <1>8 DEF Carries, w, v, after

\* The machines where s begins, as they come from its predecessor.
LEMMA BeginRelated ==
  ASSUME NEW p \in Programs, NEW c \in Codes, NEW R, NEW S, Meaning(p, PhisAt(c), R, S),
         PhisNamed(c), PairsMean(p, c, R, S), PhisClosed(p, c), PairsComplete(p, c),
         NEW s \in Blocks, NEW from, NEW m, Machine(m), NEW n, Machine(n),
         \/ from \in Blocks /\ IsPred(p, from, s) /\ Related(p, R, S, from, Len(p.code[from]), m, n)
         \/ s = Entry /\ \A x \in Vars : m.mem[x] = Undef
  PROVE  /\ Machine(Begin(p.code[s], from, m)) /\ Machine(Begin(c[s], from, n))
         /\ Related(p, R, S, s, 0, Begin(p.code[s], from, m), Begin(c[s], from, n))
<1> DEFINE f == PhiValues(p.code[s], from, m.reg)
           g == PhiValues(c[s], from, n.reg)
           a == Begin(p.code[s], from, m)
           b == Begin(c[s], from, n)
<1>1. c[s] \in Seq(Instructions) /\ \A i \in 1 .. Len(c[s]) : c[s][i].op = "phi" => c[s][i].def[1] = "phi"
  <2>1. \A i \in 1 .. Len(c[s]) : c[s][i].op = "phi" => c[s][i].def = <<"phi", s, c[s][i].var>>
    BY DEF PhisNamed
  <2>. QED BY <2>1, CodeFields
<1>2. p.code[s] \in Seq(Instructions) /\ \A i \in 1 .. Len(p.code[s]) : p.code[s][i].op # "phi"
  BY ProgramFields, CodeFields
<1>3. Machine(b) /\ b.out = <<>>
  BY <1>1, BeginFields DEF PhisRead
<1>4. /\ Machine(a) /\ a.mem = m.mem /\ a.out = <<>> /\ a.reg = With(f, m.reg)
      /\ \A d \in DOMAIN f : \E i \in 1 .. Len(p.code[s]) : p.code[s][i].op = "phi" /\ p.code[s][i].def = d
  <2>1. PhisRead(p.code[s], from, m)
    BY <1>2, BeginFields
  <2>. QED BY <2>1 DEF PhisRead
<1>. HIDE DEF f, g, a, b
<1>5. \A v : ValueOf(v, a.reg) = ValueOf(v, m.reg)
  <2>1. \A v : v \notin DOMAIN f
    BY <1>2, <1>4
  <2>. QED BY <1>4, <2>1 DEF ValueOf, With
<1>6. SameOut(a.out, b.out)
  <2>1. Len(<<>>) = 0
    OBVIOUS
  <2>. QED BY <1>3, <1>4, <2>1 DEF SameOut
<1>7. CASE from \in Blocks /\ IsPred(p, from, s) /\ Related(p, R, S, from, Len(p.code[from]), m, n)
  <2>1. MemoryHeld(p, R, S, from, Len(p.code[from]), m.mem, n.reg) /\ LoadsHeld(p, R, from, Len(p.code[from]), m.reg, n.reg)
    BY <1>7 DEF Related
  <2>2. MemoryHeld(p, R, S, s, 0, m.mem, b.reg)
    BY <1>7, <2>1, MemoryBegins DEF b
  <2>3. LoadsHeld(p, R, s, 0, a.reg, b.reg)
    BY <1>5, <1>7, <2>1, LoadsBegin DEF b
  <2>. QED BY <1>3, <1>4, <1>6, <2>2, <2>3 DEF Related, a, b
<1>8. CASE s = Entry /\ \A x \in Vars : m.mem[x] = Undef
  <2>1. MemoryHeld(p, R, S, s, 0, m.mem, b.reg)
    BY <1>8 DEF MemoryHeld
  <2>2. \A d \in Blocks : \A j \in 1 .. Len(p.code[d]) : ~Passed(p, s, 0, d, j)
    <3>1. \A d \in Blocks : Len(p.code[d]) \in Nat
      BY SourceFields
    <3>. QED BY <1>8, <3>1, DomOrder DEF Passed
  <2>3. LoadsHeld(p, R, s, 0, a.reg, b.reg)
    BY <2>2 DEF LoadsHeld
  <2>. QED BY <1>3, <1>4, <1>6, <2>1, <2>3 DEF Related, a, b
<1>. QED BY <1>7, <1>8

\* A block run on both machines.
Finished(p, c, R, S) ==
  /\ PhisNamed(c) /\ PairsMean(p, c, R, S) /\ PhisClosed(p, c) /\ PairsComplete(p, c)
  /\ \A b \in Blocks : \E W :
       /\ Synced(p, c[b], b, R, W)
       /\ \A i \in 1 .. Len(p.code[b]) : p.code[b][i].op = "use" =>
            NowIs(R, W, p.code[b][i].val) = R[p.code[b][i].val]

LEMMA BlockRelated ==
  ASSUME NEW p \in Programs, NEW c \in Codes, NEW R, NEW S, Meaning(p, PhisAt(c), R, S),
         Finished(p, c, R, S), NEW s \in Blocks, NEW from, NEW m, Machine(m), NEW n, Machine(n),
         \/ from \in Blocks /\ IsPred(p, from, s) /\ Related(p, R, S, from, Len(p.code[from]), m, n)
         \/ s = Entry /\ \A x \in Vars : m.mem[x] = Undef
  PROVE  LET a == RunBlock(p.code[s], from, m)
             b == RunBlock(c[s], from, n)
         IN  Machine(a) /\ Machine(b) /\ Related(p, R, S, s, Len(p.code[s]), a, b)
<1>1. /\ Machine(Begin(p.code[s], from, m)) /\ Machine(Begin(c[s], from, n))
      /\ Related(p, R, S, s, 0, Begin(p.code[s], from, m), Begin(c[s], from, n))
  BY BeginRelated DEF Finished
<1>2. c[s] \in Seq(Instructions) /\ Len(c[s]) \in Nat /\ Len(p.code[s]) \in Nat
  BY CodeFields, SourceFields
<1>3. PICK f : /\ f[0] = Begin(p.code[s], from, m)
               /\ \A i \in 1 .. Len(p.code[s]) : f[i] = Run1(f[i - 1], p.code[s][i])
               /\ RunBlock(p.code[s], from, m) = f[Len(p.code[s])]
  BY <1>2, RunBlockIs
<1>4. PICK g : /\ g[0] = Begin(c[s], from, n)
               /\ \A i \in 1 .. Len(c[s]) : g[i] = Run1(g[i - 1], c[s][i])
               /\ RunBlock(c[s], from, n) = g[Len(c[s])]
  BY <1>2, RunBlockIs
<1>5. PICK W : /\ Synced(p, c[s], s, R, W)
               /\ \A i \in 1 .. Len(p.code[s]) : p.code[s][i].op = "use" =>
                    NowIs(R, W, p.code[s][i].val) = R[p.code[s][i].val]
  BY DEF Finished
<1>6. /\ Machine(f[Len(p.code[s])]) /\ Machine(g[Len(c[s])])
      /\ Related(p, R, S, s, Len(p.code[s]), f[Len(p.code[s])], g[Len(c[s])])
  <2> DEFINE t == c[s]
  <2>1. /\ t \in Seq(Instructions) /\ Synced(p, t, s, R, W) /\ \A j \in 1 .. Len(t) : g[j] = Run1(g[j - 1], t[j])
        /\ Machine(f[0]) /\ Machine(g[0]) /\ Related(p, R, S, s, 0, f[0], g[0])
    BY <1>1, <1>2, <1>3, <1>4, <1>5
  <2>. HIDE DEF t
  <2>2. /\ Machine(f[Len(p.code[s])]) /\ Machine(g[Len(t)])
        /\ Related(p, R, S, s, Len(p.code[s]), f[Len(p.code[s])], g[Len(t)])
    BY <1>3, <1>5, <2>1, SyncedRun
  <2>. QED BY <2>2 DEF t
<1>. QED BY <1>3, <1>4, <1>6

(***************************************************************************)
(* How far re_name has come.  Off is the number of phis in front of the    *)
(* code of a block; Done how many of its instructions a call has behind it. *)
(***************************************************************************)
Off(p, c, b) == Len(c[b]) - Len(p.code[b])
Done(p, c, f) ==
  LET i == f.i - 1 - Off(p, c, f.bb)
      n == Len(p.code[f.bb])
  IN  IF f.at = "phis" THEN 0
      ELSE IF f.at # "instrs" \/ i > n THEN n
      ELSE IF i < 0 THEN 0 ELSE i

PhisBefore(p, c, b, n) ==
  /\ n \in Nat /\ Len(c[b]) = n + Len(p.code[b]) /\ Len(p.code[b]) \in Nat
  /\ \A i \in 1 .. n : c[b][i].op = "phi"
  /\ \A i \in 1 .. Len(p.code[b]) :
       n + i \in 1 .. Len(c[b]) /\ SameAccess(c[b][n + i], p.code[b][i]) /\ c[b][n + i].op # "phi"
  /\ \A i \in 1 .. Len(c[b]) : c[b][i].op # "phi" => i - n \in 1 .. Len(p.code[b]) /\ n + (i - n) = i

LEMMA OffIs ==
  ASSUME NEW p \in Programs, NEW c \in Codes, NEW b \in Blocks, AsBuilt(p, c, b)
  PROVE  PhisBefore(p, c, b, Off(p, c, b))
<1>1. Len(p.code[b]) \in Nat /\ \A i \in 1 .. Len(p.code[b]) : p.code[b][i].op # "phi"
  BY SourceFields, ProgramFields
<1>2. PICK n \in Nat :
         /\ Len(c[b]) = n + Len(p.code[b]) /\ \A i \in 1 .. n : c[b][i].op = "phi"
         /\ \A i \in 1 .. Len(p.code[b]) : SameAccess(c[b][n + i], p.code[b][i])
  BY DEF AsBuilt
<1>3. Off(p, c, b) = n
  BY <1>1, <1>2 DEF Off
<1>4. \A i \in 1 .. Len(p.code[b]) : n + i \in 1 .. Len(c[b])
  BY <1>1, <1>2
<1>5. \A i \in 1 .. Len(c[b]) : i \notin 1 .. n => i - n \in 1 .. Len(p.code[b]) /\ n + (i - n) = i
  BY <1>1, <1>2
<1>6. \A i \in 1 .. Len(p.code[b]) : c[b][n + i].op # "phi"
  BY <1>1, <1>2 DEF SameAccess
<1>. QED BY <1>1, <1>2, <1>3, <1>4, <1>5, <1>6 DEF PhisBefore

LEMMA DoneIs ==
  ASSUME NEW p \in Programs, NEW c \in Codes, NEW f \in Frames, AsBuilt(p, c, f.bb)
  PROVE  /\ Done(p, c, f) \in 0 .. Len(p.code[f.bb])
         /\ f.at \in {"succs", "kids"} => Done(p, c, f) = Len(p.code[f.bb])
         /\ f.at = "phis" => Done(p, c, f) = 0
         /\ f.at = "instrs" /\ f.i = 1 => Done(p, c, f) = 0
         /\ f.at = "instrs" /\ f.i > Len(c[f.bb]) => Done(p, c, f) = Len(p.code[f.bb])
<1> DEFINE n == Off(p, c, f.bb)
           m == Len(p.code[f.bb])
           i == f.i - 1 - n
<1>1. f.bb \in Blocks /\ f.i \in Nat \ {0} /\ f.at \in {"phis", "instrs", "succs", "kids"}
  BY DEF Frames
<1>2. n \in Nat /\ Len(c[f.bb]) = n + m /\ m \in Nat
  BY <1>1, OffIs DEF PhisBefore
<1>3. Done(p, c, f) = IF f.at = "phis" THEN 0
                      ELSE IF f.at # "instrs" \/ i > m THEN m ELSE IF i < 0 THEN 0 ELSE i
  BY DEF Done
<1>. HIDE DEF n, m
<1>4. i \in Int
  BY <1>1, <1>2
<1>5. Done(p, c, f) \in 0 .. m
  BY <1>2, <1>3, <1>4
<1>6. f.at = "instrs" /\ f.i = 1 => Done(p, c, f) = 0
  BY <1>1, <1>2, <1>3
<1>7. f.at = "instrs" /\ f.i > Len(c[f.bb]) => Done(p, c, f) = m
  BY <1>1, <1>2, <1>3
<1>. QED BY <1>1, <1>3, <1>5, <1>6, <1>7 DEF m

LEMMA DoneNext ==
  ASSUME NEW p \in Programs, NEW c \in Codes, NEW f \in Frames, NEW g \in Frames, AsBuilt(p, c, f.bb),
         g.bb = f.bb, f.at = "instrs", g.at = "instrs", g.i = f.i + 1, f.i \in 1 .. Len(c[f.bb])
  PROVE  LET n == Off(p, c, f.bb)
         IN  /\ c[f.bb][f.i].op = "phi" => Done(p, c, f) = 0 /\ Done(p, c, g) = 0
             /\ c[f.bb][f.i].op # "phi" =>
                  /\ f.i - n \in 1 .. Len(p.code[f.bb]) /\ n + (f.i - n) = f.i
                  /\ Done(p, c, f) = f.i - n - 1 /\ Done(p, c, g) = f.i - n
                  /\ SameAccess(c[f.bb][f.i], p.code[f.bb][f.i - n])
<1> DEFINE n == Off(p, c, f.bb)
           m == Len(p.code[f.bb])
<1>1. f.bb \in Blocks
  BY DEF Frames
<1>2. /\ n \in Nat /\ Len(c[f.bb]) = n + m /\ m \in Nat
      /\ \A i \in 1 .. m : SameAccess(c[f.bb][n + i], p.code[f.bb][i]) /\ c[f.bb][n + i].op # "phi"
      /\ \A i \in 1 .. n : c[f.bb][i].op = "phi"
      /\ \A i \in 1 .. Len(c[f.bb]) : c[f.bb][i].op # "phi" => i - n \in 1 .. m /\ n + (i - n) = i
  <2>1. PhisBefore(p, c, f.bb, n)
    BY <1>1, OffIs
  <2>. HIDE DEF n
  <2>. QED BY <2>1 DEF PhisBefore
<1>3. /\ Done(p, c, f) = IF f.i - 1 - n > m THEN m ELSE IF f.i - 1 - n < 0 THEN 0 ELSE f.i - 1 - n
      /\ Done(p, c, g) = IF g.i - 1 - n > m THEN m ELSE IF g.i - 1 - n < 0 THEN 0 ELSE g.i - 1 - n
  BY DEF Done
<1>. HIDE DEF n, m
<1>4. CASE f.i <= n
  <2>1. f.i \in 1 .. n /\ c[f.bb][f.i].op = "phi"
    BY <1>2, <1>4
  <2>2. Done(p, c, f) = 0 /\ Done(p, c, g) = 0
    BY <1>2, <1>3, <1>4
  <2>. QED BY <2>1, <2>2
<1>5. CASE f.i > n
  <2>1. f.i - n \in 1 .. m /\ n + (f.i - n) = f.i
    BY <1>2, <1>5
  <2>2. SameAccess(c[f.bb][f.i], p.code[f.bb][f.i - n]) /\ c[f.bb][f.i].op # "phi"
    BY <1>2, <2>1
  <2>3. Done(p, c, f) = f.i - n - 1 /\ Done(p, c, g) = f.i - n
    BY <1>2, <1>3, <1>5, <2>1
  <2>. QED BY <2>1, <2>2, <2>3 DEF n, m
<1>. QED BY <1>2, <1>4, <1>5 DEF n, m

LEMMA DoneShape ==
  ASSUME NEW p, NEW c, NEW e, NEW f, Len(e[f.bb]) = Len(c[f.bb])
  PROVE  Done(p, e, f) = Done(p, c, f) /\ Off(p, e, f.bb) = Off(p, c, f.bb)
BY DEF Done, Off

\* re_name has come by instruction j of block b.
Come(p, c, fs, b, j) == Left(p, fs, b) \/ \E k \in 1 .. Len(fs) : fs[k].bb = b /\ j <= Done(p, c, fs[k])
\* The loads it has come by.
Met(p, c, fs) ==
  {v \in Operands : \E d \in Blocks : \E j \in 1 .. Len(p.code[d]) :
     LoadAt(p, d, j) /\ p.code[d][j].def = v /\ Come(p, c, fs, d, j)}
\* A call that has not come to its children has them all before it.
Fresh(p, fs) == \A k \in 1 .. Len(fs) : fs[k].at # "kids" => fs[k].kids = p.kids[fs[k].bb]

LEMMA MetFields ==
  ASSUME NEW p \in Programs, NEW c, NEW fs, NEW d \in Blocks, NEW j \in 1 .. Len(p.code[d]), LoadAt(p, d, j)
  PROVE  p.code[d][j].def \in Met(p, c, fs) <=> Come(p, c, fs, d, j)
<1>1. p.code[d][j].def \in Operands
  BY SourceFields
<1>2. \A b \in Blocks : \A i \in 1 .. Len(p.code[b]) : p.code[b][i].def = p.code[d][j].def => b = d /\ i = j
  BY DefinedOnce
<1>. QED BY <1>1, <1>2 DEF Met

\* Whatever comes before what it has come by it has come by.
LEMMA ComeClosed ==
  ASSUME NEW p \in Programs, NEW c \in Codes, NEW ph, NEW fs, Tree(p, fs), Built(p, c, ph, fs), Fresh(p, fs),
         NEW b \in Blocks, NEW i \in Nat, Come(p, c, fs, b, i), NEW d \in Blocks,
         NEW j \in 1 .. Len(p.code[d]), Passed(p, b, i, d, j)
  PROVE  Come(p, c, fs, d, j)
<1>1. fs \in Seq(Frames) /\ j \in Nat
  BY SourceFields DEF Tree
<1>2. \A k \in 1 .. Len(fs) : fs[k] \in Frames /\ fs[k].bb \in Blocks /\ AsBuilt(p, c, fs[k].bb)
  BY <1>1, FrameFields DEF Built, Open
<1>3. \A k \in 1 .. Len(fs) : fs[k].at \in {"succs", "kids"} => Done(p, c, fs[k]) = Len(p.code[fs[k].bb])
  BY <1>2, DoneIs
<1>4. \A k \in 1 .. Len(fs) : Done(p, c, fs[k]) \in 0 .. Len(p.code[fs[k].bb])
  BY <1>2, DoneIs
<1>5. ASSUME NEW k \in 1 .. Len(fs), fs[k].bb = d, fs[k].at \in {"succs", "kids"} PROVE Come(p, c, fs, d, j)
  <2>1. Len(p.code[d]) \in Nat
    BY SourceFields
  <2>2. j <= Done(p, c, fs[k])
    BY <1>3, <1>5, <2>1
  <2>. QED BY <1>5, <2>2 DEF Come
<1>6. CASE d = b
  <2>1. j <= i
    BY <1>6 DEF Passed
  <2>2. CASE Left(p, fs, b)
    BY <1>6, <2>2 DEF Come
  <2>3. ASSUME NEW k \in 1 .. Len(fs), fs[k].bb = b, i <= Done(p, c, fs[k]) PROVE Come(p, c, fs, d, j)
    <3>1. Done(p, c, fs[k]) \in Nat
      BY <1>2, <1>4, SourceFields
    <3>2. j <= Done(p, c, fs[k])
      BY <1>1, <2>1, <2>3, <3>1
    <3>. QED BY <1>6, <2>3, <3>2 DEF Come
  <2>. QED BY <2>2, <2>3 DEF Come
<1>7. CASE d # b
  <2>1. Dom(p, d, b)
    BY <1>7 DEF Passed
  <2>2. CASE Left(p, fs, d)
    BY <2>2 DEF Come
  <2>3. CASE ToCome(p, fs, d)
    <3>1. ToCome(p, fs, b)
      <4>1. PICK k \in 1 .. Len(fs) : \E x \in fs[k].kids : Dom(p, x, d)
        BY <2>3 DEF ToCome
      <4>2. PICK x \in fs[k].kids : Dom(p, x, d)
        BY <4>1
      <4>3. x \in Blocks
        BY <1>1, <4>2, FrameFields
      <4>4. Dom(p, x, b)
        BY <2>1, <4>2, <4>3, DomOrder
      <4>. QED BY <4>2, <4>4 DEF ToCome
    <3>2. PICK m \in 1 .. Len(fs) : fs[m].bb = b
      BY <3>1 DEF Come, Left
    <3>3. PICK k \in 1 .. Len(fs) : \E x \in fs[k].kids : Dom(p, x, d)
      BY <2>3 DEF ToCome
    <3>4. PICK x \in fs[k].kids : Dom(p, x, d)
      BY <3>3
    <3>5. x \in Blocks
      BY <1>1, <3>4, FrameFields
    <3>6. Dom(p, x, b)
      BY <2>1, <3>4, <3>5, DomOrder
    <3>. QED BY <3>2, <3>4, <3>6 DEF Tree
  <2>4. ASSUME NEW k \in 1 .. Len(fs), fs[k].bb = d PROVE Come(p, c, fs, d, j)
    <3>1. CASE fs[k].at \in {"succs", "kids"}
      BY <1>5, <2>4, <3>1
    <3>2. CASE fs[k].at \notin {"succs", "kids"}
      <4>1. fs[k].at # "kids" /\ fs[k].kids = p.kids[d]
        BY <2>4, <3>2 DEF Fresh
      <4>2. PICK x \in p.kids[d] : Dom(p, x, b)
        BY <1>7, <2>1, KidsOf
      <4>3. ToCome(p, fs, b)
        BY <4>1, <4>2 DEF ToCome
      <4>4. PICK m \in 1 .. Len(fs) : fs[m].bb = b
        BY <4>3 DEF Come, Left
      <4>5. ~Dom(p, x, fs[m].bb)
        BY <4>1, <4>2 DEF Tree
      <4>. QED BY <4>2, <4>4, <4>5
    <3>. QED BY <3>1, <3>2
  <2>. QED BY <2>2, <2>3, <2>4 DEF Left, Open
<1>. QED BY <1>6, <1>7

(***************************************************************************)
(* What the rewritten code means while re_name runs.  W are the loads it   *)
(* has come by: their uses have become the values that R gives them.  The  *)
(* top of a stack, when call k was innermost, is what the variable holds   *)
(* where call k is.                                                        *)
(***************************************************************************)
Valued(p, c, fs, R, W) ==
  \A b \in Blocks : ~Left(p, fs, b) =>
    \A i \in 1 .. Len(p.code[b]) : p.code[b][i].op \in {"store", "use"} =>
      c[b][Off(p, c, b) + i].val = NowIs(R, W, p.code[b][i].val)
Shortened(p, c, fs, R, W) == \A b \in Blocks : Left(p, fs, b) => Synced(p, c[b], b, R, W)

ValueAt(s, n) == IF n = 0 THEN NoValue ELSE s[n]
BasesOf(c, fs, vs, base) == Heights(c, fs, base) /\ \A x \in Vars : Len(vs[x]) = base[Len(fs) + 1][x]
TopIs(p, c, f, s, n, R, S, x) == Holds(p, R, S, f.bb, Done(p, c, f), x, ValueAt(s, n))
Tops(p, c, fs, vs, R, S) ==
  \A base : BasesOf(c, fs, vs, base) =>
    \A k \in 1 .. Len(fs) : fs[k].at # "phis" => \A x \in Vars :
      TopIs(p, c, fs[k], vs[x], base[k + 1][x], R, S, x)

LEMMA HeightsAgree ==
  ASSUME NEW c, NEW e, NEW fs, NEW gs, NEW old, NEW new, Heights(c, fs, old), Heights(e, gs, new),
         Len(fs) \in Nat, Len(gs) \in Nat, NEW n \in Nat, n <= Len(fs), n <= Len(gs), NEW x \in Vars,
         \A k \in 1 .. n : Pushes(e, gs[k], x) = Pushes(c, fs[k], x)
  PROVE  \A k \in 1 .. n + 1 : new[k][x] = old[k][x]
<1> DEFINE Bad == {k \in 1 .. n + 1 : new[k][x] # old[k][x]}
<1> SUFFICES ASSUME Bad # {} PROVE FALSE
  OBVIOUS
<1>1. PICK m \in Bad : \A k \in Bad : m <= k
  <2>1. Bad \in SUBSET Nat
    OBVIOUS
  <2>. HIDE DEF Bad
  <2>. QED BY <2>1, Least
<1>2. m # 1
  BY <1>1 DEF Heights
<1>3. m - 1 \in 1 .. n /\ m - 1 \notin Bad /\ (m - 1) + 1 = m
  BY <1>1, <1>2
<1>4. new[m - 1][x] = old[m - 1][x]
  BY <1>3
<1>5. m - 1 \in 1 .. Len(fs) /\ m - 1 \in 1 .. Len(gs)
  BY <1>3
<1>6. /\ new[(m - 1) + 1][x] = new[m - 1][x] + Cardinality(Pushes(e, gs[m - 1], x))
      /\ old[(m - 1) + 1][x] = old[m - 1][x] + Cardinality(Pushes(c, fs[m - 1], x))
  BY <1>5 DEF Heights
<1>7. new[m][x] = old[m][x]
  BY <1>3, <1>4, <1>6
<1>. QED BY <1>1, <1>7

\* The calls that two states share have the same values on top.
LEMMA TopsCarried ==
  ASSUME NEW p, NEW c, NEW e, NEW fs \in Seq(Frames), NEW gs \in Seq(Frames), NEW vs, NEW vs2, NEW R, NEW S,
         Stacks(c, fs, vs), Tops(p, c, fs, vs, R, S), NEW n \in Nat, n <= Len(fs), n <= Len(gs),
         \A k \in 1 .. n : /\ gs[k].bb = fs[k].bb /\ Done(p, e, gs[k]) = Done(p, c, fs[k])
                           /\ gs[k].at # "phis" => fs[k].at # "phis"
                           /\ \A x \in Vars : Pushes(e, gs[k], x) = Pushes(c, fs[k], x),
         \A x \in Vars : \A j \in 1 .. Len(vs[x]) : j <= Len(vs2[x]) => vs2[x][j] = vs[x][j],
         NEW new, BasesOf(e, gs, vs2, new), NEW k \in 1 .. n, gs[k].at # "phis", NEW x \in Vars
  PROVE  TopIs(p, e, gs[k], vs2[x], new[k + 1][x], R, S, x)
<1>1. PICK old : BasesOf(c, fs, vs, old)
  BY DEF Stacks, Pushed, BasesOf
<1>2. Len(fs) \in Nat /\ Len(gs) \in Nat /\ k + 1 \in 1 .. n + 1 /\ k \in 1 .. Len(fs) /\ k \in 1 .. Len(gs)
  OBVIOUS
<1>3. new[k + 1][x] = old[k + 1][x]
  <2>1. \A m \in 1 .. n + 1 : new[m][x] = old[m][x]
    <3>1. Heights(c, fs, old) /\ Heights(e, gs, new)
      BY <1>1 DEF BasesOf
    <3>2. \A m \in 1 .. n : Pushes(e, gs[m], x) = Pushes(c, fs[m], x)
      OBVIOUS
    <3>. QED BY <1>2, <3>1, <3>2, HeightsAgree, SMTT(60)
  <2>. QED BY <1>2, <2>1
<1>4. old[k + 1][x] \in Nat /\ old[k + 1][x] <= Len(vs[x]) /\ old[k + 1][x] <= Len(vs2[x])
  <2>1. /\ k + 1 \in 1 .. Len(fs) + 1 /\ Len(fs) + 1 \in 1 .. Len(fs) + 1 /\ k + 1 <= Len(fs) + 1
        /\ k + 1 \in 1 .. Len(gs) + 1 /\ Len(gs) + 1 \in 1 .. Len(gs) + 1 /\ k + 1 <= Len(gs) + 1
    BY <1>2
  <2>2. old[k + 1][x] \in Nat /\ old[k + 1][x] <= old[Len(fs) + 1][x]
    BY <1>1, <2>1 DEF BasesOf, Heights
  <2>3. new[k + 1][x] <= new[Len(gs) + 1][x]
    BY <2>1 DEF BasesOf, Heights
  <2>. QED BY <1>1, <1>3, <2>2, <2>3 DEF BasesOf
<1>5. ValueAt(vs2[x], new[k + 1][x]) = ValueAt(vs[x], old[k + 1][x])
  <2>1. CASE old[k + 1][x] = 0
    BY <1>3, <2>1 DEF ValueAt
  <2>2. CASE old[k + 1][x] # 0
    <3>1. old[k + 1][x] \in 1 .. Len(vs[x])
      <4>1. Len(vs[x]) \in Int
        BY DEF Stacks
      <4>. QED BY <1>4, <2>2, <4>1
    <3>2. vs2[x][old[k + 1][x]] = vs[x][old[k + 1][x]]
      BY <1>4, <3>1
    <3>. QED BY <1>3, <2>2, <3>2 DEF ValueAt
  <2>. QED BY <2>1, <2>2
<1>6. TopIs(p, c, fs[k], vs[x], old[k + 1][x], R, S, x)
  BY <1>1, <1>2 DEF Tops
<1>. QED BY <1>5, <1>6 DEF TopIs

LastOr(s) == ValueAt(s, Len(s))

LEMMA TopHolds ==
  ASSUME RenameInv, frames # <<>>, NEW R, NEW S, Tops(prog, code, frames, var_val_stack, R, S),
         Top.at # "phis", NEW x \in Vars
  PROVE  Holds(prog, R, S, Top.bb, Done(prog, code, Top), x, LastOr(var_val_stack[x]))
<1>1. Len(frames) \in 1 .. Len(frames) /\ Top = frames[Len(frames)]
  BY TopFields
<1>2. PICK base : BasesOf(code, frames, var_val_stack, base)
  BY DEF RenameInv, Stacks, Pushed, BasesOf
<1>3. TopIs(prog, code, frames[Len(frames)], var_val_stack[x], base[Len(frames) + 1][x], R, S, x)
  BY <1>1, <1>2 DEF Tops
<1>4. base[Len(frames) + 1][x] = Len(var_val_stack[x])
  BY <1>2 DEF BasesOf
<1>. QED BY <1>1, <1>3, <1>4 DEF TopIs, LastOr

\* Nothing has been pushed for a variable that is not known.
LEMMA UnknownEmpty ==
  ASSUME RenameInv, PhisInv, phase = "rename", frames # <<>>, NEW x \in Vars, x \notin known
  PROVE  var_val_stack[x] = <<>> /\ LastOr(var_val_stack[x]) = NoValue
<1>1. Len(frames) \in Nat /\ var_val_stack[x] \in Seq(Operands)
  BY TopFields DEF RenameInv, Stacks
<1>2. PICK base : BasesOf(code, frames, var_val_stack, base)
  BY DEF RenameInv, Stacks, Pushed, BasesOf
<1>3. \A k \in 1 .. Len(frames) : Pushes(code, frames[k], x) = {}
  BY DEF PhisInv, Running, PushedAreKnown
<1>4. \A k \in 1 .. Len(frames) : base[k + 1][x] = base[k][x]
  <2>1. \A k \in 1 .. Len(frames) : base[k + 1][x] = base[k][x] + Cardinality(Pushes(code, frames[k], x))
    BY <1>2 DEF BasesOf, Heights
  <2>2. Cardinality({}) = 0
    BY FS_EmptySet
  <2>3. \A k \in 1 .. Len(frames) : base[k][x] \in Nat
    <3>1. \A k \in 1 .. Len(frames) : k \in 1 .. Len(frames) + 1
      BY <1>1
    <3>. QED BY <1>2, <3>1 DEF BasesOf, Heights
  <2>4. ASSUME NEW k \in 1 .. Len(frames) PROVE base[k + 1][x] = base[k][x]
    <3>1. base[k + 1][x] = base[k][x] + Cardinality(Pushes(code, frames[k], x)) /\ base[k][x] \in Nat
      BY <2>1, <2>3
    <3>2. Cardinality(Pushes(code, frames[k], x)) = 0
      BY <1>3, <2>2
    <3>. QED BY <3>1, <3>2
  <2>. QED BY <2>4
<1>5. base[1][x] = 0
  BY <1>2 DEF BasesOf, Heights
<1>6. base[Len(frames) + 1][x] = 0
  <2> DEFINE Bad == {k \in 1 .. Len(frames) + 1 : base[k][x] # 0}
  <2> SUFFICES ASSUME Bad # {} PROVE FALSE
    BY <1>1
  <2>1. PICK m \in Bad : \A k \in Bad : m <= k
    <3>1. Bad \in SUBSET Nat
      OBVIOUS
    <3>. HIDE DEF Bad
    <3>. QED BY <3>1, Least
  <2>2. m # 1
    BY <1>5, <2>1
  <2>3. m - 1 \in 1 .. Len(frames) /\ m - 1 \notin Bad /\ (m - 1) + 1 = m /\ m - 1 \in 1 .. Len(frames) + 1
    BY <1>1, <2>1, <2>2
  <2>4. base[m - 1][x] = 0
    BY <2>3
  <2>. QED BY <1>4, <2>1, <2>3, <2>4
<1>7. Len(var_val_stack[x]) = 0
  BY <1>2, <1>6 DEF BasesOf
<1>. QED BY <1>1, <1>7 DEF LastOr, ValueAt

\* The innermost call moves on.
LEMMA ComeMoves ==
  ASSUME NEW p \in Programs, NEW c, NEW e, NEW fs \in Seq(Frames), fs # <<>>, NEW f \in Frames,
         f.bb = Last(fs).bb, f.kids = Last(fs).kids, \A b \in Blocks : Len(e[b]) = Len(c[b]),
         Done(p, c, Last(fs)) \in Nat, Done(p, c, f) \in Nat, Done(p, c, Last(fs)) <= Done(p, c, f)
  PROVE  \A b \in Blocks : \A j \in Nat :
           Come(p, e, Append(Front(fs), f), b, j) <=> Come(p, c, fs, b, j) \/ (b = f.bb /\ j <= Done(p, c, f))
<1> DEFINE new == Append(Front(fs), f)
           n == Len(fs)
<1>1. /\ Len(new) = n /\ n \in Nat \ {0} /\ new[n] = f /\ Last(fs) = fs[n]
      /\ \A k \in 1 .. n : k # n => new[k] = fs[k]
  BY SetLast, DropLast
<1>2. \A b \in Blocks : Left(p, new, b) <=> Left(p, fs, b)
  BY AheadMoves
<1>. HIDE DEF new
<1>3. \A k \in 1 .. n : fs[k].bb \in Blocks
  BY FrameFields
<1>4. \A k \in 1 .. n : Done(p, e, fs[k]) = Done(p, c, fs[k]) /\ Done(p, e, f) = Done(p, c, f)
  <2>1. f.bb \in Blocks
    BY <1>1, <1>3
  <2>. QED BY <1>3, <2>1, DoneShape
<1>5. ASSUME NEW b \in Blocks, NEW j \in Nat
      PROVE  Come(p, e, new, b, j) <=> Come(p, c, fs, b, j) \/ (b = f.bb /\ j <= Done(p, c, f))
  <2>1. ASSUME NEW k \in 1 .. n, new[k].bb = b, j <= Done(p, e, new[k])
        PROVE  Come(p, c, fs, b, j) \/ (b = f.bb /\ j <= Done(p, c, f))
    <3>1. CASE k = n
      BY <1>1, <1>4, <2>1, <3>1
    <3>2. CASE k # n
      BY <1>1, <1>4, <2>1, <3>2 DEF Come
    <3>. QED BY <3>1, <3>2
  <2>2. ASSUME NEW k \in 1 .. n, fs[k].bb = b, j <= Done(p, c, fs[k]) PROVE Come(p, e, new, b, j)
    <3>1. CASE k = n
      <4>1. j <= Done(p, e, new[n]) /\ new[n].bb = b
        BY <1>1, <1>4, <2>2, <3>1
      <4>. QED BY <1>1, <4>1 DEF Come
    <3>2. CASE k # n
      <4>1. j <= Done(p, e, new[k]) /\ new[k].bb = b
        BY <1>1, <1>4, <2>2, <3>2
      <4>. QED BY <1>1, <4>1 DEF Come
    <3>. QED BY <3>1, <3>2
  <2>3. ASSUME b = f.bb, j <= Done(p, c, f) PROVE Come(p, e, new, b, j)
    <3>1. j <= Done(p, e, new[n]) /\ new[n].bb = b /\ n \in 1 .. Len(new)
      BY <1>1, <1>4, <2>3
    <3>. QED BY <3>1 DEF Come
  <2>. QED BY <1>1, <1>2, <2>1, <2>2, <2>3 DEF Come
<1>. QED BY <1>5 DEF new

MetGrows(p, c, fs, f, W) ==
  \A v : v \in W <=>
    \/ v \in Met(p, c, fs)
    \/ \E j \in 1 .. Len(p.code[f.bb]) : LoadAt(p, f.bb, j) /\ p.code[f.bb][j].def = v /\ j <= Done(p, c, f)

LEMMA MetMoves ==
  ASSUME NEW p \in Programs, NEW c, NEW e, NEW fs \in Seq(Frames), fs # <<>>, NEW f \in Frames,
         f.bb = Last(fs).bb, f.kids = Last(fs).kids, \A b \in Blocks : Len(e[b]) = Len(c[b]),
         Done(p, c, Last(fs)) \in Nat, Done(p, c, f) \in Nat, Done(p, c, Last(fs)) <= Done(p, c, f)
  PROVE  MetGrows(p, c, fs, f, Met(p, e, Append(Front(fs), f)))
<1> DEFINE new == Append(Front(fs), f)
<1>1. \A b \in Blocks : \A j \in Nat :
        Come(p, e, new, b, j) <=> Come(p, c, fs, b, j) \/ (b = f.bb /\ j <= Done(p, c, f))
  BY ComeMoves
<1>. HIDE DEF new
<1>2. f.bb \in Blocks /\ \A d \in Blocks : \A j \in 1 .. Len(p.code[d]) : j \in Nat
  BY DEF Frames
<1>3. \A d \in Blocks : \A j \in 1 .. Len(p.code[d]) : LoadAt(p, d, j) => p.code[d][j].def \in Operands
  BY SourceFields
<1>4. ASSUME NEW v PROVE v \in Met(p, e, new) <=>
           \/ v \in Met(p, c, fs)
           \/ \E j \in 1 .. Len(p.code[f.bb]) : LoadAt(p, f.bb, j) /\ p.code[f.bb][j].def = v /\ j <= Done(p, c, f)
  BY <1>1, <1>2, <1>3 DEF Met
<1>. QED BY <1>4 DEF new, MetGrows

\* What an instruction takes that is next has been replaced.
LEMMA OperandMet ==
  ASSUME NEW p \in Programs, NEW c \in Codes, NEW ph, NEW fs, Tree(p, fs), Built(p, c, ph, fs), Fresh(p, fs),
         NEW Q, NEW R, NEW S, Meaning(p, Q, R, S), NEW b \in Blocks, NEW i \in 1 .. Len(p.code[b]),
         p.code[b][i].op \in {"store", "use"}, Come(p, c, fs, b, i - 1)
  PROVE  NowIs(R, Met(p, c, fs), p.code[b][i].val) = R[p.code[b][i].val]
<1> DEFINE u == p.code[b][i].val
<1>1. u \in Operands /\ i \in Nat /\ i - 1 \in Nat
  BY SourceFields
<1>2. CASE u[1] # "load"
  <2>1. R[u] = u
    BY <1>1, <1>2, MeaningFields
  <2>. QED BY <2>1 DEF NowIs
<1>3. CASE u[1] = "load"
  <2>1. ComputedBefore(p, u, b, i)
    BY <1>3, SourceFields
  <2>2. PICK d \in Blocks : \E j \in 1 .. Len(p.code[d]) :
               LoadAt(p, d, j) /\ p.code[d][j].def = u /\ IF d = b THEN j < i ELSE Dom(p, d, b)
    BY <2>1, ComputedFields
  <2>3. PICK j \in 1 .. Len(p.code[d]) :
               LoadAt(p, d, j) /\ p.code[d][j].def = u /\ IF d = b THEN j < i ELSE Dom(p, d, b)
    BY <2>2
  <2>4. Passed(p, b, i - 1, d, j)
    BY <1>1, <2>3 DEF Passed
  <2>5. Come(p, c, fs, d, j)
    BY <1>1, <2>4, ComeClosed
  <2>6. u \in Met(p, c, fs)
    BY <2>3, <2>5, MetFields
  <2>. QED BY <2>6 DEF NowIs
<1>. QED BY <1>2, <1>3

\* A load that is there where re_name has come by it has come by.
LEMMA LoadIsMet ==
  ASSUME NEW p \in Programs, NEW c \in Codes, NEW ph, NEW fs, Tree(p, fs), Built(p, c, ph, fs), Fresh(p, fs),
         NEW b \in Blocks, NEW i \in Nat, Come(p, c, fs, b, i), NEW v, Settled(p, b, i + 1, v),
         NEW d \in Blocks, NEW j \in 1 .. Len(p.code[d]), LoadAt(p, d, j), v = p.code[d][j].def
  PROVE  Come(p, c, fs, d, j)
<1>1. v[1] = "load"
  BY SourceFields
<1>2. ComputedBefore(p, v, b, i + 1)
  BY <1>1 DEF Settled
<1>3. PICK t \in Blocks : \E k \in 1 .. Len(p.code[t]) :
             LoadAt(p, t, k) /\ p.code[t][k].def = v /\ IF t = b THEN k < i + 1 ELSE Dom(p, t, b)
  BY <1>2, ComputedFields
<1>4. PICK k \in 1 .. Len(p.code[t]) :
             LoadAt(p, t, k) /\ p.code[t][k].def = v /\ IF t = b THEN k < i + 1 ELSE Dom(p, t, b)
  BY <1>3
<1>5. t = d /\ k = j
  BY <1>4, DefinedOnce
<1>6. Passed(p, b, i, d, j)
  BY <1>4, <1>5 DEF Passed
<1>. QED BY <1>6, ComeClosed

(***************************************************************************)
(* The invariant.                                                          *)
(***************************************************************************)
PhisQueued(p, c, td) ==
  \A b \in Blocks : \A x \in Vars : Defines(p, c, b, x) =>
    [var |-> x, bb |-> b] \in td \/ \A s \in p.df[b] : PhiIn(c, s, x)
RawVals(p, c) ==
  \A b \in Blocks : \A i \in 1 .. Len(p.code[b]) : c[b][Off(p, c, b) + i].val = p.code[b][i].val
WaitsOwn(c, fs) ==
  \A k \in 1 .. Len(fs) : \A v \in fs[k].wait :
    \E i \in 1 .. Len(c[fs[k].bb]) : c[fs[k].bb][i].def = v /\ c[fs[k].bb][i].op \in Accesses
MeansNow(p, c, fs, vs, R, S) ==
  /\ Valued(p, c, fs, R, Met(p, c, fs)) /\ Shortened(p, c, fs, R, Met(p, c, fs))
  /\ Tops(p, c, fs, vs, R, S) /\ PairsMean(p, c, R, S)
Meant(p, c, fs, vs) ==
  \A R, S : Meaning(p, PhisAt(c), R, S) => MeansNow(p, c, fs, vs, R, S)
MeanInv ==
  Running =>
    /\ PhisNamed(code) /\ PhisQueued(prog, code, todo)
    /\ phase = "place" => RawVals(prog, code)
    /\ phase # "place" =>
         /\ todo = {} /\ Fresh(prog, frames) /\ WaitsOwn(code, frames)
         /\ Meant(prog, code, frames, var_val_stack)

LEMMA FrontierIn ==
  ASSUME NEW p \in Programs, NEW b \in Blocks, NEW s \in p.df[b]
  PROVE  s \in Blocks
<1>1. p.df[b] = DominanceFrontier(b, Entry, Blocks, EdgesOf(p))
  BY ProgramsAssumption
<1>. QED BY <1>1 DEF DominanceFrontier

\* Code of the same shape.
LEMMA ShapePhis ==
  ASSUME NEW c, NEW e, SameShape(c, e)
  PROVE  /\ \A b \in Blocks : \A x : PhiIn(e, b, x) <=> PhiIn(c, b, x)
         /\ PhisAt(e) = PhisAt(c) /\ (PhisNamed(c) => PhisNamed(e))
         /\ \A p \in Programs : \A td : PhisQueued(p, c, td) => PhisQueued(p, e, td)
<1>1. \A b \in Blocks : Len(e[b]) = Len(c[b]) /\ \A i \in 1 .. Len(c[b]) :
        e[b][i].op = c[b][i].op /\ e[b][i].var = c[b][i].var /\ e[b][i].def = c[b][i].def
  BY DEF SameShape, SameAccess
<1>2. \A b \in Blocks : \A x : PhiIn(e, b, x) <=> PhiIn(c, b, x)
  BY <1>1 DEF PhiIn
<1>3. PhisAt(e) = PhisAt(c)
  <2>1. \A q \in Blocks \X Vars : PhiIn(e, q[1], q[2]) <=> PhiIn(c, q[1], q[2])
    BY <1>2
  <2>. QED BY <2>1 DEF PhisAt
<1>4. PhisNamed(c) => PhisNamed(e)
  BY <1>1 DEF PhisNamed
<1>5. ASSUME NEW p \in Programs, NEW td, PhisQueued(p, c, td) PROVE PhisQueued(p, e, td)
  <2>1. ASSUME NEW b \in Blocks, NEW x \in Vars, Defines(p, e, b, x), [var |-> x, bb |-> b] \notin td,
               NEW s \in p.df[b]
        PROVE  PhiIn(e, s, x)
    <3>1. Defines(p, c, b, x)
      BY <1>2, <2>1 DEF Defines
    <3>2. PhiIn(c, s, x)
      BY <1>5, <2>1, <3>1 DEF PhisQueued
    <3>3. s \in Blocks
      BY <1>5, <2>1, FrontierIn
    <3>. QED BY <1>2, <3>2, <3>3
  <2>. QED BY <2>1 DEF PhisQueued
<1>. QED BY <1>2, <1>3, <1>4, <1>5

\* Operands change as W grows.
ValuesMove(c, e, R, W, W2) ==
  \A b \in Blocks : \A i \in 1 .. Len(c[b]) : \A u \in Operands :
    c[b][i].op \in {"store", "use"} /\ c[b][i].val = NowIs(R, W, u) => e[b][i].val = NowIs(R, W2, u)

LEMMA ValuedMoves ==
  ASSUME NEW p \in Programs, NEW c \in Codes, NEW e, NEW ph, NEW fs, NEW new, Built(p, c, ph, fs),
         SameShape(c, e), \A b \in Blocks : Left(p, new, b) <=> Left(p, fs, b),
         NEW R, NEW W, NEW W2, Valued(p, c, fs, R, W), ValuesMove(c, e, R, W, W2)
  PROVE  Valued(p, e, new, R, W2)
<1>1. ASSUME NEW b \in Blocks, ~Left(p, new, b), NEW i \in 1 .. Len(p.code[b]), p.code[b][i].op \in {"store", "use"}
      PROVE  e[b][Off(p, e, b) + i].val = NowIs(R, W2, p.code[b][i].val)
  <2> DEFINE n == Off(p, c, b)
             u == p.code[b][i].val
  <2>1. AsBuilt(p, c, b)
    BY <1>1 DEF Left, Built
  <2>2. PhisBefore(p, c, b, n)
    BY <2>1, OffIs
  <2>3. Off(p, e, b) = n
    BY DEF SameShape, Off
  <2>. HIDE DEF n
  <2>4. n + i \in 1 .. Len(c[b]) /\ SameAccess(c[b][n + i], p.code[b][i])
    BY <1>1, <2>2 DEF PhisBefore
  <2>5. c[b][n + i].val = NowIs(R, W, u)
    BY <1>1 DEF Valued, n
  <2>6. u \in Operands
    BY <1>1, SourceFields
  <2>. HIDE DEF u
  <2>7. e[b][n + i].val = NowIs(R, W2, u)
    BY <1>1, <2>4, <2>5, <2>6 DEF ValuesMove, SameAccess
  <2>. QED BY <2>3, <2>7 DEF u
<1>. QED BY <1>1 DEF Valued

LEMMA ShortenedMoves ==
  ASSUME NEW p \in Programs, NEW c \in Codes, NEW e, NEW fs, NEW new,
         SameShape(c, e), \A b \in Blocks : Left(p, new, b) <=> Left(p, fs, b),
         NEW R, NEW W, NEW W2, Shortened(p, c, fs, R, W), ValuesMove(c, e, R, W, W2)
  PROVE  Shortened(p, e, new, R, W2)
<1>1. ASSUME NEW b \in Blocks, Left(p, new, b) PROVE Synced(p, e[b], b, R, W2)
  <2> DEFINE s == c[b]
             t == e[b]
  <2>1. Len(s) \in Nat /\ Len(t) = Len(s) /\ \A i \in 1 .. Len(s) : SameAccess(t[i], s[i])
    BY CodeFields DEF SameShape
  <2>2. ASSUME NEW i \in 1 .. Len(s), NEW j \in 1 .. Len(p.code[b]), s[i].op = "use",
               SameAccess(s[i], p.code[b][j]), s[i].val = NowIs(R, W, p.code[b][j].val)
        PROVE  t[i].val = NowIs(R, W2, p.code[b][j].val)
    <3>1. p.code[b][j].val \in Operands
      BY <2>2, SourceFields DEF SameAccess
    <3>. QED BY <2>2, <3>1 DEF ValuesMove
  <2>3. Synced(p, s, b, R, W)
    BY <1>1 DEF Shortened
  <2>. HIDE DEF s, t
  <2>4. Synced(p, t, b, R, W2)
    BY <2>1, <2>2, <2>3, SyncedMoves
  <2>. QED BY <2>4 DEF t
<1>. QED BY <1>1 DEF Shortened

\* A step of the innermost call that keeps the shape of the code.
LEMMA InnerMeans ==
  ASSUME RenameInv, RenameInv', MeanInv, phase = "rename", phase' = "rename", frames # <<>>,
         UNCHANGED <<prog, todo>>, SameShape(code, code'),
         NEW f \in Frames, frames' = Append(Front(frames), f), f.bb = Top.bb, f.kids = Top.kids,
         Top.at # "kids", f.at # "phis",
         \A v \in f.wait : v \in Top.wait \/ \E i \in 1 .. Len(code[Top.bb]) :
           code[Top.bb][i].def = v /\ code[Top.bb][i].op \in Accesses,
         \A x \in Vars : \A j \in 1 .. Len(var_val_stack[x]) :
           j <= Len(var_val_stack'[x]) => var_val_stack'[x][j] = var_val_stack[x][j],
         Done(prog, code, Top) <= Done(prog, code, f),
         \A R, S : Meaning(prog, PhisAt(code), R, S) /\ MeansNow(prog, code, frames, var_val_stack, R, S) =>
           /\ ValuesMove(code, code', R, Met(prog, code, frames), Met(prog, code', frames'))
           /\ \A x \in Vars : Holds(prog, R, S, f.bb, Done(prog, code, f), x, LastOr(var_val_stack'[x]))
           /\ PairsMean(prog, code', R, S)
  PROVE  MeanInv'
<1> DEFINE new == Append(Front(frames), f)
           n == Len(frames)
<1>1. /\ frames \in Seq(Frames) /\ n \in Nat \ {0} /\ n \in 1 .. n /\ Top = frames[n]
      /\ Top = Last(frames) /\ Top \in Frames /\ prog \in Programs /\ code \in Codes
      /\ Top.bb \in Blocks /\ AsBuilt(prog, code, Top.bb)
  BY TopFields DEF Top, RenameInv
<1>2. /\ new \in Seq(Frames) /\ Len(new) = n /\ new[n] = f
      /\ \A k \in 1 .. n : k # n => new[k] = frames[k]
  BY <1>1, SetLast
<1>3. \A b \in Blocks : Left(prog, new, b) <=> Left(prog, frames, b)
  BY <1>1, AheadMoves
<1>4. /\ PhisNamed(code) /\ PhisQueued(prog, code, todo) /\ todo = {} /\ Fresh(prog, frames)
      /\ WaitsOwn(code, frames) /\ Meant(prog, code, frames, var_val_stack)
  BY DEF MeanInv, Running
<1>5. PhisAt(code') = PhisAt(code) /\ PhisNamed(code') /\ PhisQueued(prog, code', todo)
  BY <1>1, <1>4, ShapePhis
<1>6. frames' = new
  OBVIOUS
<1>. HIDE DEF new
<1>7. Fresh(prog, new)
  <2>1. ASSUME NEW k \in 1 .. n, new[k].at # "kids" PROVE new[k].kids = prog.kids[new[k].bb]
    <3>1. CASE k = n
      <4>1. Top.kids = prog.kids[Top.bb]
        BY <1>1, <1>4 DEF Fresh
      <4>2. new[k] = f
        BY <1>2, <3>1
      <4>. QED BY <4>1, <4>2
    <3>2. CASE k # n
      BY <1>2, <1>4, <2>1, <3>2 DEF Fresh
    <3>. QED BY <3>1, <3>2
  <2>. QED BY <1>2, <2>1 DEF Fresh
<1>8. WaitsOwn(code', new)
  <2>1. ASSUME NEW k \in 1 .. n, NEW v \in new[k].wait
        PROVE  \E i \in 1 .. Len(code'[new[k].bb]) :
                 code'[new[k].bb][i].def = v /\ code'[new[k].bb][i].op \in Accesses
    <3>1. new[k].bb = frames[k].bb /\ frames[k].bb \in Blocks
      BY <1>1, <1>2, FrameFields
    <3>2. PICK i \in 1 .. Len(code[frames[k].bb]) :
            code[frames[k].bb][i].def = v /\ code[frames[k].bb][i].op \in Accesses
      <4>1. CASE v \in frames[k].wait
        BY <1>4, <4>1 DEF WaitsOwn
      <4>2. CASE v \notin frames[k].wait
        <5>1. k = n
          BY <1>2, <2>1, <4>2
        <5>2. frames[k] = Top /\ new[k] = f
          BY <1>1, <1>2, <5>1
        <5>3. v \in f.wait /\ v \notin Top.wait
          BY <2>1, <4>2, <5>2
        <5>. QED BY <5>2, <5>3
      <4>. QED BY <4>1, <4>2
    <3>3. /\ Len(code'[frames[k].bb]) = Len(code[frames[k].bb])
          /\ SameAccess(code'[frames[k].bb][i], code[frames[k].bb][i])
      BY <3>1 DEF SameShape
    <3>. QED BY <3>1, <3>2, <3>3 DEF SameAccess
  <2>. QED BY <1>2, <2>1 DEF WaitsOwn
<1>9. ASSUME NEW R, NEW S, Meaning(prog, PhisAt(code'), R, S)
      PROVE  MeansNow(prog, code', new, var_val_stack', R, S)
  <2> DEFINE W == Met(prog, code, frames)
             W2 == Met(prog, code', new)
  <2>1. Meaning(prog, PhisAt(code), R, S) /\ MeansNow(prog, code, frames, var_val_stack, R, S)
    BY <1>4, <1>5, <1>9 DEF Meant
  <2>2. /\ ValuesMove(code, code', R, W, W2)
        /\ \A x \in Vars : Holds(prog, R, S, f.bb, Done(prog, code, f), x, LastOr(var_val_stack'[x]))
        /\ PairsMean(prog, code', R, S)
    BY <1>6, <2>1
  <2>3. /\ Valued(prog, code, frames, R, W) /\ Shortened(prog, code, frames, R, W)
        /\ Tops(prog, code, frames, var_val_stack, R, S)
    BY <2>1 DEF MeansNow
  <2>. HIDE DEF W, W2
  <2>4. Valued(prog, code', new, R, W2)
    <3>1. Built(prog, code, phase, frames)
      BY DEF RenameInv
    <3>. QED BY <1>1, <1>3, <2>2, <2>3, <3>1, ValuedMoves
  <2>5. Shortened(prog, code', new, R, W2)
    BY <1>1, <1>3, <2>2, <2>3, ShortenedMoves
  <2>6. Tops(prog, code', new, var_val_stack', R, S)
    <3>1. ASSUME NEW base, BasesOf(code', new, var_val_stack', base), NEW k \in 1 .. n, new[k].at # "phis",
                 NEW x \in Vars
          PROVE  TopIs(prog, code', new[k], var_val_stack'[x], base[k + 1][x], R, S, x)
      <4>1. CASE k = n
        <5>1. base[k + 1][x] = Len(var_val_stack'[x])
          BY <1>2, <3>1, <4>1 DEF BasesOf
        <5>2. Done(prog, code', f) = Done(prog, code, f)
          <6>1. Len(code'[f.bb]) = Len(code[f.bb])
            BY <1>1 DEF SameShape
          <6>. QED BY <6>1, DoneShape
        <5>. QED BY <1>2, <2>2, <4>1, <5>1, <5>2 DEF TopIs, LastOr
      <4>2. CASE k # n
        <5>1. n - 1 \in Nat /\ n - 1 <= n /\ k \in 1 .. n - 1 /\ n - 1 <= Len(new)
          BY <1>1, <1>2, <4>2
        <5>2. \A m \in 1 .. n - 1 : /\ new[m].bb = frames[m].bb /\ Done(prog, code', new[m]) = Done(prog, code, frames[m])
                                    /\ new[m].at # "phis" => frames[m].at # "phis"
                                    /\ \A y \in Vars : Pushes(code', new[m], y) = Pushes(code, frames[m], y)
          <6>1. ASSUME NEW m \in 1 .. n - 1
                PROVE  /\ new[m] = frames[m] /\ Done(prog, code', frames[m]) = Done(prog, code, frames[m])
                       /\ \A y \in Vars : Pushes(code', frames[m], y) = Pushes(code, frames[m], y)
            <7>1. m \in 1 .. n /\ m # n
              BY <1>1, <6>1
            <7>2. new[m] = frames[m] /\ frames[m] \in Frames /\ frames[m].bb \in Blocks
              BY <1>1, <1>2, <7>1, FrameFields
            <7>3. Len(code'[frames[m].bb]) = Len(code[frames[m].bb])
              BY <7>2 DEF SameShape
            <7>4. code' \in Codes
              BY DEF RenameInv
            <7>5. \A y : Pushes(code', frames[m], y) = Pushes(code, frames[m], y)
              BY <1>1, <7>2, <7>4, ShapeKept
            <7>. QED BY <7>2, <7>3, <7>5, DoneShape
          <6>. QED BY <6>1
        <5>3. Stacks(code, frames, var_val_stack)
          BY DEF RenameInv
        <5> DEFINE l == n - 1
                   e == code'
                   vs2 == var_val_stack'
        <5>4. /\ l \in Nat /\ l <= Len(frames) /\ l <= Len(new) /\ k \in 1 .. l
              /\ \A x_1 \in Vars : \A j \in 1 .. Len(var_val_stack[x_1]) :
                   j <= Len(vs2[x_1]) => vs2[x_1][j] = var_val_stack[x_1][j]
              /\ BasesOf(e, new, vs2, base)
          BY <1>2, <3>1, <5>1
        <5>5. \A m \in 1 .. l : /\ new[m].bb = frames[m].bb /\ Done(prog, e, new[m]) = Done(prog, code, frames[m])
                                /\ new[m].at # "phis" => frames[m].at # "phis"
                                /\ \A y \in Vars : Pushes(e, new[m], y) = Pushes(code, frames[m], y)
          BY <5>2
        <5>. HIDE DEF l, e, vs2
        <5>6. TopIs(prog, e, new[k], vs2[x], base[k + 1][x], R, S, x)
          BY <1>1, <1>2, <2>3, <3>1, <5>3, <5>4, <5>5, TopsCarried
        <5>. QED BY <5>6 DEF e, vs2
      <4>. QED BY <4>1, <4>2
    <3>. QED BY <1>2, <3>1 DEF Tops
  <2>. QED BY <2>2, <2>4, <2>5, <2>6 DEF MeansNow, W2
<1>10. Meant(prog, code', new, var_val_stack')
  BY <1>9 DEF Meant
<1>. QED BY <1>4, <1>5, <1>6, <1>7, <1>8, <1>10 DEF MeanInv

(***************************************************************************)
(* Steps over the instructions of a block.                                 *)
(***************************************************************************)
ToNext(f) ==
  /\ f \in Frames /\ f.bb = Top.bb /\ f.kids = Top.kids /\ f.at = "instrs" /\ f.i = Top.i + 1
AtOne == phase = "rename" /\ frames # <<>> /\ Top.at = "instrs" /\ Top.i \in 1 .. Len(code[Top.bb])

LEMMA MetInstr ==
  ASSUME RenameInv, AtOne, NEW f, ToNext(f), NEW e, \A b \in Blocks : Len(e[b]) = Len(code[b])
  PROVE  /\ Done(prog, code, Top) \in Nat /\ Done(prog, code, f) \in Nat
         /\ Done(prog, code, Top) <= Done(prog, code, f)
         /\ \A v : v \in Met(prog, e, Append(Front(frames), f)) <=>
              v \in Met(prog, code, frames) \/ (Instr.op = "load" /\ v = Instr.def)
<1> DEFINE b == Top.bb
           n == Off(prog, code, b)
           d == Done(prog, code, Top)
           g == Done(prog, code, f)
<1>1. /\ frames \in Seq(Frames) /\ frames # <<>> /\ Top = Last(frames) /\ Top \in Frames /\ b \in Blocks
      /\ AsBuilt(prog, code, b) /\ prog \in Programs /\ code \in Codes
      /\ Len(frames) \in 1 .. Len(frames) /\ Top = frames[Len(frames)]
  BY TopFields DEF Top, RenameInv, AtOne
<1>2. f \in Frames /\ f.bb = b /\ f.at = "instrs" /\ f.i = Top.i + 1 /\ f.kids = Top.kids
  BY DEF ToNext
<1>3. /\ code[b][Top.i].op = "phi" => d = 0 /\ g = 0
      /\ code[b][Top.i].op # "phi" =>
           /\ Top.i - n \in 1 .. Len(prog.code[b])
           /\ d = Top.i - n - 1 /\ g = Top.i - n
           /\ SameAccess(code[b][Top.i], prog.code[b][Top.i - n])
  BY <1>1, <1>2, DoneNext DEF AtOne
<1>4. d \in Nat /\ g \in Nat /\ d <= g /\ (code[b][Top.i].op # "phi" => g = d + 1 /\ g \in 1 .. Len(prog.code[b]))
  <2>1. Len(prog.code[b]) \in Nat
    BY <1>1, SourceFields
  <2>2. CASE code[b][Top.i].op = "phi"
    BY <1>3, <2>2
  <2>3. CASE code[b][Top.i].op # "phi"
    <3> DEFINE m == Top.i - n
    <3>1. m \in 1 .. Len(prog.code[b]) /\ d = m - 1 /\ g = m
      BY <1>3, <2>3
    <3>. HIDE DEF m, d, g
    <3>. QED BY <2>1, <3>1
  <2>. QED BY <2>2, <2>3
<1>5. \A v : v \in Met(prog, e, Append(Front(frames), f)) <=>
        \/ v \in Met(prog, code, frames)
        \/ \E j \in 1 .. Len(prog.code[b]) : LoadAt(prog, b, j) /\ prog.code[b][j].def = v /\ j <= g
  <2>1. /\ f.bb = Last(frames).bb /\ f.kids = Last(frames).kids
        /\ Done(prog, code, Last(frames)) \in Nat /\ Done(prog, code, f) \in Nat
        /\ Done(prog, code, Last(frames)) <= Done(prog, code, f)
    BY <1>1, <1>2, <1>4
  <2>2. \A v : v \in Met(prog, e, Append(Front(frames), f)) <=>
          \/ v \in Met(prog, code, frames)
          \/ \E j \in 1 .. Len(prog.code[f.bb]) :
               LoadAt(prog, f.bb, j) /\ prog.code[f.bb][j].def = v /\ j <= Done(prog, code, f)
    <3>1. MetGrows(prog, code, frames, f, Met(prog, e, Append(Front(frames), f)))
      BY <1>1, <1>2, <2>1, MetMoves
    <3>. QED BY <3>1 DEF MetGrows
  <2>. QED BY <1>2, <2>2
<1>6. Instr = code[b][Top.i]
  BY DEF Instr
<1>7. ASSUME NEW j \in 1 .. Len(prog.code[b]), LoadAt(prog, b, j), j <= g
      PROVE  prog.code[b][j].def \in Met(prog, code, frames) \/ (Instr.op = "load" /\ prog.code[b][j].def = Instr.def)
  <2>1. CASE j <= d
    <3>1. Come(prog, code, frames, b, j)
      BY <1>1, <2>1 DEF Come
    <3>. QED BY <1>1, <1>7, <3>1, MetFields
  <2>2. CASE ~(j <= d)
    <3>1. code[b][Top.i].op # "phi"
      BY <1>3, <1>7, <2>2
    <3>2. j = g
      BY <1>4, <1>7, <2>2, <3>1
    <3>3. SameAccess(code[b][Top.i], prog.code[b][j])
      BY <1>3, <3>1, <3>2
    <3>. QED BY <1>6, <1>7, <3>3 DEF SameAccess, LoadAt
  <2>. QED BY <2>1, <2>2
<1>8. ASSUME Instr.op = "load"
      PROVE  \E j \in 1 .. Len(prog.code[b]) : LoadAt(prog, b, j) /\ prog.code[b][j].def = Instr.def /\ j <= g
  <2>1. g \in 1 .. Len(prog.code[b]) /\ SameAccess(code[b][Top.i], prog.code[b][g])
    BY <1>3, <1>4, <1>6, <1>8
  <2>2. LoadAt(prog, b, g) /\ prog.code[b][g].def = Instr.def /\ g <= g
    BY <1>4, <1>6, <1>8, <2>1 DEF SameAccess, LoadAt
  <2>. QED BY <2>1, <2>2
<1>. HIDE DEF g, d
<1>9. ASSUME NEW v
      PROVE  v \in Met(prog, e, Append(Front(frames), f)) <=>
               v \in Met(prog, code, frames) \/ (Instr.op = "load" /\ v = Instr.def)
  BY <1>5, <1>7, <1>8
<1>. QED BY <1>4, <1>9 DEF d, g

\* What a variable holds that the instruction does not set.
LEMMA HoldsInstr ==
  ASSUME RenameInv, AtOne, NEW f, ToNext(f), NEW R, NEW S,
         Tops(prog, code, frames, var_val_stack, R, S), NEW x \in Vars,
         ~(Instr.op = "store" /\ Instr.var = x)
  PROVE  Holds(prog, R, S, f.bb, Done(prog, code, f), x, LastOr(var_val_stack[x]))
<1> DEFINE b == Top.bb
           n == Off(prog, code, b)
           d == Done(prog, code, Top)
           g == Done(prog, code, f)
           w == LastOr(var_val_stack[x])
<1>1. /\ Top \in Frames /\ b \in Blocks /\ AsBuilt(prog, code, b) /\ prog \in Programs /\ code \in Codes
      /\ f \in Frames /\ f.bb = b /\ f.at = "instrs" /\ f.i = Top.i + 1 /\ Instr = code[b][Top.i]
  BY TopFields DEF RenameInv, AtOne, ToNext, Instr
<1>2. /\ code[b][Top.i].op = "phi" => d = 0 /\ g = 0
      /\ code[b][Top.i].op # "phi" =>
           /\ Top.i - n \in 1 .. Len(prog.code[b])
           /\ d = Top.i - n - 1 /\ g = Top.i - n
           /\ SameAccess(code[b][Top.i], prog.code[b][Top.i - n])
  BY <1>1, DoneNext DEF AtOne
<1>3. Holds(prog, R, S, b, d, x, w)
  BY TopHolds DEF AtOne
<1>4. CASE code[b][Top.i].op = "phi"
  BY <1>1, <1>2, <1>3, <1>4
<1>5. CASE code[b][Top.i].op # "phi"
  <2>1. g \in 1 .. Len(prog.code[b]) /\ d = g - 1 /\ SameAccess(code[b][Top.i], prog.code[b][g])
    BY <1>2, <1>5
  <2>2. g \in Nat \ {0}
    BY <1>1, <2>1, SourceFields
  <2>3. ~StoreAt(prog, b, g, x)
    BY <1>1, <2>1 DEF SameAccess, StoreAt
  <2>. HIDE DEF g, d, w
  <2>4. Holds(prog, R, S, b, g, x, w)
    BY <1>3, <2>1, <2>2, <2>3, HoldsNext
  <2>. QED BY <1>1, <2>4 DEF g, w
<1>. QED BY <1>4, <1>5

\* A load is what is on top of the stack of its variable.
LEMMA LoadMeans ==
  ASSUME RenameInv, AtOne, Instr.op = "load", NEW Q, NEW R, NEW S, Meaning(prog, Q, R, S),
         Tops(prog, code, frames, var_val_stack, R, S)
  PROVE  LET w == LastOr(var_val_stack[Instr.var])
         IN  R[Instr.def] = IF w = NoValue THEN Instr.def ELSE w
<1> DEFINE b == Top.bb
           n == Off(prog, code, b)
           d == Done(prog, code, Top)
           f == [Top EXCEPT !.i = @ + 1]
           g == Top.i - n
           x == Instr.var
<1>1. /\ Top \in Frames /\ b \in Blocks /\ AsBuilt(prog, code, b) /\ prog \in Programs /\ code \in Codes
      /\ Instr = code[b][Top.i]
  BY TopFields DEF RenameInv, AtOne, Instr
<1>2. f \in Frames /\ f.bb = b /\ f.at = "instrs" /\ f.i = Top.i + 1
  BY <1>1, FrameNext DEF AtOne
<1>3. g \in 1 .. Len(prog.code[b]) /\ d = g - 1 /\ SameAccess(code[b][Top.i], prog.code[b][g])
  <2>. HIDE DEF f
  <2>. QED BY <1>1, <1>2, DoneNext DEF AtOne
<1>. HIDE DEF f, g
<1>4. /\ LoadAt(prog, b, g) /\ prog.code[b][g].var = x /\ prog.code[b][g].def = Instr.def
      /\ g - 1 \in Nat
  BY <1>1, <1>3, SourceFields DEF SameAccess, LoadAt
<1>5. x \in Vars
  BY <1>1, <1>3, <1>4, SourceFields
<1>6. Holds(prog, R, S, b, g - 1, x, LastOr(var_val_stack[x]))
  BY <1>3, <1>5, TopHolds DEF AtOne
<1>7. Loads(prog, R, S, b, g)
  BY <1>1, <1>3, MeaningFields
<1>8. PICK w \in Operands \union {NoValue} :
        /\ Holds(prog, R, S, b, g - 1, x, w)
        /\ R[Instr.def] = IF w = NoValue THEN Instr.def ELSE w
  BY <1>4, <1>7 DEF Loads
<1>9. w = LastOr(var_val_stack[x])
  BY <1>4, <1>6, <1>8, HoldsUnique
<1>. QED BY <1>8, <1>9

LEMMA SameNow ==
  ASSUME NEW c, NEW R, NEW W, NEW W2, NEW v, R[v] = v, \A u : u \in W2 <=> u \in W \/ u = v
  PROVE  ValuesMove(c, c, R, W, W2)
<1>1. \A u : NowIs(R, W2, u) = NowIs(R, W, u)
  BY DEF NowIs
<1>. QED BY <1>1 DEF ValuesMove

LEMMA SameNowOn ==
  ASSUME NEW c, NEW R, NEW W, NEW W2, \A u : u \in W2 <=> u \in W
  PROVE  ValuesMove(c, c, R, W, W2)
<1>1. \A u : NowIs(R, W2, u) = NowIs(R, W, u)
  BY DEF NowIs
<1>. QED BY <1>1 DEF ValuesMove

\* The call has one more instruction behind it, which changes nothing.
LEMMA MeanQuiet ==
  ASSUME RenameInv, RenameInv', MeanInv, AtOne, phase' = "rename",
         UNCHANGED <<prog, todo, code, var_val_stack>>,
         NEW f, ToNext(f), frames' = Append(Front(frames), f),
         \A v \in f.wait : v \in Top.wait \/ (v = Instr.def /\ Instr.op \in Accesses),
         Instr.op # "store",
         \A R, S : /\ Meaning(prog, PhisAt(code), R, S) /\ Tops(prog, code, frames, var_val_stack, R, S)
                   /\ Instr.op = "load"
                   => R[Instr.def] = Instr.def
  PROVE  MeanInv'
<1>1. /\ f \in Frames /\ f.bb = Top.bb /\ f.kids = Top.kids /\ f.at = "instrs"
      /\ frames # <<>> /\ phase = "rename" /\ Top.at = "instrs" /\ Instr = code[Top.bb][Top.i]
      /\ Top.i \in 1 .. Len(code[Top.bb])
  BY DEF ToNext, AtOne, Instr
<1>2. SameShape(code, code')
  BY DEF SameShape, SameAccess
<1>3. /\ Done(prog, code, Top) <= Done(prog, code, f)
      /\ \A v : v \in Met(prog, code', frames') <=>
           v \in Met(prog, code, frames) \/ (Instr.op = "load" /\ v = Instr.def)
  BY MetInstr
<1>4. \A v \in f.wait : v \in Top.wait \/ \E i \in 1 .. Len(code[Top.bb]) :
        code[Top.bb][i].def = v /\ code[Top.bb][i].op \in Accesses
  BY <1>1
<1>5. ASSUME NEW R, NEW S, Meaning(prog, PhisAt(code), R, S), MeansNow(prog, code, frames, var_val_stack, R, S)
      PROVE  /\ ValuesMove(code, code', R, Met(prog, code, frames), Met(prog, code', frames'))
             /\ \A x \in Vars : Holds(prog, R, S, f.bb, Done(prog, code, f), x, LastOr(var_val_stack'[x]))
             /\ PairsMean(prog, code', R, S)
  <2>1. Tops(prog, code, frames, var_val_stack, R, S) /\ PairsMean(prog, code, R, S)
    BY <1>5 DEF MeansNow
  <2>2. \A x \in Vars : Holds(prog, R, S, f.bb, Done(prog, code, f), x, LastOr(var_val_stack[x]))
    BY <2>1, HoldsInstr
  <2>3. ValuesMove(code, code, R, Met(prog, code, frames), Met(prog, code', frames'))
    <3> DEFINE W == Met(prog, code, frames)
               W2 == Met(prog, code', frames')
               v == Instr.def
    <3>1. CASE Instr.op = "load"
      <4>1. R[v] = v /\ \A u : u \in W2 <=> u \in W \/ u = v
        BY <1>3, <1>5, <2>1, <3>1
      <4>. HIDE DEF W, W2, v
      <4>2. ValuesMove(code, code, R, W, W2)
        BY <4>1, SameNow
      <4>. QED BY <4>2 DEF W, W2
    <3>2. CASE Instr.op # "load"
      <4>1. \A u : u \in W2 <=> u \in W
        BY <1>3, <3>2
      <4>. HIDE DEF W, W2
      <4>2. ValuesMove(code, code, R, W, W2)
        BY <4>1, SameNowOn
      <4>. QED BY <4>2 DEF W, W2
    <3>. QED BY <3>1, <3>2
  <2>. QED BY <2>1, <2>2, <2>3
<1>. QED BY <1>1, <1>2, <1>3, <1>4, <1>5, InnerMeans

LEMMA MeanSkipInstr ==
  ASSUME RenameInv, RenameInv', MeanInv, SkipInstr PROVE MeanInv'
<1>1. /\ AtInstr({"alloca", "use", "phi"}) /\ Renaming("instrs") /\ NextInstr(FALSE)
      /\ UNCHANGED <<prog, code, phase, todo, var_val_stack, known>>
      /\ Instr.op \in {"alloca", "use", "phi"} /\ Top.i <= Len(code[Top.bb])
  BY DEF SkipInstr, AtInstr
<1>2. PICK f \in Frames :
        /\ frames' = Append(Front(frames), f)
        /\ f.bb = Top.bb /\ f.kids = Top.kids /\ f.at = "instrs" /\ f.i = Top.i + 1
        /\ f.wait = Top.wait \union {}
        /\ Top.i \in 1 .. Len(code[Top.bb])
  BY <1>1, NextInstrFrame
<1>3. AtOne /\ ToNext(f) /\ phase' = "rename" /\ Instr.op # "store" /\ Instr.op # "load"
  BY <1>1, <1>2 DEF AtOne, ToNext, Renaming
<1>. QED BY <1>1, <1>2, <1>3, MeanQuiet

LEMMA MeanKeepLoad ==
  ASSUME RenameInv, RenameInv', PhisInv, MeanInv, KeepLoad PROVE MeanInv'
<1>1. /\ AtInstr({"load"}) /\ Renaming("instrs") /\ NextInstr(FALSE)
      /\ UNCHANGED <<prog, code, phase, todo, var_val_stack, known>>
      /\ Instr.op = "load" /\ Top.i <= Len(code[Top.bb]) /\ Instr.var \notin known
  BY DEF KeepLoad, AtInstr
<1>2. PICK f \in Frames :
        /\ frames' = Append(Front(frames), f)
        /\ f.bb = Top.bb /\ f.kids = Top.kids /\ f.at = "instrs" /\ f.i = Top.i + 1
        /\ f.wait = Top.wait \union {}
        /\ Top.i \in 1 .. Len(code[Top.bb])
  BY <1>1, NextInstrFrame
<1>3. AtOne /\ ToNext(f) /\ phase' = "rename" /\ Instr.op # "store"
  BY <1>1, <1>2 DEF AtOne, ToNext, Renaming
<1>4. ASSUME NEW R, NEW S, Meaning(prog, PhisAt(code), R, S), Tops(prog, code, frames, var_val_stack, R, S)
      PROVE  R[Instr.def] = Instr.def
  <2>1. Instr.var \in Vars
    <3>1. Top.bb \in Blocks /\ AsBuilt(prog, code, Top.bb) /\ code \in Codes /\ prog \in Programs
      BY <1>3, TopFields DEF RenameInv, AtOne
    <3>. QED BY <1>1, <1>2, <3>1, BuiltFields DEF Instr
  <2>2. LastOr(var_val_stack[Instr.var]) = NoValue
    BY <1>1, <1>3, <2>1, UnknownEmpty DEF AtOne
  <2>. QED BY <1>1, <1>3, <1>4, <2>2, LoadMeans
<1>. QED BY <1>1, <1>2, <1>3, <1>4, MeanQuiet

LEMMA MeanPushStore ==
  ASSUME RenameInv, RenameInv', MeanInv, PushStore PROVE MeanInv'
<1> DEFINE b == Top.bb
           x == Instr.var
           v == Instr.val
           n == Off(prog, code, b)
<1>1. /\ AtInstr({"store"}) /\ Renaming("instrs") /\ NextInstr(TRUE)
      /\ var_val_stack' = Push(var_val_stack, x, v)
      /\ UNCHANGED <<prog, code, phase, todo>>
      /\ Instr.op = "store" /\ Top.i <= Len(code[Top.bb])
  BY DEF PushStore, AtInstr
<1>2. PICK f \in Frames :
        /\ frames' = Append(Front(frames), f)
        /\ f.bb = Top.bb /\ f.kids = Top.kids /\ f.at = "instrs" /\ f.i = Top.i + 1
        /\ f.wait = Top.wait \union {Instr.def}
        /\ Top.i \in 1 .. Len(code[Top.bb])
  BY <1>1, NextInstrFrame
<1>3. /\ AtOne /\ ToNext(f) /\ phase' = "rename" /\ phase = "rename" /\ frames # <<>> /\ Top.at = "instrs"
      /\ Instr = code[b][Top.i]
  BY <1>1, <1>2 DEF AtOne, ToNext, Renaming, Instr
<1>4. /\ Top \in Frames /\ b \in Blocks /\ AsBuilt(prog, code, b) /\ prog \in Programs /\ code \in Codes
      /\ frames \in Seq(Frames) /\ Len(frames) \in 1 .. Len(frames) /\ Top = frames[Len(frames)]
      /\ Open(frames, b) /\ Tree(prog, frames) /\ Built(prog, code, phase, frames)
      /\ var_val_stack \in [Vars -> Seq(Operands)]
  BY <1>3, TopFields DEF RenameInv, Stacks
<1>5. SameShape(code, code')
  BY <1>1 DEF SameShape, SameAccess
<1>6. /\ Done(prog, code, Top) <= Done(prog, code, f)
      /\ \A u : u \in Met(prog, code', frames') <=> u \in Met(prog, code, frames)
  BY <1>1, <1>2, <1>3, MetInstr
<1>7. \A u \in f.wait : u \in Top.wait \/ \E i \in 1 .. Len(code[Top.bb]) :
        code[Top.bb][i].def = u /\ code[Top.bb][i].op \in Accesses
  BY <1>1, <1>2, <1>3 DEF Accesses
<1>8. x \in Vars
  <2>1. code[b][Top.i].op = "store" /\ Top.i \in 1 .. Len(code[b])
    BY <1>1, <1>2, <1>3
  <2>2. code[b][Top.i].var \in Vars
    BY <1>4, <2>1, BuiltFields
  <2>. QED BY <1>3, <2>2
<1>9. /\ var_val_stack'[x] = Append(var_val_stack[x], v)
      /\ \A y \in Vars : y # x => var_val_stack'[y] = var_val_stack[y]
  BY <1>1, <1>4, <1>8 DEF Push
<1>10. \A y \in Vars : \A j \in 1 .. Len(var_val_stack[y]) :
         j <= Len(var_val_stack'[y]) => var_val_stack'[y][j] = var_val_stack[y][j]
  <2>1. \A j \in 1 .. Len(var_val_stack[x]) : Append(var_val_stack[x], v)[j] = var_val_stack[x][j]
    BY <1>4, <1>8
  <2>. QED BY <1>9, <2>1
<1>11. LastOr(var_val_stack'[x]) = v
  <2>1. Len(Append(var_val_stack[x], v)) = Len(var_val_stack[x]) + 1 /\ Len(var_val_stack[x]) \in Nat
        /\ Append(var_val_stack[x], v)[Len(var_val_stack[x]) + 1] = v
    BY <1>4, <1>8
  <2>. QED BY <1>9, <2>1 DEF LastOr, ValueAt
<1>12. Fresh(prog, frames)
  BY <1>3 DEF MeanInv, Running
<1>13. ASSUME NEW R, NEW S, Meaning(prog, PhisAt(code), R, S), MeansNow(prog, code, frames, var_val_stack, R, S)
       PROVE  /\ ValuesMove(code, code', R, Met(prog, code, frames), Met(prog, code', frames'))
              /\ \A y \in Vars : Holds(prog, R, S, f.bb, Done(prog, code, f), y, LastOr(var_val_stack'[y]))
              /\ PairsMean(prog, code', R, S)
  <2>1. /\ Tops(prog, code, frames, var_val_stack, R, S) /\ PairsMean(prog, code, R, S)
        /\ Valued(prog, code, frames, R, Met(prog, code, frames))
    BY <1>13 DEF MeansNow
  <2>2. \A y \in Vars : y # x => Holds(prog, R, S, f.bb, Done(prog, code, f), y, LastOr(var_val_stack'[y]))
    <3>1. ASSUME NEW y \in Vars, y # x
          PROVE  Holds(prog, R, S, f.bb, Done(prog, code, f), y, LastOr(var_val_stack[y]))
      BY <1>3, <2>1, <3>1, HoldsInstr
    <3>. QED BY <1>9, <3>1
  <2>3. Holds(prog, R, S, f.bb, Done(prog, code, f), x, v)
    <3> DEFINE d == Done(prog, code, Top)
               g == Done(prog, code, f)
               u == prog.code[b][g].val
    <3>1. /\ Top.i - n \in 1 .. Len(prog.code[b]) /\ n + (Top.i - n) = Top.i
          /\ d = Top.i - n - 1 /\ g = Top.i - n
          /\ SameAccess(code[b][Top.i], prog.code[b][Top.i - n])
      <4>1. code[b][Top.i].op # "phi"
        BY <1>1, <1>3
      <4>2. /\ f.bb = b /\ f.at = "instrs" /\ Top.at = "instrs" /\ f.i = Top.i + 1 /\ Top.i \in 1 .. Len(code[b])
            /\ f \in Frames
        BY <1>2, <1>3
      <4>. QED BY <1>4, <4>1, <4>2, DoneNext
    <3>2. /\ g \in 1 .. Len(prog.code[b]) /\ d = g - 1 /\ SameAccess(code[b][Top.i], prog.code[b][g])
          /\ n + g = Top.i
      BY <3>1
    <3>. HIDE DEF n
    <3>3. g \in Nat \ {0} /\ g - 1 \in Nat /\ prog.code[b][g].op = "store" /\ prog.code[b][g].var = x
      <4>1. prog.code[b][g].op = "store" /\ prog.code[b][g].var = x
        BY <1>1, <1>3, <3>2 DEF SameAccess
      <4>2. Len(prog.code[b]) \in Nat
        BY <1>4, SourceFields
      <4>. QED BY <3>2, <4>1, <4>2
    <3>4. v = NowIs(R, Met(prog, code, frames), u)
      <4>1. ~Left(prog, frames, b)
        BY <1>4 DEF Left
      <4>2. code[b][n + g].val = NowIs(R, Met(prog, code, frames), u)
        BY <1>4, <2>1, <3>2, <3>3, <4>1 DEF Valued, n
      <4>. QED BY <1>3, <3>2, <4>2
    <3>5. Come(prog, code, frames, b, g - 1)
      <4>1. g - 1 <= d
        BY <3>2, <3>3
      <4>. QED BY <1>4, <4>1 DEF Come
    <3>. HIDE DEF d, g
    <3>6. NowIs(R, Met(prog, code, frames), u) = R[u]
      BY <1>4, <1>12, <1>13, <3>2, <3>3, <3>5, OperandMet
    <3>7. StoreAt(prog, b, g, x)
      BY <3>3 DEF StoreAt
    <3>8. Holds(prog, R, S, b, g, x, R[u])
      BY <3>3, <3>7, HoldsNext
    <3>. QED BY <1>2, <3>4, <3>6, <3>8 DEF g
  <2>4. \A y \in Vars : Holds(prog, R, S, f.bb, Done(prog, code, f), y, LastOr(var_val_stack'[y]))
    BY <1>11, <2>2, <2>3
  <2>5. ValuesMove(code, code, R, Met(prog, code, frames), Met(prog, code', frames'))
    BY <1>6, SameNowOn
  <2>. QED BY <1>1, <2>1, <2>4, <2>5
<1>14. /\ f.at # "phis" /\ Top.at # "kids" /\ UNCHANGED <<prog, todo>>
  BY <1>1, <1>2, <1>3
<1>. QED BY <1>2, <1>3, <1>5, <1>6, <1>7, <1>10, <1>13, <1>14, InnerMeans

LEMMA FedCome ==
  ASSUME RenameInv, phase = "rename", NEW a \in Blocks, NEW b, Fed(prog, frames, a, b)
  PROVE  Come(prog, code, frames, a, Len(prog.code[a]))
<1>1. CASE Left(prog, frames, a)
  BY <1>1 DEF Come
<1>2. ASSUME NEW k \in 1 .. Len(frames), frames[k].bb = a, Feeds(prog, frames[k], b)
      PROVE  Come(prog, code, frames, a, Len(prog.code[a]))
  <2>1. frames[k] \in Frames /\ prog \in Programs /\ code \in Codes
    BY FrameFields DEF RenameInv, Tree
  <2>2. AsBuilt(prog, code, frames[k].bb)
    BY <1>2 DEF RenameInv, Built, Open
  <2>3. frames[k].at \in {"succs", "kids"}
    BY <1>2 DEF Feeds
  <2>4. Done(prog, code, frames[k]) = Len(prog.code[a]) /\ Len(prog.code[a]) \in Nat
    BY <1>2, <2>1, <2>2, <2>3, DoneIs, SourceFields
  <2>5. Len(prog.code[a]) <= Done(prog, code, frames[k])
    BY <2>4
  <2>. QED BY <1>2, <2>5 DEF Come
<1>. QED BY <1>1, <1>2 DEF Fed

\* Where re_name is at a load, nothing that it has replaced became that load.
LEMMA NotThisLoad ==
  ASSUME RenameInv, PhisInv, MeanInv, AtOne, Instr.op = "load",
         NEW R, NEW S, Meaning(prog, PhisAt(code), R, S), PairsMean(prog, code, R, S)
  PROVE  /\ \A u \in Met(prog, code, frames) : R[u] # Instr.def
         /\ \A b \in Blocks : \A i \in 1 .. Len(code[b]) : code[b][i].op = "phi" =>
              \A m \in 1 .. Len(code[b][i].pairs) : code[b][i].pairs[m][1] # Instr.def
<1> DEFINE t == Top.bb
           n == Off(prog, code, t)
           g == Top.i - n
           v == Instr.def
<1>1. /\ phase = "rename" /\ frames # <<>> /\ Top.at = "instrs" /\ Top.i \in 1 .. Len(code[t])
      /\ Instr = code[t][Top.i]
  BY DEF AtOne, Instr
<1>2. /\ Top \in Frames /\ t \in Blocks /\ AsBuilt(prog, code, t) /\ prog \in Programs /\ code \in Codes
      /\ frames \in Seq(Frames) /\ Len(frames) \in 1 .. Len(frames) /\ Top = frames[Len(frames)]
      /\ Open(frames, t) /\ Tree(prog, frames) /\ Built(prog, code, phase, frames)
  BY <1>1, TopFields DEF RenameInv
<1>3. Fresh(prog, frames) /\ PhisRight(prog, code, phase, frames)
  BY <1>1 DEF MeanInv, PhisInv, Running
<1>4. /\ g \in 1 .. Len(prog.code[t]) /\ Done(prog, code, Top) = g - 1 /\ LoadAt(prog, t, g)
      /\ prog.code[t][g].def = v
  <2> DEFINE f == [Top EXCEPT !.i = @ + 1]
  <2>1. f \in Frames /\ f.bb = t /\ f.at = "instrs" /\ f.i = Top.i + 1
    BY <1>1, <1>2, FrameNext
  <2>2. code[t][Top.i].op # "phi"
    BY <1>1
  <2>. HIDE DEF f
  <2>3. g \in 1 .. Len(prog.code[t]) /\ Done(prog, code, Top) = g - 1 /\ SameAccess(code[t][Top.i], prog.code[t][g])
    BY <1>1, <1>2, <2>1, <2>2, DoneNext
  <2>. QED BY <1>1, <2>3 DEF SameAccess, LoadAt
<1>. HIDE DEF g
<1>5. ~Come(prog, code, frames, t, g)
  <2>1. ~Left(prog, frames, t)
    BY <1>2 DEF Left
  <2>2. ASSUME NEW k \in 1 .. Len(frames), frames[k].bb = t PROVE ~(g <= Done(prog, code, frames[k]))
    <3>1. k = Len(frames)
      <4>1. Len(frames) \in Nat
        BY <1>2
      <4>. QED BY <1>2, <2>2, <4>1 DEF Tree
    <3>2. g \in Nat /\ Len(prog.code[t]) \in Nat
      BY <1>2, <1>4, SourceFields
    <3>. QED BY <1>2, <1>4, <3>1, <3>2
  <2>. QED BY <2>1, <2>2 DEF Come
<1>. HIDE DEF v
<1>6. ASSUME NEW u \in Met(prog, code, frames) PROVE R[u] # v
  <2>1. PICK d \in Blocks : \E j \in 1 .. Len(prog.code[d]) :
               LoadAt(prog, d, j) /\ prog.code[d][j].def = u /\ Come(prog, code, frames, d, j)
    BY DEF Met
  <2>2. PICK j \in 1 .. Len(prog.code[d]) :
               LoadAt(prog, d, j) /\ prog.code[d][j].def = u /\ Come(prog, code, frames, d, j)
    BY <2>1
  <2>3. Settled(prog, d, j + 1, R[u])
    <3>1. Loads(prog, R, S, d, j)
      BY <1>2, MeaningFields
    <3>. QED BY <2>2, <3>1 DEF Loads
  <2>4. j \in Nat
    BY <1>2, <2>2, SourceFields
  <2> DEFINE r == R[u]
  <2>5. Settled(prog, d, j + 1, r)
    BY <2>3
  <2>. HIDE DEF r
  <2>6. ASSUME r = prog.code[t][g].def PROVE Come(prog, code, frames, t, g)
    BY <1>2, <1>3, <1>4, <2>2, <2>4, <2>5, <2>6, LoadIsMet
  <2>. QED BY <1>4, <1>5, <2>6 DEF r
<1>7. ASSUME NEW b \in Blocks, NEW i \in 1 .. Len(code[b]), code[b][i].op = "phi",
             NEW m \in 1 .. Len(code[b][i].pairs)
      PROVE  code[b][i].pairs[m][1] # v
  <2> DEFINE w == code[b][i].pairs[m][1]
             a == code[b][i].pairs[m][2]
             k == Len(prog.code[a])
             x == code[b][i].var
  <2>1. a \in Blocks /\ x \in Vars
    <3>1. code[b][i] \in Instructions
      BY <1>2, CodeFields
    <3>2. code[b][i].pairs \in Seq(Operands \X Blocks)
      BY <3>1, InstructionFields
    <3>3. code[b][i].pairs[m] \in Operands \X Blocks
      BY <1>7, <3>2
    <3>4. x \in Vars
      BY <1>3, <1>7 DEF PhisRight
    <3>. QED BY <3>3, <3>4
  <2>2. Fed(prog, frames, a, b)
    <3>1. PhiRight(prog, code, frames, b, code[b][i])
      BY <1>1, <1>3, <1>7 DEF PhisRight
    <3>2. PairOf(code[b][i], a)
      BY <1>7 DEF PairOf
    <3>. QED BY <2>1, <3>1, <3>2 DEF PhiRight
  <2>3. Come(prog, code, frames, a, k)
    BY <1>1, <2>1, <2>2, FedCome
  <2>4. Holds(prog, R, S, a, k, x, w)
    BY <1>7 DEF PairsMean
  <2>5. k \in Nat
    BY <1>2, <2>1, SourceFields
  <2>. HIDE DEF k, w, a, x
  <2>6. Settled(prog, a, k + 1, w)
    <3>1. k \in 0 .. Len(prog.code[a])
      BY <2>5 DEF k
    <3>. QED BY <1>2, <2>1, <2>4, <3>1, MeaningFields
  <2>7. ASSUME w = prog.code[t][g].def PROVE Come(prog, code, frames, t, g)
    BY <1>2, <1>3, <1>4, <2>1, <2>3, <2>5, <2>6, <2>7, LoadIsMet
  <2>. QED BY <1>4, <1>5, <2>7 DEF w
<1>. QED BY <1>6, <1>7 DEF v

LEMMA MeanReplaceLoad ==
  ASSUME RenameInv, RenameInv', PhisInv, MeanInv, ReplaceLoad PROVE MeanInv'
<1> DEFINE b == Top.bb
           x == Instr.var
           v == Instr.def
           w == Last(var_val_stack[x])
<1>1. /\ Renaming("instrs") /\ Top.i <= Len(code[Top.bb]) /\ Instr.op = "load" /\ AtInstr({"load"})
      /\ phase = "rename" /\ frames # <<>> /\ Top.at = "instrs" /\ NextInstr(TRUE) /\ x \in known
      /\ UNCHANGED <<prog, todo, var_val_stack, known>>
  BY DEF ReplaceLoad, AtInstr, Renaming
<1>2. PICK f \in Frames :
        /\ frames' = Append(Front(frames), f)
        /\ f.bb = Top.bb /\ f.kids = Top.kids /\ f.at = "instrs" /\ f.i = Top.i + 1
        /\ f.wait = Top.wait \union {v}
        /\ Top.i \in 1 .. Len(code[Top.bb])
  BY <1>1, NextInstrFrame
<1>3. /\ AtOne /\ ToNext(f) /\ Instr.op # "store" /\ Instr.op \in Accesses /\ Instr = code[b][Top.i]
  BY <1>1, <1>2 DEF AtOne, ToNext, Accesses, Instr
<1>4. /\ prog \in Programs /\ code \in Codes /\ x \in Vars /\ var_val_stack[x] \in Seq(Operands)
      /\ b \in Blocks
  BY <1>1, TopFields DEF RenameInv, Stacks
<1>5. CASE ~(var_val_stack[x] # <<>> /\ w # v)
  <2>1. UNCHANGED code /\ phase' \in {"rename", "fault"}
    BY <1>1, <1>5 DEF ReplaceLoad
  <2>2. CASE phase' = "fault"
    BY <2>2 DEF MeanInv, Running
  <2>3. CASE phase' = "rename"
    <3>1. \A u \in f.wait : u \in Top.wait \/ (u = Instr.def /\ Instr.op \in Accesses)
      BY <1>2, <1>3
    <3>2. ASSUME NEW R, NEW S, Meaning(prog, PhisAt(code), R, S), Tops(prog, code, frames, var_val_stack, R, S)
          PROVE  R[Instr.def] = Instr.def
      <4>1. LastOr(var_val_stack[x]) = NoValue \/ LastOr(var_val_stack[x]) = v
        BY <1>4, <1>5 DEF LastOr, ValueAt, Last
      <4>. QED BY <1>1, <1>3, <3>2, <4>1, LoadMeans
    <3>. QED BY <1>1, <1>2, <1>3, <2>1, <2>3, <3>1, <3>2, MeanQuiet
  <2>. QED BY <2>1, <2>2, <2>3
<1>6. CASE var_val_stack[x] # <<>> /\ w # v
  <2>1. code' = ReplaceAllUses(v, w) /\ phase' = "rename"
    BY <1>1, <1>6 DEF ReplaceLoad
  <2>2. w \in Operands /\ LastOr(var_val_stack[x]) = w /\ w # NoValue
    BY <1>4, <1>6, OperandKinds DEF LastOr, ValueAt, Last
  <2>. HIDE DEF w, v
  <2>3. /\ code' \in Codes /\ SameShape(code, code')
        /\ \A d \in Blocks : \A i \in 1 .. Len(code[d]) :
             code'[d][i].val = IF code[d][i].val = v THEN w ELSE code[d][i].val
    BY <1>4, <2>1, <2>2, Replaced
  <2>4. /\ Done(prog, code, Top) <= Done(prog, code, f)
        /\ \A u : u \in Met(prog, code', frames') <=> u \in Met(prog, code, frames) \/ u = v
    <3>1. \A d \in Blocks : Len(code'[d]) = Len(code[d])
      BY <2>3 DEF SameShape
    <3>. QED BY <1>1, <1>2, <1>3, <3>1, MetInstr DEF v
  <2>5. \A u \in f.wait : u \in Top.wait \/ \E i \in 1 .. Len(code[Top.bb]) :
          code[Top.bb][i].def = u /\ code[Top.bb][i].op \in Accesses
    BY <1>2, <1>3 DEF v
  <2>6. \A y \in Vars : \A j \in 1 .. Len(var_val_stack[y]) :
          j <= Len(var_val_stack'[y]) => var_val_stack'[y][j] = var_val_stack[y][j]
    BY <1>1
  <2>7. ASSUME NEW R, NEW S, Meaning(prog, PhisAt(code), R, S), MeansNow(prog, code, frames, var_val_stack, R, S)
        PROVE  /\ ValuesMove(code, code', R, Met(prog, code, frames), Met(prog, code', frames'))
               /\ \A y \in Vars : Holds(prog, R, S, f.bb, Done(prog, code, f), y, LastOr(var_val_stack'[y]))
               /\ PairsMean(prog, code', R, S)
    <3> DEFINE W == Met(prog, code, frames)
               W2 == Met(prog, code', frames')
    <3>1. Tops(prog, code, frames, var_val_stack, R, S) /\ PairsMean(prog, code, R, S)
      BY <2>7 DEF MeansNow
    <3>2. \A y \in Vars : Holds(prog, R, S, f.bb, Done(prog, code, f), y, LastOr(var_val_stack'[y]))
      <4>1. ASSUME NEW y \in Vars
            PROVE  Holds(prog, R, S, f.bb, Done(prog, code, f), y, LastOr(var_val_stack[y]))
        BY <1>3, <3>1, HoldsInstr
      <4>. QED BY <1>1, <4>1
    <3>3. R[v] = w
      BY <1>1, <1>3, <2>2, <2>7, <3>1, LoadMeans DEF v
    <3>4. /\ \A u \in W : R[u] # v
          /\ \A d \in Blocks : \A i \in 1 .. Len(code[d]) : code[d][i].op = "phi" =>
               \A m \in 1 .. Len(code[d][i].pairs) : code[d][i].pairs[m][1] # v
      BY <1>1, <1>3, <2>7, <3>1, NotThisLoad DEF v
    <3>5. ValuesMove(code, code', R, W, W2)
      <4>1. \A u : u \in W2 <=> u \in W \/ u = v
        BY <2>4
      <4>. HIDE DEF W, W2
      <4>2. ASSUME NEW d \in Blocks, NEW i \in 1 .. Len(code[d]), NEW u \in Operands,
                   code[d][i].val = NowIs(R, W, u)
            PROVE  code'[d][i].val = NowIs(R, W2, u)
        <5>1. code'[d][i].val = IF code[d][i].val = v THEN w ELSE code[d][i].val
          BY <2>3, <4>2
        <5>2. CASE u = v
          BY <3>3, <4>1, <4>2, <5>1, <5>2 DEF NowIs
        <5>3. CASE u # v
          BY <3>4, <4>1, <4>2, <5>1, <5>3 DEF NowIs
        <5>. QED BY <5>2, <5>3
      <4>. QED BY <4>2 DEF ValuesMove
    <3>6. PairsMean(prog, code', R, S)
      <4>1. ASSUME NEW d \in Blocks, NEW i \in 1 .. Len(code'[d]), code'[d][i].op = "phi",
                   NEW m \in 1 .. Len(code'[d][i].pairs)
            PROVE  LET pair == code'[d][i].pairs[m]
                   IN  Holds(prog, R, S, pair[2], Len(prog.code[pair[2]]), code'[d][i].var, pair[1])
        <5> DEFINE ins == code[d][i]
        <5>1. i \in 1 .. Len(code[d]) /\ SameAccess(code'[d][i], ins)
          BY <2>3, <4>1 DEF SameShape
        <5>2. ins \in Instructions /\ DOMAIN code[d] = 1 .. Len(code[d])
          BY <1>4, <5>1, CodeFields
        <5>3. code'[d][i] = Redirect(ins, v, w)
          BY <2>1, <5>1, <5>2 DEF ReplaceAllUses
        <5>. HIDE DEF ins
        <5>4. /\ Len(code'[d][i].pairs) = Len(ins.pairs)
              /\ \A j \in 1 .. Len(ins.pairs) : code'[d][i].pairs[j] =
                   IF ins.pairs[j][1] = v THEN <<w, ins.pairs[j][2]>> ELSE ins.pairs[j]
          BY <2>2, <5>2, <5>3, Redirected
        <5>5. ins.op = "phi" /\ m \in 1 .. Len(ins.pairs) /\ ins.var = code'[d][i].var
          BY <4>1, <5>1, <5>4 DEF SameAccess
        <5>6. ins.pairs[m][1] # v
          BY <3>4, <5>1, <5>5 DEF ins
        <5>7. code'[d][i].pairs[m] = ins.pairs[m]
          BY <5>4, <5>5, <5>6
        <5>8. LET pair == ins.pairs[m]
              IN  Holds(prog, R, S, pair[2], Len(prog.code[pair[2]]), ins.var, pair[1])
          BY <3>1, <5>1, <5>5 DEF PairsMean, ins
        <5>. QED BY <5>5, <5>7, <5>8
      <4>. QED BY <4>1 DEF PairsMean
    <3>. QED BY <3>2, <3>5, <3>6
  <2>8. /\ f.at # "phis" /\ Top.at # "kids" /\ UNCHANGED <<prog, todo>>
    BY <1>1, <1>2, <1>3
  <2>. QED BY <1>1, <1>2, <2>1, <2>3, <2>4, <2>5, <2>6, <2>7, <2>8, InnerMeans
<1>. QED BY <1>5, <1>6

\* The innermost call does not come by an instruction.
LEMMA MetSame ==
  ASSUME RenameInv, frames # <<>>, NEW f \in Frames, f.bb = Top.bb, f.kids = Top.kids,
         Done(prog, code, f) = Done(prog, code, Top), NEW e, \A b \in Blocks : Len(e[b]) = Len(code[b])
  PROVE  \A v : v \in Met(prog, e, Append(Front(frames), f)) <=> v \in Met(prog, code, frames)
<1> DEFINE d == Done(prog, code, Top)
           b == Top.bb
<1>1. /\ frames \in Seq(Frames) /\ Top = Last(frames) /\ Top \in Frames /\ b \in Blocks
      /\ AsBuilt(prog, code, b) /\ prog \in Programs /\ code \in Codes
      /\ Len(frames) \in 1 .. Len(frames) /\ Top = frames[Len(frames)]
  BY TopFields DEF Top, RenameInv
<1>2. d \in Nat /\ d <= d
  <2>1. d \in 0 .. Len(prog.code[b])
    BY <1>1, DoneIs
  <2>2. Len(prog.code[b]) \in Nat
    BY <1>1, SourceFields
  <2>. QED BY <2>1, <2>2
<1>3. MetGrows(prog, code, frames, f, Met(prog, e, Append(Front(frames), f)))
  BY <1>1, <1>2, MetMoves
<1>4. ASSUME NEW j \in 1 .. Len(prog.code[b]), LoadAt(prog, b, j), j <= d
      PROVE  prog.code[b][j].def \in Met(prog, code, frames)
  <2>1. Come(prog, code, frames, b, j)
    BY <1>1, <1>4 DEF Come
  <2>. QED BY <1>1, <1>4, <2>1, MetFields
<1>. HIDE DEF d
<1>5. \A v : v \in Met(prog, e, Append(Front(frames), f)) <=>
        \/ v \in Met(prog, code, frames)
        \/ \E j \in 1 .. Len(prog.code[b]) : LoadAt(prog, b, j) /\ prog.code[b][j].def = v /\ j <= d
  BY <1>3 DEF MetGrows, d
<1>. QED BY <1>4, <1>5

\* Steps to another loop, and steps over the successors.
LEMMA MeanStays ==
  ASSUME RenameInv, RenameInv', MeanInv, phase = "rename", phase' = "rename", frames # <<>>,
         UNCHANGED <<prog, todo>>, SameShape(code, code'),
         \A b \in Blocks : \A i \in 1 .. Len(code[b]) : code'[b][i].val = code[b][i].val,
         NEW f \in Frames, frames' = Append(Front(frames), f), f.bb = Top.bb, f.kids = Top.kids,
         Top.at # "kids", f.at # "phis", f.wait = Top.wait,
         \A x \in Vars : \A j \in 1 .. Len(var_val_stack[x]) :
           j <= Len(var_val_stack'[x]) => var_val_stack'[x][j] = var_val_stack[x][j],
         Done(prog, code, f) = Done(prog, code, Top),
         \A R, S : Meaning(prog, PhisAt(code), R, S) /\ MeansNow(prog, code, frames, var_val_stack, R, S) =>
           /\ \A x \in Vars : Holds(prog, R, S, Top.bb, Done(prog, code, Top), x, LastOr(var_val_stack'[x]))
           /\ PairsMean(prog, code', R, S)
  PROVE  MeanInv'
<1>1. Done(prog, code, Top) <= Done(prog, code, f)
  <2>1. /\ Top \in Frames /\ AsBuilt(prog, code, Top.bb) /\ prog \in Programs /\ code \in Codes
        /\ Top.bb \in Blocks
    BY TopFields DEF RenameInv
  <2>2. Done(prog, code, Top) \in 0 .. Len(prog.code[Top.bb]) /\ Len(prog.code[Top.bb]) \in Nat
    BY <2>1, DoneIs, SourceFields
  <2>. QED BY <2>2
<1>2. \A v \in f.wait : v \in Top.wait \/ \E i \in 1 .. Len(code[Top.bb]) :
        code[Top.bb][i].def = v /\ code[Top.bb][i].op \in Accesses
  OBVIOUS
<1>3. \A v : v \in Met(prog, code', frames') <=> v \in Met(prog, code, frames)
  <2>1. \A b \in Blocks : Len(code'[b]) = Len(code[b])
    BY DEF SameShape
  <2>. QED BY <2>1, MetSame
<1>4. ASSUME NEW R, NEW S, Meaning(prog, PhisAt(code), R, S), MeansNow(prog, code, frames, var_val_stack, R, S)
      PROVE  /\ ValuesMove(code, code', R, Met(prog, code, frames), Met(prog, code', frames'))
             /\ \A x \in Vars : Holds(prog, R, S, f.bb, Done(prog, code, f), x, LastOr(var_val_stack'[x]))
             /\ PairsMean(prog, code', R, S)
  <2>1. ValuesMove(code, code, R, Met(prog, code, frames), Met(prog, code', frames'))
    BY <1>3, SameNowOn
  <2>2. ValuesMove(code, code', R, Met(prog, code, frames), Met(prog, code', frames'))
    BY <2>1 DEF ValuesMove
  <2>. QED BY <1>4, <2>2
<1>. QED BY <1>1, <1>2, <1>4, InnerMeans

LEMMA MeanDone ==
  ASSUME RenameInv, RenameInv', MeanInv, phase = "rename", frames # <<>>,
         UNCHANGED <<prog, code, phase, todo, var_val_stack>>,
         Top.at = "succs" \/ (Top.at = "instrs" /\ Top.i > Len(code[Top.bb])),
         NEW f \in Frames, frames' = Append(Front(frames), f),
         f.bb = Top.bb, f.kids = Top.kids, f.at \in {"succs", "kids"}, f.wait = Top.wait
  PROVE  MeanInv'
<1>1. Done(prog, code, f) = Done(prog, code, Top)
  <2>1. /\ Top \in Frames /\ AsBuilt(prog, code, Top.bb) /\ prog \in Programs /\ code \in Codes
    BY TopFields DEF RenameInv
  <2>. QED BY <2>1, DoneIs
<1>2. SameShape(code, code')
  BY DEF SameShape, SameAccess
<1>3. ASSUME NEW R, NEW S, Meaning(prog, PhisAt(code), R, S), MeansNow(prog, code, frames, var_val_stack, R, S)
      PROVE  /\ \A x \in Vars : Holds(prog, R, S, Top.bb, Done(prog, code, Top), x, LastOr(var_val_stack'[x]))
             /\ PairsMean(prog, code', R, S)
  <2>1. Tops(prog, code, frames, var_val_stack, R, S) /\ PairsMean(prog, code, R, S)
    BY <1>3 DEF MeansNow
  <2>2. ASSUME NEW x \in Vars
        PROVE  Holds(prog, R, S, Top.bb, Done(prog, code, Top), x, LastOr(var_val_stack[x]))
    BY <2>1, TopHolds
  <2>. QED BY <2>1, <2>2
<1>4. /\ \A b \in Blocks : \A i \in 1 .. Len(code[b]) : code'[b][i].val = code[b][i].val
      /\ \A x \in Vars : \A j \in 1 .. Len(var_val_stack[x]) :
           j <= Len(var_val_stack'[x]) => var_val_stack'[x][j] = var_val_stack[x][j]
      /\ phase' = "rename" /\ Top.at # "kids" /\ f.at # "phis"
  OBVIOUS
<1>. QED BY <1>1, <1>2, <1>3, <1>4, MeanStays

LEMMA MeanInstrsDone ==
  ASSUME RenameInv, RenameInv', MeanInv, InstrsDone PROVE MeanInv'
<1> DEFINE f == [Top EXCEPT !.at = "succs", !.i = 1]
<1>1. /\ phase = "rename" /\ frames # <<>> /\ Top.at = "instrs" /\ Top.i > Len(code[Top.bb])
      /\ frames' = Append(Front(frames), f)
      /\ UNCHANGED <<prog, code, phase, todo, var_val_stack, known>>
  BY DEF InstrsDone, Renaming, SetTop
<1>2. /\ f \in Frames /\ f.bb = Top.bb /\ f.kids = Top.kids /\ f.at = "succs" /\ f.i = 1
      /\ f.wait = Top.wait
  <2>1. Top \in Frames
    BY <1>1, TopFields
  <2>. QED BY <2>1, FrameSuccs, ZenonT(60)
<1>. HIDE DEF f
<1>. QED BY <1>1, <1>2, MeanDone

LEMMA MeanSuccsDone ==
  ASSUME RenameInv, RenameInv', MeanInv, SuccsDone PROVE MeanInv'
<1> DEFINE f == [Top EXCEPT !.at = "kids"]
<1>1. /\ phase = "rename" /\ frames # <<>> /\ Top.at = "succs"
      /\ frames' = Append(Front(frames), f)
      /\ UNCHANGED <<prog, code, phase, todo, var_val_stack, known>>
  BY DEF SuccsDone, Renaming, SetTop
<1>2. f \in Frames /\ f.bb = Top.bb /\ f.kids = Top.kids /\ f.at = "kids" /\ f.wait = Top.wait
  BY <1>1, TopFields, FrameAt
<1>. HIDE DEF f
<1>. QED BY <1>1, <1>2, MeanDone

(***************************************************************************)
(* A call pushes its phis: where a block has none for a variable, what is  *)
(* on top is what its parent in the dominator tree ended with.             *)
(***************************************************************************)
LEMMA ParentTop ==
  ASSUME RenameInv, phase = "rename", frames # <<>>, Top.at = "phis",
         NEW R, NEW S, Meaning(prog, PhisAt(code), R, S), Tops(prog, code, frames, var_val_stack, R, S),
         NEW x \in Vars, ~PhiIn(code, Top.bb, x)
  PROVE  LastOr(var_val_stack[x]) = S[Top.bb][x]
<1> DEFINE n == Len(frames)
           b == Top.bb
<1>1. /\ frames \in Seq(Frames) /\ n \in Nat \ {0} /\ n \in 1 .. n /\ Top = frames[n] /\ b \in Blocks
      /\ prog \in Programs /\ code \in Codes /\ Tree(prog, frames)
  BY TopFields DEF RenameInv
<1>2. PICK base : BasesOf(code, frames, var_val_stack, base)
  BY DEF RenameInv, Stacks, Pushed, BasesOf
<1>3. Len(var_val_stack[x]) = base[n][x]
  <2>1. Pushes(code, Top, x) = {}
    BY DEF Pushes, Ran
  <2>2. Cardinality({}) = 0
    BY FS_EmptySet
  <2>3. base[n + 1][x] = base[n][x] + Cardinality(Pushes(code, Top, x))
    BY <1>1, <1>2 DEF BasesOf, Heights
  <2>4. base[n][x] \in Nat
    <3>1. n \in 1 .. n + 1
      BY <1>1
    <3>. QED BY <1>2, <3>1 DEF BasesOf, Heights
  <2>5. base[n + 1][x] = Len(var_val_stack[x])
    BY <1>2 DEF BasesOf
  <2>. QED BY <2>1, <2>2, <2>3, <2>4, <2>5
<1>4. Starts(prog, PhisAt(code), R, S, b, x) /\ <<b, x>> \notin PhisAt(code)
  BY <1>1, MeaningFields, DefinesHasDef
<1>5. CASE n = 1
  <2>1. b = Entry
    BY <1>1, <1>5 DEF Tree
  <2>2. base[n][x] = 0
    BY <1>2, <1>5 DEF BasesOf, Heights
  <2>3. LastOr(var_val_stack[x]) = NoValue
    BY <1>3, <2>2 DEF LastOr, ValueAt
  <2>4. \A d \in Blocks : ~SDom(prog, d, Entry)
    BY <1>1, DomOrder DEF SDom
  <2>5. S[b][x] = NoValue
    BY <1>4, <2>1, <2>4 DEF Starts
  <2>. QED BY <2>3, <2>5
<1>6. CASE n # 1
  <2> DEFINE k == n - 1
             t == frames[k].bb
             w == LastOr(var_val_stack[x])
  <2>1. k \in 1 .. n /\ k < n /\ k + 1 = n
    <3>1. n \in Nat \ {0} /\ n # 1
      BY <1>1, <1>6
    <3>. HIDE DEF n
    <3>. QED BY <3>1
  <2>2. frames[k].at = "kids" /\ SDom(prog, t, b) /\ t \in Blocks /\ frames[k] \in Frames
    <3>1. frames[k].at = "kids" /\ frames[k].bb # frames[n].bb /\ Dom(prog, frames[k].bb, frames[n].bb)
      BY <1>1, <2>1 DEF Tree
    <3>2. frames[k] \in Frames /\ frames[k].bb \in Blocks
      BY <1>1, <2>1, FrameFields
    <3>. QED BY <1>1, <3>1, <3>2 DEF SDom
  <2>3. ASSUME NEW d \in Blocks, SDom(prog, d, b) PROVE Dom(prog, d, t)
    <3>1. PICK m \in 1 .. n : frames[m].bb = d
      BY <1>1, <2>3 DEF Tree, SDom
    <3>2. m # n
      BY <1>1, <2>3, <3>1 DEF SDom
    <3>3. CASE m = k
      BY <1>1, <2>3, <3>1, <3>3, DomOrder
    <3>4. CASE m # k
      <4>1. m < k
        BY <1>1, <3>2, <3>4
      <4>. QED BY <1>1, <2>1, <3>1, <4>1 DEF Tree
    <3>. QED BY <3>3, <3>4
  <2>4. Holds(prog, R, S, t, Done(prog, code, frames[k]), x, ValueAt(var_val_stack[x], base[k + 1][x]))
    BY <1>2, <2>1, <2>2 DEF Tops, TopIs
  <2>5. Done(prog, code, frames[k]) = Len(prog.code[t])
    <3>1. AsBuilt(prog, code, t)
      <4>1. Open(frames, t)
        BY <2>1 DEF Open
      <4>. QED BY <2>2, <4>1 DEF RenameInv, Built
    <3>. QED BY <1>1, <2>2, <3>1, DoneIs
  <2>6. Holds(prog, R, S, t, Len(prog.code[t]), x, w)
    BY <1>3, <2>1, <2>4, <2>5 DEF LastOr
  <2>. HIDE DEF k, t, w
  <2>7. Holds(prog, R, S, t, Len(prog.code[t]), x, S[b][x])
    BY <1>1, <1>4, <2>2, <2>3, ParentHolds
  <2>8. Len(prog.code[t]) \in Nat
    BY <1>1, <2>2, SourceFields
  <2>9. w = S[b][x]
    BY <2>6, <2>7, <2>8, HoldsUnique
  <2>. QED BY <2>9 DEF w
<1>. QED BY <1>5, <1>6

LEMMA MeanPushPhis ==
  ASSUME RenameInv, RenameInv', MeanInv, PushPhis PROVE MeanInv'
<1> DEFINE f == [Top EXCEPT !.at = "instrs"]
           b == Top.bb
           more == [x \in Vars |-> IF HasPhi(b, x) THEN <<Phi(b, x).def>> ELSE <<>>]
<1>1. /\ phase = "rename" /\ frames # <<>> /\ Top.at = "phis"
      /\ frames' = Append(Front(frames), f) /\ UNCHANGED <<prog, code, phase, todo>>
      /\ var_val_stack' = [x \in Vars |-> var_val_stack[x] \o more[x]]
  BY DEF PushPhis, Renaming, SetTop
<1>2. /\ Top \in Frames /\ b \in Blocks /\ AsBuilt(prog, code, b)
      /\ code[b] \in Seq(Instructions) /\ DOMAIN code[b] = 1 .. Len(code[b])
      /\ prog \in Programs /\ code \in Codes
  BY <1>1, TopFields DEF RenameInv
<1>3. f \in Frames /\ f.bb = Top.bb /\ f.kids = Top.kids /\ f.at = "instrs" /\ f.wait = Top.wait /\ f.i = Top.i
  BY <1>2, FrameAt
<1>4. Top.i = 1
  BY <1>1, <1>2 DEF Frames
<1>5. ASSUME NEW x \in Vars
      PROVE  /\ more[x] = IF PhiIn(code, b, x) THEN <<<<"phi", b, x>>>> ELSE <<>>
             /\ var_val_stack[x] \in Seq(Operands)
  <2>1. HasPhi(b, x) <=> PhiIn(code, b, x)
    BY <1>2 DEF HasPhi, Phis, Instrs, Range, PhiIn
  <2>2. var_val_stack[x] \in Seq(Operands)
    BY DEF RenameInv, Stacks
  <2>. QED BY <2>1, <2>2 DEF Phi
<1>6. ASSUME NEW x \in Vars
      PROVE  /\ PhiIn(code, b, x) => LastOr(var_val_stack'[x]) = <<"phi", b, x>>
             /\ ~PhiIn(code, b, x) => var_val_stack'[x] = var_val_stack[x]
             /\ \A j \in 1 .. Len(var_val_stack[x]) : var_val_stack'[x][j] = var_val_stack[x][j]
  <2> DEFINE s == var_val_stack[x]
             v == <<"phi", b, x>>
  <2>1. s \in Seq(Operands) /\ var_val_stack'[x] = s \o more[x]
    BY <1>1, <1>5
  <2>2. more[x] = IF PhiIn(code, b, x) THEN <<v>> ELSE <<>>
    BY <1>5
  <2>3. v \in Operands
    BY <1>2, OperandKinds
  <2>. HIDE DEF s, v, more
  <2>4. /\ s \o <<>> = s
        /\ Len(s \o <<v>>) = Len(s) + 1 /\ (s \o <<v>>)[Len(s) + 1] = v
        /\ \A j \in 1 .. Len(s) : (s \o <<v>>)[j] = s[j]
    <3>1. Len(s) \in Nat
      BY <2>1
    <3>. QED BY <2>1, <2>3, <3>1
  <2>5. LastOr(s \o <<v>>) = v
    <3>1. Len(s) \in Nat /\ Len(s) + 1 # 0
      BY <2>1
    <3>. QED BY <2>4, <3>1 DEF LastOr, ValueAt
  <2>. QED BY <2>1, <2>2, <2>4, <2>5 DEF s, v
<1>. HIDE DEF f, more
<1>7. Done(prog, code, Top) = 0 /\ Done(prog, code, f) = 0
  BY <1>1, <1>2, <1>3, <1>4, DoneIs
<1>8. ASSUME NEW R, NEW S, Meaning(prog, PhisAt(code), R, S), MeansNow(prog, code, frames, var_val_stack, R, S)
      PROVE  /\ \A x \in Vars : Holds(prog, R, S, Top.bb, Done(prog, code, Top), x, LastOr(var_val_stack'[x]))
             /\ PairsMean(prog, code', R, S)
  <2>1. Tops(prog, code, frames, var_val_stack, R, S) /\ PairsMean(prog, code, R, S)
    BY <1>8 DEF MeansNow
  <2>2. ASSUME NEW x \in Vars PROVE LastOr(var_val_stack'[x]) = S[b][x]
    <3>1. CASE PhiIn(code, b, x)
      <4>1. Starts(prog, PhisAt(code), R, S, b, x) /\ <<b, x>> \in PhisAt(code)
        BY <1>2, <1>8, <3>1, MeaningFields, DefinesHasDef
      <4>. QED BY <1>6, <3>1, <4>1 DEF Starts
    <3>2. CASE ~PhiIn(code, b, x)
      <4>1. LastOr(var_val_stack[x]) = S[b][x]
        BY <1>1, <1>8, <2>1, <3>2, ParentTop
      <4>. QED BY <1>6, <3>2, <4>1
    <3>. QED BY <3>1, <3>2
  <2>3. \A x \in Vars : Holds(prog, R, S, Top.bb, Done(prog, code, Top), x, LastOr(var_val_stack'[x]))
    BY <1>7, <2>2, HoldsStart
  <2>. QED BY <1>1, <2>1, <2>3
<1>9. SameShape(code, code')
  BY <1>1 DEF SameShape, SameAccess
<1>10. /\ \A c \in Blocks : \A i \in 1 .. Len(code[c]) : code'[c][i].val = code[c][i].val
       /\ \A x \in Vars : \A j \in 1 .. Len(var_val_stack[x]) :
           j <= Len(var_val_stack'[x]) => var_val_stack'[x][j] = var_val_stack[x][j]
       /\ phase' = "rename" /\ Top.at # "kids" /\ f.at # "phis"
       /\ Done(prog, code, f) = Done(prog, code, Top) /\ UNCHANGED <<prog, todo>>
  BY <1>1, <1>3, <1>6, <1>7
<1>. QED BY <1>1, <1>3, <1>8, <1>9, <1>10, MeanStays

LEMMA LastOfSome ==
  ASSUME NEW s \in Seq(Operands), s # <<>>
  PROVE  LastOr(s) = Last(s)
<1>1. Len(s) # 0 /\ Last(s) = s[Len(s)]
  BY DEF Last
<1>. QED BY <1>1 DEF LastOr, ValueAt

\* A pair names what the variable holds at the end of the block it names.
LEMMA MeanFillPhis ==
  ASSUME RenameInv, RenameInv', MeanInv, FillPhis PROVE MeanInv'
<1> DEFINE t == Top.bb
           s == prog.succ[t][Top.i]
           f == [Top EXCEPT !.i = @ + 1]
           empty == \E ins \in Phis(s) : ins.var \in known /\ var_val_stack[ins.var] = <<>>
           e == [code EXCEPT ![s] = [i \in DOMAIN @ |-> Filled(@[i])]]
<1>1. /\ phase = "rename" /\ frames # <<>> /\ Top.at = "succs" /\ Top.i <= Len(prog.succ[t])
      /\ frames' = Append(Front(frames), f) /\ UNCHANGED <<prog, todo, var_val_stack, known>>
  BY DEF FillPhis, Renaming, SetTop
<1>2. /\ frames \in Seq(Frames) /\ Len(frames) \in 1 .. Len(frames) /\ Top = frames[Len(frames)]
      /\ Top \in Frames /\ t \in Blocks /\ Top.i \in Nat \ {0} /\ AsBuilt(prog, code, t)
      /\ prog \in Programs /\ code \in Codes /\ known \subseteq Vars
  BY <1>1, TopFields DEF RenameInv
<1>3. /\ f \in Frames /\ f.bb = t /\ f.kids = Top.kids /\ f.at = "succs" /\ f.wait = Top.wait
  BY <1>1, <1>2, FrameNext
<1>4. s \in Blocks
  <2>1. prog.succ[t] \in Seq(Blocks)
    BY <1>2, ProgramFields
  <2>2. Top.i \in 1 .. Len(prog.succ[t])
    BY <1>1, <1>2, <2>1
  <2>. QED BY <2>1, <2>2
<1>7. (empty => phase' = "assert") /\ (~empty => code' = e /\ phase' = "rename")
  BY <1>1 DEF FillPhis
<1>. HIDE DEF f, s
<1>5. CASE empty
  BY <1>5, <1>7 DEF MeanInv, Running
<1>6. CASE ~empty
  <2>1. code' = e /\ phase' = "rename"
    BY <1>6, <1>7
  <2>2. /\ DOMAIN code[s] = 1 .. Len(code[s]) /\ Len(code[s]) \in Nat
        /\ \A i \in 1 .. Len(code[s]) : code[s][i] \in Instructions
    BY <1>2, <1>4, CodeFields
  <2>3. e = [b \in Blocks |-> IF b = s THEN [i \in 1 .. Len(code[s]) |-> Filled(code[s][i])] ELSE code[b]]
    BY <1>2, <2>2 DEF Codes
  <2>. HIDE DEF e
  <2>4. ASSUME NEW ins \in Range(code[s]), ins.op = "phi", ins.var \in known
        PROVE  /\ ins.var \in Vars /\ var_val_stack[ins.var] \in Seq(Operands)
               /\ LastOr(var_val_stack[ins.var]) = Last(var_val_stack[ins.var])
               /\ Last(var_val_stack[ins.var]) \in Operands
    <3>1. ins \in Phis(s)
      BY <2>4 DEF Phis, Instrs
    <3>2. ins.var \in Vars /\ var_val_stack[ins.var] # <<>>
      BY <1>2, <1>6, <2>4, <3>1
    <3>3. var_val_stack[ins.var] \in Seq(Operands)
      BY <3>2 DEF RenameInv, Stacks
    <3>4. Last(var_val_stack[ins.var]) \in Operands
      BY <1>1, <1>2, <3>2, StackTop DEF RenameInv
    <3>. QED BY <3>2, <3>3, <3>4, LastOfSome
  <2>5. ASSUME NEW i \in 1 .. Len(code[s])
        PROVE  LET ins == code[s][i]
               IN  /\ ins \in Instructions /\ ins \in Range(code[s])
                   /\ SameAccess(Filled(ins), ins) /\ Filled(ins).val = ins.val
                   /\ ins.op = "phi" /\ ins.var \in known =>
                        Filled(ins).pairs = Append(ins.pairs, <<Last(var_val_stack[ins.var]), Top.bb>>)
                   /\ ~(ins.op = "phi" /\ ins.var \in known) => Filled(ins) = ins
    <3> DEFINE ins == code[s][i]
    <3>1. ins \in Instructions /\ ins \in Range(code[s])
      BY <1>4, <2>2 DEF Range
    <3>. HIDE DEF ins
    <3>2. ins.op = "phi" /\ ins.var \in known => Last(var_val_stack[ins.var]) \in Operands
      BY <2>4, <3>1
    <3>3. /\ SameAccess(Filled(ins), ins) /\ Filled(ins).val = ins.val
          /\ ins.op = "phi" /\ ins.var \in known =>
               Filled(ins).pairs = Append(ins.pairs, <<Last(var_val_stack[ins.var]), Top.bb>>)
          /\ ~(ins.op = "phi" /\ ins.var \in known) => Filled(ins) = ins
      BY <1>2, <3>1, <3>2, FilledFields
    <3>. QED BY <3>1, <3>3 DEF ins
  <2>6. /\ Len(e[s]) = Len(code[s])
        /\ \A i \in 1 .. Len(code[s]) : e[s][i] = Filled(code[s][i])
        /\ \A b \in Blocks : b # s => e[b] = code[b]
    <3> DEFINE m == Len(code[s])
               r == e[s]
    <3>1. m \in Nat
      BY <2>2
    <3>2. e[s] = [i \in 1 .. m |-> Filled(code[s][i])] /\ \A b \in Blocks : b # s => e[b] = code[b]
      BY <1>4, <2>3
    <3>. HIDE DEF m
    <3>3. r = [i \in 1 .. m |-> Filled(code[s][i])]
      BY <3>2
    <3>4. Len(r) = m /\ \A i \in 1 .. m : r[i] = Filled(code[s][i])
      <4>. HIDE DEF r
      <4>. QED BY <3>1, <3>3
    <3>. QED BY <3>2, <3>4 DEF m
  <2>7. ASSUME NEW b \in Blocks
        PROVE  /\ Len(e[b]) = Len(code[b])
               /\ \A i \in 1 .. Len(code[b]) : SameAccess(e[b][i], code[b][i]) /\ e[b][i].val = code[b][i].val
    <3>1. CASE b = s
      BY <2>5, <2>6, <3>1
    <3>2. CASE b # s
      BY <2>6, <3>2 DEF SameAccess
    <3>. QED BY <3>1, <3>2
  <2>8. SameShape(code, e)
    BY <2>7 DEF SameShape
  <2>9. Done(prog, code, Top) = Len(prog.code[t]) /\ Done(prog, code, f) = Len(prog.code[t])
    BY <1>1, <1>2, <1>3, DoneIs
  <2>10. ASSUME NEW R, NEW S, Meaning(prog, PhisAt(code), R, S), MeansNow(prog, code, frames, var_val_stack, R, S)
         PROVE  /\ \A x \in Vars : Holds(prog, R, S, t, Done(prog, code, Top), x, LastOr(var_val_stack[x]))
                /\ PairsMean(prog, e, R, S)
    <3>1. Tops(prog, code, frames, var_val_stack, R, S) /\ PairsMean(prog, code, R, S)
      BY <2>10 DEF MeansNow
    <3>2. ASSUME NEW x \in Vars
          PROVE  Holds(prog, R, S, t, Done(prog, code, Top), x, LastOr(var_val_stack[x]))
      BY <1>1, <3>1, TopHolds
    <3>3. ASSUME NEW b \in Blocks, NEW i \in 1 .. Len(e[b]), e[b][i].op = "phi",
                 NEW m \in 1 .. Len(e[b][i].pairs)
          PROVE  LET pair == e[b][i].pairs[m]
                 IN  Holds(prog, R, S, pair[2], Len(prog.code[pair[2]]), e[b][i].var, pair[1])
      <4> DEFINE ins == code[b][i]
                 new == e[b][i]
      <4>1. i \in 1 .. Len(code[b]) /\ ins.op = "phi" /\ new.var = ins.var
        BY <2>7, <3>3 DEF SameAccess
      <4>2. CASE new = ins
        BY <3>1, <3>3, <4>1, <4>2 DEF PairsMean
      <4>3. CASE new # ins
        <5>1. b = s
          BY <2>6, <4>3
        <5>2. ins.var \in known /\ new.pairs = Append(ins.pairs, <<Last(var_val_stack[ins.var]), t>>)
              /\ ins \in Range(code[s]) /\ ins \in Instructions
          BY <2>5, <2>6, <4>1, <4>3, <5>1
        <5>3. ins.var \in Vars /\ LastOr(var_val_stack[ins.var]) = Last(var_val_stack[ins.var])
          BY <2>4, <4>1, <5>2
        <5>4. Holds(prog, R, S, t, Len(prog.code[t]), ins.var, Last(var_val_stack[ins.var]))
          BY <2>9, <3>2, <5>3
        <5>5. m \in 1 .. Len(new.pairs)
          BY <3>3
        <5>. HIDE DEF new, ins
        <5>6. ins.pairs \in Seq(Operands \X Blocks)
          BY <5>2, InstructionFields
        <5> DEFINE ps == ins.pairs
                   v == Last(var_val_stack[ins.var])
        <5>7. CASE m \in 1 .. Len(ps)
          <6>1. new.pairs[m] = ps[m]
            <7>1. new.pairs = Append(ps, <<v, t>>) /\ ps \in Seq(Operands \X Blocks)
              BY <5>2, <5>6
            <7>. HIDE DEF ps, v, t
            <7>. QED BY <5>7, <7>1
          <6>2. Holds(prog, R, S, ps[m][2], Len(prog.code[ps[m][2]]), ins.var, ps[m][1])
            BY <3>1, <4>1, <5>7 DEF PairsMean, ins
          <6>. QED BY <4>1, <6>1, <6>2 DEF new
        <5>8. CASE m \notin 1 .. Len(ps)
          <6>1. new.pairs[m] = <<v, t>>
            <7>1. new.pairs = Append(ps, <<v, t>>) /\ ps \in Seq(Operands \X Blocks)
              BY <5>2, <5>6
            <7>. HIDE DEF ps, v, t
            <7>2. Len(new.pairs) = Len(ps) + 1 /\ Len(ps) \in Nat /\ new.pairs[Len(ps) + 1] = <<v, t>>
              BY <7>1
            <7>3. m = Len(ps) + 1
              BY <5>5, <5>8, <7>2
            <7>. QED BY <7>2, <7>3
          <6>2. new.pairs[m][2] = t /\ new.pairs[m][1] = v
            BY <6>1
          <6>. QED BY <4>1, <5>4, <6>2 DEF new
        <5>. QED BY <5>7, <5>8
      <4>. QED BY <4>2, <4>3
    <3>4. PairsMean(prog, e, R, S)
      BY <3>3 DEF PairsMean
    <3>. QED BY <3>2, <3>4
  <2>11. /\ \A b \in Blocks : \A i \in 1 .. Len(code[b]) : code'[b][i].val = code[b][i].val
         /\ \A x \in Vars : \A j \in 1 .. Len(var_val_stack[x]) :
              j <= Len(var_val_stack'[x]) => var_val_stack'[x][j] = var_val_stack[x][j]
         /\ Top.at # "kids" /\ f.at # "phis" /\ SameShape(code, code')
         /\ Done(prog, code, f) = Done(prog, code, Top) /\ UNCHANGED <<prog, todo>>
    BY <1>1, <1>3, <2>1, <2>7, <2>8, <2>9
  <2>12. ASSUME NEW R, NEW S, Meaning(prog, PhisAt(code), R, S), MeansNow(prog, code, frames, var_val_stack, R, S)
         PROVE  /\ \A x \in Vars : Holds(prog, R, S, Top.bb, Done(prog, code, Top), x, LastOr(var_val_stack'[x]))
                /\ PairsMean(prog, code', R, S)
    BY <1>1, <2>1, <2>10, <2>12
  <2>. QED BY <1>1, <1>3, <2>1, <2>11, <2>12, MeanStays
<1>. QED BY <1>5, <1>6

(***************************************************************************)
(* Calls begin and return.                                                 *)
(***************************************************************************)
\* re_name calls itself for a child, of which it has come by nothing.
LEMMA MeanEnterChild ==
  ASSUME RenameInv, MeanInv, EnterChild PROVE MeanInv'
<1>1. /\ phase = "rename" /\ frames # <<>> /\ Top.at = "kids"
      /\ UNCHANGED <<prog, code, phase, todo, var_val_stack, known>>
  BY DEF EnterChild, Renaming
<1>2. PICK b \in Top.kids :
        frames' = Append(Append(Front(frames), [Top EXCEPT !.kids = @ \ {b}]), Call(b))
  BY DEF EnterChild
<1> DEFINE n == Len(frames)
           f == [Top EXCEPT !.kids = @ \ {b}]
           call == NewCall(prog, b)
           mid == Append(Front(frames), f)
           new == Append(mid, call)
<1>3. frames' = new
  BY <1>2 DEF Call, NewCall
<1>4. /\ frames \in Seq(Frames) /\ n \in Nat \ {0} /\ Top = Last(frames) /\ Top = frames[n]
      /\ Top \in Frames /\ b \in Blocks
  BY <1>1, TopFields DEF Top
<1>5. f \in Frames /\ f.bb = Top.bb /\ f.kids = Top.kids \ {b} /\ f.at = "kids" /\ f.wait = Top.wait
  BY <1>1, <1>4, FrameKids
<1>6. /\ prog \in Programs /\ code \in Codes /\ Tree(prog, frames) /\ Built(prog, code, phase, frames)
      /\ Stacks(code, frames, var_val_stack)
      /\ PhisNamed(code) /\ PhisQueued(prog, code, todo) /\ todo = {} /\ Fresh(prog, frames)
      /\ WaitsOwn(code, frames) /\ Meant(prog, code, frames, var_val_stack)
  BY <1>1 DEF RenameInv, MeanInv, Running
<1>. HIDE DEF f
<1>7. /\ Tree(prog, new)
      /\ \A d \in Blocks : /\ Open(new, d) <=> Open(frames, d) \/ d = b
                           /\ ToCome(prog, new, d) \/ d = b <=> ToCome(prog, frames, d)
  <2>1. new = Append(Append(Front(frames), f), NewCall(prog, b))
    OBVIOUS
  <2>2. /\ frames # <<>> /\ Last(frames).at = "kids" /\ b \in Last(frames).kids /\ f.bb = Last(frames).bb
        /\ f.kids = Last(frames).kids \ {b} /\ f.at = "kids" /\ f \in Frames
        /\ prog \in Programs /\ Tree(prog, frames)
    BY <1>1, <1>2, <1>4, <1>5, <1>6
  <2>. HIDE DEF mid, new
  <2>. QED BY <2>1, <2>2, TreeEntered
<1>8. /\ mid \in Seq(Frames) /\ Len(mid) = n /\ mid[n] = f
      /\ \A k \in 1 .. n : k # n => mid[k] = frames[k]
  BY <1>1, <1>4, <1>5, SetLast
<1>9. call \in Frames /\ call.at = "phis" /\ call.bb = b /\ call.wait = {} /\ call.kids = prog.kids[b]
  BY <1>4, <1>6, NewCallType DEF NewCall
<1>. HIDE DEF mid, call
<1>10. Len(new) = n + 1 /\ new[n + 1] = call /\ (\A k \in 1 .. n : new[k] = mid[k]) /\ new \in Seq(Frames)
  BY <1>4, <1>8, <1>9
<1>11. /\ n \in 1 .. n /\ \A k \in 1 .. n + 1 : k \in 1 .. n \/ k = n + 1
       /\ \A k \in 1 .. n : k \in 1 .. n + 1
  BY <1>4
<1>. HIDE DEF new
<1>12. ASSUME NEW k \in 1 .. n
       PROVE  /\ new[k].bb = frames[k].bb /\ new[k].wait = frames[k].wait /\ new[k].at = frames[k].at
              /\ Done(prog, code, new[k]) = Done(prog, code, frames[k])
              /\ new[k].at # "kids" => new[k].kids = frames[k].kids
              /\ \A x : Pushes(code, new[k], x) = Pushes(code, frames[k], x)
  <2>1. CASE k = n
    <3>1. Done(prog, code, f) = Done(prog, code, Top)
      BY <1>1, <1>5 DEF Done, Off
    <3>2. \A x : Pushes(code, f, x) = Pushes(code, Top, x)
      <4>1. Len(code[Top.bb]) \in Nat
        BY <1>1, TopFields
      <4>. QED BY <1>1, <1>4, <1>5, <4>1, PushesAll
    <3>. QED BY <1>1, <1>4, <1>5, <1>8, <1>10, <2>1, <3>1, <3>2
  <2>2. CASE k # n
    BY <1>8, <1>10, <2>2
  <2>. QED BY <2>1, <2>2
<1>13. \A d \in Blocks : Left(prog, new, d) <=> Left(prog, frames, d)
  BY <1>7 DEF Left
<1>14. Done(prog, code, call) = 0
  BY <1>9 DEF Done
<1>15. \A v : v \in Met(prog, code, new) <=> v \in Met(prog, code, frames)
  <2>1. ASSUME NEW d \in Blocks, NEW j \in 1 .. Len(prog.code[d])
        PROVE  Come(prog, code, new, d, j) <=> Come(prog, code, frames, d, j)
    <3>1. ~(j <= 0)
      OBVIOUS
    <3>. QED BY <1>10, <1>11, <1>12, <1>13, <1>14, <3>1 DEF Come
  <2>. QED BY <2>1 DEF Met
<1>16. Fresh(prog, new)
  BY <1>6, <1>9, <1>10, <1>11, <1>12 DEF Fresh
<1>17. WaitsOwn(code, new)
  BY <1>6, <1>9, <1>10, <1>11, <1>12 DEF WaitsOwn
<1>18. ASSUME NEW R, NEW S, Meaning(prog, PhisAt(code), R, S)
       PROVE  MeansNow(prog, code, new, var_val_stack, R, S)
  <2> DEFINE W == Met(prog, code, frames)
             W2 == Met(prog, code, new)
  <2>1. /\ Valued(prog, code, frames, R, W) /\ Shortened(prog, code, frames, R, W)
        /\ Tops(prog, code, frames, var_val_stack, R, S) /\ PairsMean(prog, code, R, S)
    BY <1>6, <1>18 DEF Meant, MeansNow
  <2>2. ValuesMove(code, code, R, W, W2)
    BY <1>15, SameNowOn
  <2>3. SameShape(code, code)
    BY DEF SameShape, SameAccess
  <2>. HIDE DEF W, W2
  <2>4. Valued(prog, code, new, R, W2)
    BY <1>6, <1>13, <2>1, <2>2, <2>3, ValuedMoves
  <2>5. Shortened(prog, code, new, R, W2)
    BY <1>6, <1>13, <2>1, <2>2, <2>3, ShortenedMoves
  <2>6. Tops(prog, code, new, var_val_stack, R, S)
    <3>1. ASSUME NEW base, BasesOf(code, new, var_val_stack, base), NEW k \in 1 .. n, new[k].at # "phis",
                 NEW x \in Vars
          PROVE  TopIs(prog, code, new[k], var_val_stack[x], base[k + 1][x], R, S, x)
      <4>1. n \in Nat /\ n <= Len(frames) /\ n <= Len(new)
        BY <1>4, <1>10
      <4>2. \A m \in 1 .. n : /\ new[m].bb = frames[m].bb /\ Done(prog, code, new[m]) = Done(prog, code, frames[m])
                              /\ new[m].at # "phis" => frames[m].at # "phis"
                              /\ \A y \in Vars : Pushes(code, new[m], y) = Pushes(code, frames[m], y)
        BY <1>12
      <4>3. \A y \in Vars : \A j \in 1 .. Len(var_val_stack[y]) :
              j <= Len(var_val_stack[y]) => var_val_stack[y][j] = var_val_stack[y][j]
        OBVIOUS
      <4> DEFINE l == n
      <4>4. /\ l \in Nat /\ l <= Len(frames) /\ l <= Len(new) /\ k \in 1 .. l
            /\ \A m \in 1 .. l : /\ new[m].bb = frames[m].bb /\ Done(prog, code, new[m]) = Done(prog, code, frames[m])
                                 /\ new[m].at # "phis" => frames[m].at # "phis"
                                 /\ \A y \in Vars : Pushes(code, new[m], y) = Pushes(code, frames[m], y)
        BY <3>1, <4>1, <4>2
      <4>. HIDE DEF l
      <4>. QED BY <1>4, <1>6, <1>10, <2>1, <3>1, <4>3, <4>4, TopsCarried
    <3>. QED BY <1>9, <1>10, <1>11, <3>1 DEF Tops
  <2>. QED BY <2>1, <2>4, <2>5, <2>6 DEF MeansNow, W2
<1>19. Meant(prog, code, new, var_val_stack)
  BY <1>18 DEF Meant
<1>. QED BY <1>1, <1>3, <1>6, <1>16, <1>17, <1>19 DEF MeanInv

\* Instructions are deleted, and no phis.
DeletedOnly(c, e) ==
  \A b \in Blocks : /\ \A i \in 1 .. Len(e[b]) : \E j \in 1 .. Len(c[b]) : e[b][i] = c[b][j]
                    /\ \A j \in 1 .. Len(c[b]) : c[b][j].op = "phi" =>
                         \E i \in 1 .. Len(e[b]) : e[b][i] = c[b][j]

LEMMA DeletedPhis ==
  ASSUME NEW c, NEW e, DeletedOnly(c, e)
  PROVE  /\ \A b \in Blocks : \A x : PhiIn(e, b, x) <=> PhiIn(c, b, x)
         /\ PhisAt(e) = PhisAt(c) /\ (PhisNamed(c) => PhisNamed(e))
         /\ \A p \in Programs : \A td : PhisQueued(p, c, td) => PhisQueued(p, e, td)
         /\ \A p, R, S : PairsMean(p, c, R, S) => PairsMean(p, e, R, S)
<1>1. ASSUME NEW b \in Blocks, NEW x PROVE PhiIn(e, b, x) <=> PhiIn(c, b, x)
  BY DEF DeletedOnly, PhiIn
<1>2. PhisAt(e) = PhisAt(c)
  BY <1>1 DEF PhisAt
<1>3. ASSUME PhisNamed(c) PROVE PhisNamed(e)
  <2>1. ASSUME NEW b \in Blocks, NEW i \in 1 .. Len(e[b]), e[b][i].op = "phi"
        PROVE  e[b][i].var \in Vars /\ e[b][i].def = <<"phi", b, e[b][i].var>>
    <3>1. PICK j \in 1 .. Len(c[b]) : e[b][i] = c[b][j]
      BY DEF DeletedOnly
    <3>2. c[b][j].op = "phi"
      BY <2>1, <3>1
    <3>3. c[b][j].var \in Vars /\ c[b][j].def = <<"phi", b, c[b][j].var>>
      BY <1>3, <3>2 DEF PhisNamed
    <3>. QED BY <3>1, <3>3
  <2>. QED BY <2>1 DEF PhisNamed
<1>4. ASSUME NEW p \in Programs, NEW td, PhisQueued(p, c, td) PROVE PhisQueued(p, e, td)
  <2>1. ASSUME NEW b \in Blocks, NEW s \in p.df[b] PROVE s \in Blocks
    BY FrontierIn
  <2>. QED BY <1>1, <1>4, <2>1 DEF PhisQueued, Defines
<1>5. ASSUME NEW p, NEW R, NEW S, PairsMean(p, c, R, S) PROVE PairsMean(p, e, R, S)
  <2>1. ASSUME NEW b \in Blocks, NEW i \in 1 .. Len(e[b]), e[b][i].op = "phi",
               NEW m \in 1 .. Len(e[b][i].pairs)
        PROVE  LET pair == e[b][i].pairs[m]
               IN  Holds(p, R, S, pair[2], Len(p.code[pair[2]]), e[b][i].var, pair[1])
    <3>1. PICK j \in 1 .. Len(c[b]) : e[b][i] = c[b][j]
      BY DEF DeletedOnly
    <3>2. c[b][j].op = "phi" /\ m \in 1 .. Len(c[b][j].pairs)
      BY <2>1, <3>1
    <3>3. LET pair == c[b][j].pairs[m]
          IN  Holds(p, R, S, pair[2], Len(p.code[pair[2]]), c[b][j].var, pair[1])
      BY <1>5, <3>2 DEF PairsMean
    <3>. QED BY <3>1, <3>3
  <2>. QED BY <2>1 DEF PairsMean
<1>. QED BY <1>1, <1>2, <1>3, <1>4, <1>5

LEMMA PrefixOf ==
  ASSUME NEW s \in Seq(Operands), NEW m \in Nat
  PROVE  \A j \in 1 .. Len(s) : j <= Len(SubSeq(s, 1, Len(s) - m)) => SubSeq(s, 1, Len(s) - m)[j] = s[j]
<1> DEFINE k == Len(s) - m
           r == SubSeq(s, 1, k)
<1>1. k \in Int /\ k <= Len(s) /\ Len(s) \in Nat
  OBVIOUS
<1>. HIDE DEF k
<1>2. \A j \in 1 .. Len(s) : j <= Len(r) => r[j] = s[j]
  BY <1>1
<1>. QED BY <1>2 DEF k

\* What a call deletes are loads and stores: the values that wait are theirs.
LEMMA WaitsDeleted ==
  ASSUME RenameInv, MeanInv, phase = "rename", frames # <<>>,
         NEW i \in 1 .. Len(code[Top.bb]), code[Top.bb][i].op \notin Accesses
  PROVE  code[Top.bb][i].def \notin Top.wait
<1>1. /\ Len(frames) \in 1 .. Len(frames) /\ Top = frames[Len(frames)] /\ Top.bb \in Blocks
      /\ AsBuilt(prog, code, Top.bb) /\ prog \in Programs /\ code \in Codes
  BY TopFields DEF RenameInv
<1>2. WaitsOwn(code, frames)
  BY DEF MeanInv, Running
<1>3. SUFFICES ASSUME code[Top.bb][i].def \in Top.wait PROVE FALSE
  OBVIOUS
<1>4. PICK j \in 1 .. Len(code[Top.bb]) : code[Top.bb][j].def = code[Top.bb][i].def /\ code[Top.bb][j].op \in Accesses
  BY <1>1, <1>2, <1>3 DEF WaitsOwn
<1>5. i = j
  BY <1>1, <1>4, BuiltUnique
<1>. QED BY <1>4, <1>5

\* The code of the block that re_name leaves, without its loads and stores,
\* does what it did.
LEMMA MeanLeave ==
  ASSUME RenameInv, RenameInv', MeanInv, Leave PROVE MeanInv'
<1> DEFINE n == Len(frames)
           t == Top.bb
           new == Front(frames)
           K == {ins \in Range(code[t]) : ins.def \notin Top.wait}
           e == [code EXCEPT ![t] = Kept(@, K)]
           vs == var_val_stack
<1>1. /\ phase = "rename" /\ frames # <<>> /\ Top.at = "kids" /\ Top.kids = {}
      /\ frames' = new /\ code' = e /\ UNCHANGED <<prog, phase, todo, known>>
      /\ vs' = [x \in Vars |-> SubSeq(vs[x], 1, Len(vs[x]) - Defined(t, x))]
  BY DEF Leave, Renaming
<1>2. /\ frames \in Seq(Frames) /\ n \in Nat \ {0} /\ n \in 1 .. n /\ Top = frames[n] /\ Top = Last(frames)
      /\ Top \in Frames /\ t \in Blocks /\ DOMAIN code[t] = 1 .. Len(code[t])
      /\ AsBuilt(prog, code, t) /\ code[t] \in Seq(Instructions)
  BY <1>1, TopFields DEF Top
<1>3. /\ prog \in Programs /\ code \in Codes /\ Tree(prog, frames) /\ Built(prog, code, phase, frames)
      /\ Stacks(code, frames, vs) /\ vs \in [Vars -> Seq(Operands)]
      /\ PhisNamed(code) /\ PhisQueued(prog, code, todo) /\ todo = {} /\ Fresh(prog, frames)
      /\ WaitsOwn(code, frames) /\ Meant(prog, code, frames, vs)
  BY <1>1 DEF RenameInv, MeanInv, Running, Stacks
<1>4. \A i \in 1 .. Len(code[t]) : code[t][i].op \in {"phi", "use"} => code[t][i] \in K
  <2>1. ASSUME NEW i \in 1 .. Len(code[t]), code[t][i].op \in {"phi", "use"} PROVE code[t][i].def \notin Top.wait
    BY <1>1, <2>1, WaitsDeleted DEF Accesses
  <2>. QED BY <1>2, <2>1 DEF Range
<1>5. \A x \in Vars : Defined(t, x) \in Nat
  <2>1. ASSUME NEW x
        PROVE  {i \in DOMAIN code[t] : code[t][i].op \in {"store", "phi"} /\ code[t][i].var = x}
                 = Pushes(code, Top, x)
    BY <1>1, <1>2 DEF Pushes, Ran
  <2>. QED BY <1>2, <1>3, <2>1, PushesFinite DEF Defined
<1>6. \A x \in Vars : \A j \in 1 .. Len(vs[x]) : j <= Len(vs'[x]) => vs'[x][j] = vs[x][j]
  <2>1. ASSUME NEW x \in Vars
        PROVE  \A j \in 1 .. Len(vs[x]) : j <= Len(vs'[x]) => vs'[x][j] = vs[x][j]
    <3>1. vs'[x] = SubSeq(vs[x], 1, Len(vs[x]) - Defined(t, x))
      BY <1>1
    <3>2. vs[x] \in Seq(Operands) /\ Defined(t, x) \in Nat
      BY <1>3, <1>5
    <3>. QED BY <3>1, <3>2, PrefixOf
  <2>. QED BY <2>1
<1>. HIDE DEF K
<1>7. e[t] = Kept(code[t], K) /\ \A d \in Blocks : d # t => e[d] = code[d]
  BY <1>2, <1>3 DEF Codes
<1>8. /\ Tree(prog, new)
      /\ \A b \in Blocks : /\ Open(frames, b) <=> Open(new, b) \/ b = t
                           /\ ToCome(prog, new, b) <=> ToCome(prog, frames, b)
                           /\ Open(new, b) \/ ToCome(prog, new, b) => ~Dom(prog, t, b)
  BY <1>1, <1>2, <1>3, TreeLeft
<1>9. new \in Seq(Frames) /\ Len(new) = n - 1 /\ \A k \in 1 .. n - 1 : new[k] = frames[k]
  BY <1>1, <1>2, DropLast
<1>. HIDE DEF e, new
<1>10. /\ \A k \in 1 .. n - 1 : k \in 1 .. n /\ k < n
       /\ \A k \in 1 .. n : k \in 1 .. n - 1 \/ k = n
  BY <1>2
<1>11. DeletedOnly(code, e)
  <2>1. ASSUME NEW b \in Blocks
        PROVE  /\ \A i \in 1 .. Len(e[b]) : \E j \in 1 .. Len(code[b]) : e[b][i] = code[b][j]
               /\ \A j \in 1 .. Len(code[b]) : code[b][j].op = "phi" =>
                    \E i \in 1 .. Len(e[b]) : e[b][i] = code[b][j]
    <3>1. CASE b = t
      <4> DEFINE s == code[t]
      <4>1. s \in Seq(Instructions) /\ \A i \in 1 .. Len(s) : s[i].op = "phi" => s[i] \in K
        BY <1>2, <1>4
      <4>. HIDE DEF s
      <4>2. /\ \A i \in 1 .. Len(Kept(s, K)) : \E j \in 1 .. Len(s) : Kept(s, K)[i] = s[j]
            /\ \A j \in 1 .. Len(s) : s[j].op = "phi" => \E i \in 1 .. Len(Kept(s, K)) : Kept(s, K)[i] = s[j]
        BY <4>1, KeptPhis
      <4>. QED BY <1>7, <3>1, <4>2 DEF s
    <3>2. CASE b # t
      BY <1>7, <3>2
    <3>. QED BY <3>1, <3>2
  <2>. QED BY <2>1 DEF DeletedOnly
<1>12. /\ PhisAt(e) = PhisAt(code) /\ PhisNamed(e) /\ PhisQueued(prog, e, todo)
       /\ \A R, S : PairsMean(prog, code, R, S) => PairsMean(prog, e, R, S)
  BY <1>3, <1>11, DeletedPhis
<1>13. ASSUME NEW k \in 1 .. n - 1
       PROVE  /\ new[k] = frames[k] /\ frames[k].bb \in Blocks /\ frames[k].bb # t
              /\ e[frames[k].bb] = code[frames[k].bb]
              /\ Done(prog, e, frames[k]) = Done(prog, code, frames[k])
              /\ \A x : Pushes(e, frames[k], x) = Pushes(code, frames[k], x)
  <2>1. k \in 1 .. n /\ k < n /\ new[k] = frames[k]
    BY <1>9, <1>10
  <2>2. frames[k].bb # frames[n].bb /\ frames[k].bb \in Blocks
    BY <1>2, <1>3, <2>1, FrameFields DEF Tree
  <2>3. e[frames[k].bb] = code[frames[k].bb] /\ frames[k].bb # t
    BY <1>2, <1>7, <2>2
  <2>4. Done(prog, e, frames[k]) = Done(prog, code, frames[k])
    BY <2>3, DoneShape
  <2>5. \A x : Pushes(e, frames[k], x) = Pushes(code, frames[k], x)
    BY <2>3 DEF Pushes
  <2>. QED BY <2>1, <2>2, <2>3, <2>4, <2>5
<1>14. \A b \in Blocks : Left(prog, new, b) <=> Left(prog, frames, b) \/ b = t
  <2>1. Dom(prog, t, t)
    BY <1>2, <1>3, DomOrder
  <2>. QED BY <1>2, <1>8, <2>1 DEF Left
<1>15. Met(prog, e, new) = Met(prog, code, frames)
  <2>1. ASSUME NEW d \in Blocks, NEW j \in 1 .. Len(prog.code[d])
        PROVE  Come(prog, e, new, d, j) <=> Come(prog, code, frames, d, j)
    <3>1. CASE d = t
      <4>1. Done(prog, code, frames[n]) = Len(prog.code[t]) /\ frames[n].bb = t
        BY <1>1, <1>2, <1>3, DoneIs
      <4>2. j <= Len(prog.code[t])
        BY <3>1
      <4>3. Come(prog, code, frames, d, j)
        BY <1>2, <3>1, <4>1, <4>2 DEF Come
      <4>4. Come(prog, e, new, d, j)
        BY <1>2, <1>14, <3>1 DEF Come
      <4>. QED BY <4>3, <4>4
    <3>2. CASE d # t
      <4>1. frames[n].bb = t
        BY <1>2
      <4>2. Left(prog, new, d) <=> Left(prog, frames, d)
        BY <1>14, <3>2
      <4>3. \A k \in 1 .. n - 1 : /\ new[k].bb = d <=> frames[k].bb = d
                                  /\ j <= Done(prog, e, new[k]) <=> j <= Done(prog, code, frames[k])
        BY <1>13
      <4>4. (\E k \in 1 .. n - 1 : new[k].bb = d /\ j <= Done(prog, e, new[k]))
              <=> \E k \in 1 .. n : frames[k].bb = d /\ j <= Done(prog, code, frames[k])
        BY <1>10, <3>2, <4>1, <4>3
      <4>. QED BY <1>9, <4>2, <4>4 DEF Come
    <3>. QED BY <3>1, <3>2
  <2>. QED BY <2>1 DEF Met
<1>16. Fresh(prog, new)
  BY <1>3, <1>9, <1>10 DEF Fresh
<1>17. WaitsOwn(e, new)
  <2>1. ASSUME NEW k \in 1 .. n - 1, NEW v \in new[k].wait
        PROVE  \E i \in 1 .. Len(e[new[k].bb]) : e[new[k].bb][i].def = v /\ e[new[k].bb][i].op \in Accesses
    <3>1. new[k] = frames[k] /\ e[frames[k].bb] = code[frames[k].bb] /\ k \in 1 .. n
      BY <1>10, <1>13
    <3>2. \E i \in 1 .. Len(code[frames[k].bb]) : code[frames[k].bb][i].def = v /\ code[frames[k].bb][i].op \in Accesses
      BY <1>3, <2>1, <3>1 DEF WaitsOwn
    <3>. QED BY <3>1, <3>2
  <2>. QED BY <1>9, <2>1 DEF WaitsOwn
<1>18. ASSUME NEW R, NEW S, Meaning(prog, PhisAt(e), R, S) PROVE MeansNow(prog, e, new, vs', R, S)
  <2> DEFINE W == Met(prog, code, frames)
  <2>1. /\ Valued(prog, code, frames, R, W) /\ Shortened(prog, code, frames, R, W)
        /\ Tops(prog, code, frames, vs, R, S) /\ PairsMean(prog, code, R, S)
    BY <1>3, <1>12, <1>18 DEF Meant, MeansNow
  <2>. HIDE DEF W
  <2>2. Valued(prog, e, new, R, W)
    <3>1. ASSUME NEW b \in Blocks, ~Left(prog, new, b) PROVE e[b] = code[b] /\ ~Left(prog, frames, b)
      BY <1>7, <1>14, <3>1
    <3>. QED BY <2>1, <3>1 DEF Valued, Off
  <2>3. Shortened(prog, e, new, R, W)
    <3>1. ASSUME NEW b \in Blocks, Left(prog, new, b) PROVE Synced(prog, e[b], b, R, W)
      <4>1. CASE b = t
        <5> DEFINE s == code[t]
                   m == Off(prog, code, t)
        <5>1. PhisBefore(prog, code, t, m)
          BY <1>2, <1>3, OffIs
        <5>2. ~Left(prog, frames, t)
          BY <1>2, <1>8 DEF Left
        <5>3. \A i \in 1 .. Len(prog.code[t]) : prog.code[t][i].op \in {"store", "use"} =>
                s[m + i].val = NowIs(R, W, prog.code[t][i].val)
          BY <1>2, <2>1, <5>2 DEF Valued
        <5>4. s \in Seq(Instructions) /\ \A k \in 1 .. Len(s) : s[k].op \in {"phi", "use"} => s[k] \in K
          BY <1>2, <1>4
        <5>5. /\ m \in Nat /\ Len(s) = m + Len(prog.code[t]) /\ \A i \in 1 .. m : s[i].op = "phi"
              /\ \A i \in 1 .. Len(prog.code[t]) : SameAccess(s[m + i], prog.code[t][i])
          BY <5>1 DEF PhisBefore
        <5>. HIDE DEF s, m
        <5>6. \A i \in 1 .. Len(prog.code[t]) : s[m + i].op = "use" => s[m + i].val = NowIs(R, W, prog.code[t][i].val)
          BY <5>3, <5>5 DEF SameAccess
        <5>7. Synced(prog, s, t, R, W)
          BY <1>2, <1>3, <5>4, <5>5, <5>6, SyncedBuilt
        <5>8. Synced(prog, Kept(s, K), t, R, W)
          BY <1>2, <1>3, <5>4, <5>7, SyncedKept
        <5>. QED BY <1>7, <4>1, <5>8 DEF s
      <4>2. CASE b # t
        BY <1>7, <1>14, <2>1, <3>1, <4>2 DEF Shortened
      <4>. QED BY <4>1, <4>2
    <3>. QED BY <3>1 DEF Shortened
  <2>4. Tops(prog, e, new, vs', R, S)
    <3>1. ASSUME NEW base, BasesOf(e, new, vs', base), NEW k \in 1 .. n - 1, new[k].at # "phis",
                 NEW x \in Vars
          PROVE  TopIs(prog, e, new[k], vs'[x], base[k + 1][x], R, S, x)
      <4> DEFINE l == n - 1
                 vs2 == vs'
      <4>1. l \in Nat /\ l <= Len(frames) /\ l <= Len(new) /\ k \in 1 .. l
        <5>1. n \in Nat \ {0} /\ Len(new) = n - 1
          BY <1>2, <1>9
        <5>. HIDE DEF n
        <5>2. l \in Nat /\ l <= n /\ l <= Len(new) /\ k \in 1 .. l
          BY <3>1, <5>1
        <5>. QED BY <5>2 DEF n
      <4>2. \A m \in 1 .. l : /\ new[m].bb = frames[m].bb /\ Done(prog, e, new[m]) = Done(prog, code, frames[m])
                              /\ new[m].at # "phis" => frames[m].at # "phis"
                              /\ \A y \in Vars : Pushes(e, new[m], y) = Pushes(code, frames[m], y)
        BY <1>13
      <4>3. /\ \A y \in Vars : \A j \in 1 .. Len(vs[y]) : j <= Len(vs2[y]) => vs2[y][j] = vs[y][j]
            /\ BasesOf(e, new, vs2, base)
        BY <1>6, <3>1
      <4>. HIDE DEF l, vs2, vs
      <4>4. /\ frames \in Seq(Frames) /\ new \in Seq(Frames) /\ Stacks(code, frames, vs)
            /\ Tops(prog, code, frames, vs, R, S) /\ new[k].at # "phis"
        BY <1>2, <1>3, <1>9, <2>1, <3>1
      <4>5. TopIs(prog, e, new[k], vs2[x], base[k + 1][x], R, S, x)
        BY <4>1, <4>2, <4>3, <4>4, TopsCarried
      <4>. QED BY <4>5 DEF vs2
    <3>. QED BY <1>9, <3>1 DEF Tops
  <2>5. PairsMean(prog, e, R, S)
    BY <1>12, <2>1
  <2>. QED BY <1>15, <2>2, <2>3, <2>4, <2>5 DEF MeansNow, W
<1>19. Meant(prog, e, new, vs')
  BY <1>18 DEF Meant
<1>. QED BY <1>1, <1>3, <1>12, <1>16, <1>17, <1>19 DEF MeanInv

LEMMA MeanRemoveAlloca ==
  ASSUME RenameInv, MeanInv, RemoveAlloca PROVE MeanInv'
<1> DEFINE e == code'
<1>1. /\ phase = "rename" /\ frames = <<>> /\ phase' = "done"
      /\ UNCHANGED <<prog, todo, frames, var_val_stack, known>>
      /\ code' = [b \in Blocks |-> Kept(code[b], {ins \in Instrs(b) : ins.op # "alloca"})]
  BY DEF RemoveAlloca
<1>2. /\ prog \in Programs /\ code \in Codes
      /\ PhisNamed(code) /\ PhisQueued(prog, code, todo) /\ todo = {}
      /\ Meant(prog, code, frames, var_val_stack)
  BY <1>1 DEF RenameInv, MeanInv, Running
<1>3. Len(<<>>) = 0 /\ 1 .. 0 = {}
  OBVIOUS
<1>4. \A b : Left(prog, <<>>, b)
  BY <1>3 DEF Left, Open, ToCome
<1>5. ASSUME NEW b \in Blocks
      PROVE  \E K : /\ e[b] = Kept(code[b], K) /\ code[b] \in Seq(Instructions)
                    /\ \A i \in 1 .. Len(code[b]) : code[b][i].op \in {"phi", "use"} => code[b][i] \in K
  <2> DEFINE K == {ins \in Instrs(b) : ins.op # "alloca"}
  <2>1. code[b] \in Seq(Instructions) /\ DOMAIN code[b] = 1 .. Len(code[b])
    BY <1>2, CodeFields
  <2>2. \A i \in 1 .. Len(code[b]) : code[b][i].op \in {"phi", "use"} => code[b][i] \in K
    BY <2>1 DEF Instrs, Range
  <2>3. e[b] = Kept(code[b], K)
    BY <1>1
  <2>. HIDE DEF K, e
  <2>. QED BY <2>1, <2>2, <2>3
<1>. HIDE DEF e
<1>6. DeletedOnly(code, e)
  <2>1. ASSUME NEW b \in Blocks
        PROVE  /\ \A i \in 1 .. Len(e[b]) : \E j \in 1 .. Len(code[b]) : e[b][i] = code[b][j]
               /\ \A j \in 1 .. Len(code[b]) : code[b][j].op = "phi" =>
                    \E i \in 1 .. Len(e[b]) : e[b][i] = code[b][j]
    <3> DEFINE s == code[b]
    <3>1. PICK K : /\ e[b] = Kept(s, K) /\ s \in Seq(Instructions)
                   /\ \A i \in 1 .. Len(s) : s[i].op \in {"phi", "use"} => s[i] \in K
      BY <1>5
    <3>. HIDE DEF s
    <3>2. \A i \in 1 .. Len(s) : s[i].op = "phi" => s[i] \in K
      BY <3>1
    <3>3. /\ \A i \in 1 .. Len(Kept(s, K)) : \E j \in 1 .. Len(s) : Kept(s, K)[i] = s[j]
          /\ \A j \in 1 .. Len(s) : s[j].op = "phi" => \E i \in 1 .. Len(Kept(s, K)) : Kept(s, K)[i] = s[j]
      BY <3>1, <3>2, KeptPhis
    <3>. QED BY <3>1, <3>3 DEF s
  <2>. QED BY <2>1 DEF DeletedOnly
<1>7. /\ PhisAt(e) = PhisAt(code) /\ PhisNamed(e) /\ PhisQueued(prog, e, todo)
      /\ \A R, S : PairsMean(prog, code, R, S) => PairsMean(prog, e, R, S)
  BY <1>2, <1>6, DeletedPhis
<1>8. Met(prog, e, <<>>) = Met(prog, code, <<>>)
  BY <1>4 DEF Met, Come
<1>9. ASSUME NEW R, NEW S, Meaning(prog, PhisAt(e), R, S) PROVE MeansNow(prog, e, <<>>, var_val_stack, R, S)
  <2> DEFINE W == Met(prog, code, <<>>)
  <2>1. Shortened(prog, code, <<>>, R, W) /\ PairsMean(prog, code, R, S)
    BY <1>1, <1>2, <1>7, <1>9 DEF Meant, MeansNow
  <2>. HIDE DEF W
  <2>2. ASSUME NEW b \in Blocks PROVE Synced(prog, e[b], b, R, W)
    <3> DEFINE s == code[b]
    <3>1. Synced(prog, s, b, R, W)
      BY <1>4, <2>1 DEF Shortened
    <3>2. PICK K : /\ e[b] = Kept(s, K) /\ s \in Seq(Instructions)
                   /\ \A i \in 1 .. Len(s) : s[i].op \in {"phi", "use"} => s[i] \in K
      BY <1>5
    <3>. HIDE DEF s
    <3>3. Synced(prog, Kept(s, K), b, R, W)
      BY <1>2, <3>1, <3>2, SyncedKept
    <3>. QED BY <3>2, <3>3
  <2>3. Shortened(prog, e, <<>>, R, W)
    BY <2>2 DEF Shortened
  <2>4. Valued(prog, e, <<>>, R, W)
    BY <1>4 DEF Valued
  <2>5. Tops(prog, e, <<>>, var_val_stack, R, S)
    BY <1>3 DEF Tops
  <2>. QED BY <1>7, <1>8, <2>1, <2>3, <2>4, <2>5 DEF MeansNow, W
<1>10. Meant(prog, e, <<>>, var_val_stack) /\ Fresh(prog, <<>>) /\ WaitsOwn(e, <<>>)
  BY <1>3, <1>9 DEF Meant, Fresh, WaitsOwn
<1>. QED BY <1>1, <1>2, <1>7, <1>10 DEF MeanInv, e

LEMMA MeanStartRename ==
  ASSUME RenameInv, PhisInv, MeanInv, StartRename PROVE MeanInv'
<1> DEFINE f == NewCall(prog, Entry)
           new == <<f>>
<1>1. /\ phase = "place" /\ phase' = "rename" /\ frames' = new /\ frames = <<>> /\ todo = {}
      /\ UNCHANGED <<prog, code, todo, var_val_stack, known>>
  BY DEF StartRename, RenameInv, Call, NewCall
<1>2. /\ prog \in Programs /\ code \in Codes /\ PhisRight(prog, code, phase, frames)
      /\ PhisNamed(code) /\ PhisQueued(prog, code, todo) /\ RawVals(prog, code)
  BY <1>1 DEF RenameInv, PhisInv, MeanInv, Running
<1>3. f.bb = Entry /\ f.kids = prog.kids[Entry] /\ f.at = "phis" /\ f.wait = {}
  BY DEF NewCall
<1>4. Len(new) = 1 /\ new[1] = f /\ \A k \in 1 .. Len(new) : k = 1
  OBVIOUS
<1>. HIDE DEF f, new
<1>5. \A b \in Blocks : ~Left(prog, new, b)
  <2>1. ASSUME NEW b \in Blocks PROVE b = Entry \/ \E c \in prog.kids[Entry] : Dom(prog, c, b)
    BY <1>2, BlocksAssumption, DomOrder, KidsOf
  <2>2. 1 \in 1 .. Len(new)
    BY <1>4
  <2>. QED BY <1>3, <1>4, <2>1, <2>2 DEF Left, Open, ToCome
<1>6. Met(prog, code, new) = {}
  <2>1. ASSUME NEW d \in Blocks, NEW j \in 1 .. Len(prog.code[d]) PROVE ~Come(prog, code, new, d, j)
    <3>1. Done(prog, code, f) = 0 /\ ~(j <= 0)
      BY <1>3 DEF Done
    <3>. QED BY <1>4, <1>5, <3>1 DEF Come
  <2>. QED BY <2>1 DEF Met
<1>7. ASSUME NEW R, NEW S PROVE MeansNow(prog, code, new, var_val_stack, R, S)
  <2>1. Valued(prog, code, new, R, {})
    BY <1>2 DEF Valued, RawVals, NowIs
  <2>2. Shortened(prog, code, new, R, {})
    BY <1>5 DEF Shortened
  <2>3. Tops(prog, code, new, var_val_stack, R, S)
    BY <1>3, <1>4 DEF Tops
  <2>4. PairsMean(prog, code, R, S)
    <3>1. \A b \in Blocks : \A i \in 1 .. Len(code[b]) : code[b][i].op = "phi" => code[b][i].pairs = <<>>
      BY <1>1, <1>2 DEF PhisRight
    <3>2. Len(<<>>) = 0 /\ 1 .. 0 = {}
      OBVIOUS
    <3>. QED BY <3>1, <3>2 DEF PairsMean
  <2>. QED BY <1>6, <2>1, <2>2, <2>3, <2>4 DEF MeansNow
<1>8. Meant(prog, code, new, var_val_stack) /\ Fresh(prog, new) /\ WaitsOwn(code, new)
  BY <1>3, <1>4, <1>7 DEF Meant, Fresh, WaitsOwn
<1>. QED BY <1>1, <1>2, <1>8 DEF MeanInv

LEMMA MeanInit == Init => MeanInv
<1>. SUFFICES ASSUME Init PROVE MeanInv
  OBVIOUS
<1>1. /\ prog \in Programs /\ code = prog.code /\ phase = "place" /\ todo = StoredIn /\ frames = <<>>
  BY DEF Init
<1>2. ASSUME NEW b \in Blocks
      PROVE  /\ code[b] \in Seq(Instructions) /\ DOMAIN code[b] = 1 .. Len(code[b]) /\ Len(code[b]) \in Nat
             /\ \A i \in 1 .. Len(code[b]) : code[b][i].op # "phi"
  BY <1>1, ProgramFields, CodeFields
<1>3. PhisNamed(code)
  BY <1>2 DEF PhisNamed
<1>4. RawVals(prog, code)
  <2>1. ASSUME NEW b \in Blocks, NEW i \in 1 .. Len(code[b]) PROVE Off(prog, code, b) + i = i
    BY <1>1, <1>2 DEF Off
  <2>. QED BY <1>1, <2>1 DEF RawVals
<1>5. ASSUME NEW b \in Blocks, NEW x \in Vars, Defines(prog, code, b, x)
      PROVE  [var |-> x, bb |-> b] \in todo
  <2> DEFINE w == [var |-> x, bb |-> b]
  <2>1. PICK j \in 1 .. Len(code[b]) : code[b][j].op = "store" /\ code[b][j].var = x
    BY <1>1, <1>2, <1>5 DEF Defines, PhiIn
  <2>2. code[b][j] \in Stores(b)
    BY <1>2, <2>1 DEF Stores, Instrs, Range
  <2>3. w \in [var : Vars, bb : Blocks] /\ w.bb = b /\ w.var = x
    OBVIOUS
  <2>. HIDE DEF w
  <2>4. w \in StoredIn
    BY <2>1, <2>2, <2>3 DEF StoredIn
  <2>. QED BY <1>1, <2>4 DEF w
<1>6. PhisQueued(prog, code, todo)
  BY <1>5 DEF PhisQueued
<1>. QED BY <1>1, <1>3, <1>4, <1>6 DEF MeanInv

LEMMA MeanPlacePhis ==
  ASSUME RenameInv, MeanInv, PlacePhis PROVE MeanInv'
<1>1. /\ phase = "place" /\ UNCHANGED <<prog, phase, frames, var_val_stack, known>> /\ frames = <<>>
  BY DEF PlacePhis, RenameInv
<1>2. PICK w \in todo :
        /\ code' = [b \in Blocks |-> IF b \in NeedPhi(w) THEN <<Phi(b, w.var)>> \o code[b] ELSE code[b]]
        /\ todo' = (todo \ {w}) \union [var : {w.var}, bb : NeedPhi(w)]
  BY DEF PlacePhis
<1> DEFINE x == w.var
           N == NeedPhi(w)
           e == code'
           sh(b) == IF b \in N THEN 1 ELSE 0
<1>3. /\ prog \in Programs /\ code \in Codes /\ todo \subseteq [var : Vars, bb : Blocks]
      /\ \A b \in Blocks : AsBuilt(prog, code, b)
      /\ PhisNamed(code) /\ PhisQueued(prog, code, todo) /\ RawVals(prog, code)
  BY <1>1 DEF RenameInv, Built, MeanInv, Running
<1>4. w \in [var : Vars, bb : Blocks] /\ x \in Vars /\ w.bb \in Blocks /\ w = [var |-> x, bb |-> w.bb]
  BY <1>3
<1>5. ASSUME NEW b \in Blocks
      PROVE  /\ Phi(b, x) \in Instructions /\ Phi(b, x).op = "phi" /\ Phi(b, x).var = x
             /\ Phi(b, x).def = <<"phi", b, x>>
  <2>1. <<"phi", b, x>> \in ValueNames /\ <<>> \in Seq(Operands \X Blocks)
    BY <1>4 DEF ValueNames, Operands
  <2>. QED BY <1>4, <2>1 DEF Phi, Instructions, Ops
<1>6. \A b \in prog.df[w.bb] : b \in Blocks /\ (b \in N \/ PhiIn(code, b, x))
  <2>1. ASSUME NEW b \in prog.df[w.bb] PROVE b \in Blocks /\ (b \in N \/ PhiIn(code, b, x))
    <3>1. b \in Blocks
      BY <1>3, <1>4, FrontierIn
    <3>2. DOMAIN code[b] = 1 .. Len(code[b])
      BY <1>3, <3>1, CodeFields
    <3>3. HasPhi(b, x) => PhiIn(code, b, x)
      BY <3>2 DEF HasPhi, Phis, Instrs, Range, PhiIn
    <3>. QED BY <2>1, <3>1, <3>3 DEF NeedPhi
  <2>. QED BY <2>1
<1>7. ASSUME NEW b \in Blocks
      PROVE  /\ Len(code[b]) \in Nat /\ Len(e[b]) = Len(code[b]) + sh(b)
             /\ b \in N => e[b][1] = Phi(b, x)
             /\ \A i \in 1 .. Len(code[b]) : e[b][i + sh(b)] = code[b][i]
  <2>1. code[b] \in Seq(Instructions) /\ Len(code[b]) \in Nat
    BY <1>3, CodeFields
  <2>2. CASE b \in N
    <3>1. e[b] = <<Phi(b, x)>> \o code[b] /\ sh(b) = 1
      BY <1>2, <2>2
    <3>2. Phi(b, x) \in Instructions
      BY <1>5
    <3>. HIDE DEF e, N, x, sh
    <3>. QED BY <2>1, <3>1, <3>2, Prefixed
  <2>3. CASE b \notin N
    <3>1. e[b] = code[b] /\ sh(b) = 0
      BY <1>2, <2>3
    <3>. HIDE DEF e, N, x, sh
    <3>. QED BY <2>1, <2>3, <3>1
  <2>. QED BY <2>2, <2>3
<1>8. \A b \in Blocks : (b \in N => sh(b) = 1) /\ (b \notin N => sh(b) = 0)
  OBVIOUS
<1>9. todo' = (todo \ {w}) \union [var : {x}, bb : N]
  BY <1>2
<1>. HIDE DEF e, N, x, sh
<1>10. ASSUME NEW b \in Blocks, NEW k \in 1 .. Len(e[b])
       PROVE  \/ b \in N /\ e[b][k] = Phi(b, x)
              \/ \E i \in 1 .. Len(code[b]) : e[b][k] = code[b][i]
  <2>1. CASE b \in N /\ k = 1
    BY <1>7, <2>1
  <2>2. CASE ~(b \in N /\ k = 1)
    <3>1. Len(code[b]) \in Nat /\ Len(e[b]) = Len(code[b]) + sh(b) /\ k \in 1 .. Len(e[b])
      BY <1>7
    <3>2. k - sh(b) \in 1 .. Len(code[b]) /\ k = (k - sh(b)) + sh(b)
      <4>1. (b \in N /\ sh(b) = 1 /\ k # 1) \/ sh(b) = 0
        BY <1>8, <2>2
      <4>. QED BY <3>1, <4>1
    <3>. QED BY <1>7, <3>2
  <2>. QED BY <2>1, <2>2
<1>11. ASSUME NEW b \in Blocks, NEW i \in 1 .. Len(code[b])
       PROVE  i + sh(b) \in 1 .. Len(e[b]) /\ e[b][i + sh(b)] = code[b][i]
  BY <1>7, <1>8
<1>12. PhisNamed(e)
  <2>1. ASSUME NEW b \in Blocks, NEW k \in 1 .. Len(e[b]), e[b][k].op = "phi"
        PROVE  e[b][k].var \in Vars /\ e[b][k].def = <<"phi", b, e[b][k].var>>
    <3>1. CASE e[b][k] = Phi(b, x)
      BY <1>4, <1>5, <3>1
    <3>2. CASE \E i \in 1 .. Len(code[b]) : e[b][k] = code[b][i]
      <4>1. PICK i \in 1 .. Len(code[b]) : e[b][k] = code[b][i]
        BY <3>2
      <4>2. code[b][i].var \in Vars /\ code[b][i].def = <<"phi", b, code[b][i].var>>
        BY <1>3, <2>1, <4>1 DEF PhisNamed
      <4>. QED BY <4>1, <4>2
    <3>. QED BY <1>10, <3>1, <3>2
  <2>. QED BY <2>1 DEF PhisNamed
<1>13. ASSUME NEW b \in Blocks, NEW y
       PROVE  /\ PhiIn(code, b, y) => PhiIn(e, b, y)
              /\ b \in N => PhiIn(e, b, x)
              /\ PhiIn(e, b, y) => PhiIn(code, b, y) \/ (b \in N /\ y = x)
  <2>1. ASSUME PhiIn(code, b, y) PROVE PhiIn(e, b, y)
    <3>1. PICK i \in 1 .. Len(code[b]) : code[b][i].op = "phi" /\ code[b][i].var = y
      BY <2>1 DEF PhiIn
    <3>. QED BY <1>11, <3>1 DEF PhiIn
  <2>2. ASSUME b \in N PROVE PhiIn(e, b, x)
    <3>1. 1 \in 1 .. Len(e[b]) /\ e[b][1] = Phi(b, x)
      BY <1>7, <1>8, <2>2
    <3>. QED BY <1>5, <3>1 DEF PhiIn
  <2>3. ASSUME PhiIn(e, b, y) PROVE PhiIn(code, b, y) \/ (b \in N /\ y = x)
    <3>1. PICK k \in 1 .. Len(e[b]) : e[b][k].op = "phi" /\ e[b][k].var = y
      BY <2>3 DEF PhiIn
    <3>2. CASE b \in N /\ e[b][k] = Phi(b, x)
      BY <1>5, <3>1, <3>2
    <3>3. CASE \E i \in 1 .. Len(code[b]) : e[b][k] = code[b][i]
      BY <3>1, <3>3 DEF PhiIn
    <3>. QED BY <1>10, <3>2, <3>3
  <2>. QED BY <2>1, <2>2, <2>3
<1>14. PhisQueued(prog, e, todo')
  <2>1. ASSUME NEW b \in Blocks, NEW y \in Vars, Defines(prog, e, b, y)
        PROVE  [var |-> y, bb |-> b] \in todo' \/ \A s \in prog.df[b] : PhiIn(e, s, y)
    <3> DEFINE u == [var |-> y, bb |-> b]
    <3>1. CASE b \in N /\ y = x
      BY <1>9, <3>1
    <3>2. CASE ~(b \in N /\ y = x)
      <4>1. Defines(prog, code, b, y)
        BY <1>13, <2>1, <3>2 DEF Defines
      <4>2. u \in todo \/ \A s \in prog.df[b] : PhiIn(code, s, y)
        BY <1>3, <4>1 DEF PhisQueued
      <4>3. CASE u = w
        <5>1. y = x /\ b = w.bb
          <6>1. w.var = x /\ u.var = y /\ u.bb = b
            BY DEF x
          <6>. QED BY <4>3, <6>1
        <5>. QED BY <1>6, <1>13, <5>1
      <4>4. CASE u \in todo /\ u # w
        BY <1>9, <4>4
      <4>5. CASE \A s \in prog.df[b] : PhiIn(code, s, y)
        <5>1. \A s \in prog.df[b] : s \in Blocks
          BY <1>3, FrontierIn
        <5>. QED BY <1>13, <4>5, <5>1
      <4>. QED BY <4>2, <4>3, <4>4, <4>5
    <3>. QED BY <3>1, <3>2
  <2>. QED BY <2>1 DEF PhisQueued
<1>15. RawVals(prog, e)
  <2>1. ASSUME NEW b \in Blocks, NEW i \in 1 .. Len(prog.code[b])
        PROVE  e[b][Off(prog, e, b) + i].val = prog.code[b][i].val
    <3> DEFINE m == Off(prog, code, b)
    <3>1. m + i \in 1 .. Len(code[b]) /\ m \in Nat
      <4>1. PhisBefore(prog, code, b, m)
        BY <1>3, OffIs
      <4>. QED BY <4>1 DEF PhisBefore
    <3>2. Off(prog, e, b) = m + sh(b)
      <4> DEFINE p == Len(prog.code[b])
                 q == Len(code[b])
                 r == Len(e[b])
      <4>1. p \in Nat
        BY <1>3, SourceFields
      <4>2. q \in Nat /\ r = q + sh(b)
        BY <1>7
      <4>3. sh(b) \in {0, 1}
        BY <1>8
      <4>4. Off(prog, e, b) = r - p /\ m = q - p
        BY DEF Off
      <4>. HIDE DEF p, q, r, m
      <4>. QED BY <4>1, <4>2, <4>3, <4>4
    <3>3. code[b][m + i].val = prog.code[b][i].val
      BY <1>3 DEF RawVals
    <3>. HIDE DEF m
    <3>4. Off(prog, e, b) + i = (m + i) + sh(b)
      BY <1>8, <3>1, <3>2
    <3>. QED BY <1>11, <3>1, <3>3, <3>4
  <2>. QED BY <2>1 DEF RawVals
<1>. QED BY <1>1, <1>12, <1>14, <1>15 DEF MeanInv, e

\* The invariant is kept by every step.
LEMMA MeanNext ==
  ASSUME RenameInv, RenameInv', PhisInv, MeanInv, [RunNext]_allVars PROVE MeanInv'
<1>1. CASE UNCHANGED vars
  BY <1>1 DEF MeanInv, Running, vars
<1>2. CASE Next
  <2>1. CASE PlacePhis BY <2>1, MeanPlacePhis
  <2>2. CASE StartRename BY <2>2, MeanStartRename
  <2>3. CASE PushPhis BY <2>3, MeanPushPhis
  <2>4. CASE ReplaceLoad BY <2>4, MeanReplaceLoad
  <2>5. CASE KeepLoad BY <2>5, MeanKeepLoad
  <2>6. CASE PushStore BY <2>6, MeanPushStore
  <2>7. CASE SkipInstr BY <2>7, MeanSkipInstr
  <2>8. CASE InstrsDone BY <2>8, MeanInstrsDone
  <2>9. CASE FillPhis BY <2>9, MeanFillPhis
  <2>10. CASE SuccsDone BY <2>10, MeanSuccsDone
  <2>11. CASE EnterChild BY <2>11, MeanEnterChild
  <2>12. CASE Leave BY <2>12, MeanLeave
  <2>13. CASE RemoveAlloca BY <2>13, MeanRemoveAlloca
  <2>. QED BY <1>2, <2>1, <2>2, <2>3, <2>4, <2>5, <2>6, <2>7, <2>8, <2>9, <2>10, <2>11, <2>12, <2>13
       DEF Next
<1>3. [RunNext]_allVars => Next \/ UNCHANGED vars
  BY DEF RunNext, Compile, NameValues, Transform, PrintFunction, RunNextBlock, Stopped, allVars
<1>. QED BY <1>1, <1>2, <1>3

(***************************************************************************)
(* The function before the pass and what the pass has made of it, side by  *)
(* side.                                                                   *)
(***************************************************************************)
\* When the pass is done, R says what each operand of the code has become.
LEMMA PassFinished ==
  ASSUME RenameInv, PhisInv, MeanInv, phase = "done",
         NEW R, NEW S, Meaning(prog, PhisAt(code), R, S)
  PROVE  Finished(prog, code, R, S)
<1> DEFINE W == Met(prog, code, frames)
<1>1. /\ prog \in Programs /\ code \in Codes /\ frames = <<>> /\ Len(frames) = 0
      /\ Tree(prog, frames) /\ Built(prog, code, phase, frames)
  BY DEF RenameInv
<1>2. /\ PhisNamed(code) /\ PhisQueued(prog, code, todo) /\ todo = {} /\ Fresh(prog, frames)
      /\ Meant(prog, code, frames, var_val_stack)
  BY DEF MeanInv, Running
<1>3. MeansNow(prog, code, frames, var_val_stack, R, S)
  BY <1>2 DEF Meant
<1>4. \A b \in Blocks : Left(prog, frames, b)
  BY <1>1 DEF Left, Open, ToCome
<1>5. PhisClosed(prog, code)
  BY <1>2 DEF PhisClosed, PhisQueued
<1>6. PairsComplete(prog, code)
  <2>1. PhisRight(prog, code, phase, frames)
    BY DEF PhisInv, Running
  <2>2. \A a, b \in Blocks : Fed(prog, frames, a, b)
    BY <1>4 DEF Fed
  <2>. QED BY <2>1, <2>2 DEF PhisRight, PhiRight, PairsComplete
<1>7. ASSUME NEW b \in Blocks
      PROVE  /\ Synced(prog, code[b], b, R, W)
             /\ \A i \in 1 .. Len(prog.code[b]) : prog.code[b][i].op = "use" =>
                  NowIs(R, W, prog.code[b][i].val) = R[prog.code[b][i].val]
  <2>1. Synced(prog, code[b], b, R, W)
    BY <1>3, <1>4 DEF MeansNow, Shortened
  <2>2. ASSUME NEW i \in 1 .. Len(prog.code[b]), prog.code[b][i].op = "use"
        PROVE  NowIs(R, W, prog.code[b][i].val) = R[prog.code[b][i].val]
    <3>1. Come(prog, code, frames, b, i - 1)
      BY <1>4 DEF Come
    <3>. QED BY <1>1, <1>2, <2>2, <3>1, OperandMet
  <2>. QED BY <2>1, <2>2
<1>. QED BY <1>2, <1>3, <1>5, <1>6, <1>7 DEF MeansNow, Finished

\* The machines have run up to the end of block at, and are related there.
AsBefore(m, n) ==
  /\ Machine(m) /\ n = m /\ m.out = <<>> /\ \A x \in Vars : m.mem[x] = Undef
SimInv ==
  /\ stage = "printed" => phase = "done"
  /\ Machine(src) /\ Machine(ssa)
  /\ at = NoBB => AsBefore(src, ssa)
  /\ at # NoBB =>
       /\ at \in Blocks /\ stage = "printed"
       /\ \A R, S : Meaning(prog, PhisAt(code), R, S) =>
            Related(prog, R, S, at, Len(prog.code[at]), src, ssa)

LEMMA SimInit == RunInit => SimInv
<1>. SUFFICES ASSUME RunInit PROVE SimInv
  OBVIOUS
<1> DEFINE mem == [x \in Vars |-> Undef]
<1>1. stage = "built" /\ at = NoBB /\ src = [mem |-> mem, reg |-> <<>>, out |-> <<>>] /\ ssa = src
  BY DEF RunInit
<1>2. mem \in [Vars -> Vals] /\ <<>> \in Seq(Vals) /\ DOMAIN <<>> = {}
  BY DEF Vals
<1>3. IsMachine(src, mem, <<>>, <<>>)
  BY <1>1, <1>2 DEF IsMachine
<1>4. Machine(src) /\ src.mem = mem /\ src.out = <<>>
  BY <1>3, MachineFields
<1>. QED BY <1>1, <1>4 DEF SimInv, AsBefore

\* The code does not change once it is printed.
LEMMA SimStays ==
  ASSUME SimInv, UNCHANGED runVars, stage' = "printed" => phase' = "done",
         stage = "printed" => stage' = "printed" /\ UNCHANGED <<prog, code>>
  PROVE  SimInv'
<1>1. at' = at /\ src' = src /\ ssa' = ssa
  BY DEF runVars
<1>. QED BY <1>1 DEF SimInv

LEMMA SimBlock ==
  ASSUME RenameInv, PhisInv, MeanInv, SimInv, RunNextBlock PROVE SimInv'
<1>1. /\ stage = "printed" /\ stage' = "printed" /\ phase = "done" /\ phase' = phase
      /\ prog' = prog /\ code' = code /\ prog \in Programs /\ code \in Codes
  BY DEF RunNextBlock, SimInv, RenameInv, vars, mainVars
<1>2. PICK b \in (IF at = NoBB THEN {Entry} ELSE Range(prog.succ[at])) :
        at' = b /\ src' = RunBlock(prog.code[b], at, src) /\ ssa' = RunBlock(code[b], at, ssa)
  BY DEF RunNextBlock
<1>3. b \in Blocks
  <2>1. CASE at = NoBB
    BY <1>2, <2>1, BlocksAssumption
  <2>2. CASE at # NoBB
    <3>1. at \in Blocks /\ b \in Range(prog.succ[at]) /\ prog.succ[at] \in Seq(Blocks)
      BY <1>1, <1>2, <2>2, ProgramsAssumption DEF SimInv
    <3>. QED BY <3>1 DEF Range
  <2>. QED BY <2>1, <2>2
<1>4. Machine(src) /\ Machine(ssa)
  BY DEF SimInv
<1>5. ASSUME NEW R, NEW S, Meaning(prog, PhisAt(code), R, S)
      PROVE  Machine(src') /\ Machine(ssa') /\ Related(prog, R, S, b, Len(prog.code[b]), src', ssa')
  <2>1. Finished(prog, code, R, S)
    BY <1>1, <1>5, PassFinished
  <2>2. \/ at \in Blocks /\ IsPred(prog, at, b) /\ Related(prog, R, S, at, Len(prog.code[at]), src, ssa)
        \/ b = Entry /\ \A x \in Vars : src.mem[x] = Undef
    <3>1. CASE at = NoBB
      BY <1>2, <3>1 DEF SimInv, AsBefore
    <3>2. CASE at # NoBB
      BY <1>2, <1>5, <3>2 DEF SimInv, IsPred
    <3>. QED BY <3>1, <3>2
  <2>. QED BY <1>1, <1>2, <1>3, <1>4, <1>5, <2>1, <2>2, BlockRelated
<1>6. \E R, S : Meaning(prog, PhisAt(code), R, S)
  BY <1>1, MeaningExists
<1>7. Machine(src') /\ Machine(ssa')
  BY <1>5, <1>6
<1>8. at' = b /\ at' \in Blocks /\ at' # NoBB
  BY <1>2, <1>3, NoBBAssumption
<1>. QED BY <1>1, <1>5, <1>7, <1>8 DEF SimInv

LEMMA SimNext ==
  ASSUME RenameInv, PhisInv, MeanInv, SimInv, [RunNext]_allVars PROVE SimInv'
<1>1. CASE UNCHANGED allVars
  BY <1>1, SimStays DEF allVars, vars, mainVars, SimInv
<1>2. CASE NameValues
  BY <1>2, SimStays DEF NameValues, vars
<1>3. CASE Transform
  BY <1>3, SimStays DEF Transform, mainVars
<1>4. CASE PrintFunction
  BY <1>4, SimStays DEF PrintFunction, vars
<1>5. CASE RunNextBlock
  BY <1>5, SimBlock
<1>6. CASE Stopped
  BY <1>6, SimStays DEF Stopped, vars, mainVars, SimInv
<1>. QED BY <1>1, <1>2, <1>3, <1>4, <1>5, <1>6 DEF RunNext, Compile

LEMMA SimObserved ==
  ASSUME RenameInv, SimInv PROVE SameObservation
<1>1. CASE at = NoBB
  <2>1. src.out = <<>> /\ ssa.out = <<>> /\ DOMAIN src.out = {}
    BY <1>1 DEF SimInv, AsBefore
  <2>. QED BY <2>1 DEF SameObservation
<1>2. CASE at # NoBB
  <2>1. PICK R, S : Meaning(prog, PhisAt(code), R, S)
    BY MeaningExists DEF RenameInv
  <2>2. SameOut(src.out, ssa.out)
    BY <1>2, <2>1 DEF SimInv, Related
  <2>3. PICK mem, reg, out : IsMachine(src, mem, reg, out)
    BY DEF SimInv, Machine
  <2>4. src.out = out /\ out \in Seq(Vals)
    BY <2>3, MachineFields DEF IsMachine
  <2>5. DOMAIN src.out = 1 .. Len(src.out)
    BY <2>4
  <2>. QED BY <2>2, <2>5 DEF SameOut, SameObservation
<1>. QED BY <1>1, <1>2

\* Mem2Reg keeps what a function computes: along any path through any function
\* that the builder makes, every operand after the pass has the value that it
\* had when the variables were in memory, unless it came from a variable that
\* was read before it was set.
THEOREM ObservationKept == RunSpec => []SameObservation
<1>1. RunInit => PhisInv /\ MeanInv /\ SimInv
  BY PhisInit, MeanInit, SimInit DEF RunInit
<1>2. RenameInv /\ RenameInv' /\ PhisInv /\ MeanInv /\ SimInv /\ [RunNext]_allVars
        => PhisInv' /\ MeanInv' /\ SimInv'
  BY PhisNext, MeanNext, SimNext
<1>3. RunSpec => [](PhisInv /\ MeanInv /\ SimInv)
  BY <1>1, <1>2, RenameInvariant, PTL DEF RunSpec
<1>4. RenameInv /\ SimInv => SameObservation
  BY SimObserved
<1>. QED BY <1>3, <1>4, RenameInvariant, PTL

(***************************************************************************)
(* Names.  Where no value is twice in the function, its first place is its *)
(* only one, and more is in seq when a later one is come to.               *)
(***************************************************************************)
PlacesOf(values) == DOMAIN values \subseteq Nat \X Nat /\ IsFiniteSet(DOMAIN values) /\ IsInjective(values)

LEMMA ImageFinite ==
  ASSUME NEW f, NEW S, f \in [DOMAIN f -> S], IsFiniteSet(DOMAIN f)
  PROVE  IsFiniteSet({f[x] : x \in DOMAIN f})
<1> DEFINE T == {f[x] : x \in DOMAIN f}
           D == DOMAIN f
<1>1. f \in Surjection(D, T)
  <2>1. f \in [D -> T] /\ \A t \in T : \E x \in D : f[x] = t
    OBVIOUS
  <2>. QED BY <2>1 DEF Surjection
<1>. HIDE DEF T
<1>. QED BY <1>1, FS_Surjection DEF T

\* What is in seq when the value at place q is come to.
Until(values, q) == {values[r] : r \in {r \in DOMAIN values : Earlier(r, q)}} \ DOMAIN name_

LEMMA BeforeIs ==
  ASSUME NEW values, PlacesOf(values), NEW q \in DOMAIN values
  PROVE  Before(values, values[q]) = Until(values, q)
<1> DEFINE P(p) == values[p] = values[q] /\ \A r \in DOMAIN values : Earlier(r, p) => values[r] # values[q]
<1>1. \A r \in DOMAIN values : values[r] = values[q] => r = q
  BY DEF PlacesOf, IsInjective
<1>2. ~Earlier(q, q)
  <2>1. q \in Nat \X Nat
    BY DEF PlacesOf
  <2>2. q[1] \in Nat /\ q[2] \in Nat
    BY <2>1
  <2>. QED BY <2>2 DEF Earlier
<1>3. P(q) /\ \A p \in DOMAIN values : P(p) => p = q
  BY <1>1, <1>2
<1>4. FirstPlace(values, values[q]) = CHOOSE p \in DOMAIN values : P(p)
  BY DEF FirstPlace
<1>. HIDE DEF P
<1>5. FirstPlace(values, values[q]) = q
  BY <1>3, <1>4
<1>. QED BY <1>5 DEF Before, Until

LEMMA UntilGrows ==
  ASSUME NEW values, PlacesOf(values), NEW q \in DOMAIN values, values[q] \notin DOMAIN name_
  PROVE  /\ Cardinality(Until(values, q)) \in Nat /\ Cardinality(Unnamed(values)) \in Nat
         /\ Cardinality(Until(values, q)) < Cardinality(Unnamed(values))
         /\ \A r \in DOMAIN values : Earlier(q, r) =>
              /\ Cardinality(Until(values, r)) \in Nat
              /\ Cardinality(Until(values, q)) < Cardinality(Until(values, r))
<1> DEFINE U == Unnamed(values)
           A == Until(values, q)
<1>1. IsFiniteSet(U)
  <2>1. IsFiniteSet(Range(values))
    <3> DEFINE f == [x \in DOMAIN values |-> values[x]]
    <3>1. DOMAIN f = DOMAIN values /\ f \in [DOMAIN f -> Range(values)] /\ IsFiniteSet(DOMAIN f)
      BY DEF Range, PlacesOf
    <3>2. {f[x] : x \in DOMAIN f} = Range(values)
      BY <3>1 DEF Range
    <3>. HIDE DEF f
    <3>. QED BY <3>1, <3>2, ImageFinite
  <2>2. U \in SUBSET Range(values)
    BY DEF Unnamed
  <2>. HIDE DEF U
  <2>. QED BY <2>1, <2>2, FS_Subset
<1>2. \A r \in DOMAIN values : Until(values, r) \subseteq U
  BY DEF Until, Unnamed, Range
<1>3. \A r \in DOMAIN values : r \in Nat \X Nat /\ r[1] \in Nat /\ r[2] \in Nat
  BY DEF PlacesOf
<1>4. values[q] \in U /\ values[q] \notin A
  <2>1. ~Earlier(q, q)
    BY <1>3 DEF Earlier
  <2>2. \A r \in DOMAIN values : values[r] = values[q] => r = q
    BY DEF PlacesOf, IsInjective
  <2>. QED BY <2>1, <2>2 DEF Until, Unnamed, Range
<1>5. ASSUME NEW B \in SUBSET U, A \subseteq B, values[q] \in B
      PROVE  Cardinality(B) \in Nat /\ Cardinality(A) \in Nat /\ Cardinality(A) < Cardinality(B)
  <2>. HIDE DEF A, U
  <2>1. IsFiniteSet(B) /\ A \in SUBSET B /\ A # B
    BY <1>1, <1>4, <1>5, FS_Subset
  <2>2. IsFiniteSet(A) /\ Cardinality(A) <= Cardinality(B) /\ (Cardinality(B) = Cardinality(A) => B = A)
    BY <2>1, FS_Subset
  <2> DEFINE m == Cardinality(A)
             n == Cardinality(B)
  <2>3. m \in Nat /\ n \in Nat /\ m <= n /\ m # n
    BY <2>1, <2>2, FS_CardinalityType
  <2>. HIDE DEF m, n
  <2>4. m < n
    BY <2>3
  <2>. QED BY <2>3, <2>4 DEF m, n
<1>6. ASSUME NEW r \in DOMAIN values, Earlier(q, r)
      PROVE  Until(values, r) \in SUBSET U /\ A \subseteq Until(values, r) /\ values[q] \in Until(values, r)
  <2>1. \A p \in DOMAIN values : Earlier(p, q) => Earlier(p, r)
    BY <1>3, <1>6 DEF Earlier
  <2>. QED BY <1>2, <1>6, <2>1 DEF Until
<1>. QED BY <1>2, <1>4, <1>5, <1>6

\* A name is a number given, and no other value has it.
NamesGiven ==
  /\ seq_cnt_ \in Nat /\ \A v \in DOMAIN name_ : name_[v] \in Nat /\ name_[v] < seq_cnt_
  /\ \A u, v \in DOMAIN name_ : name_[u] = name_[v] => u = v

LEMMA NamesNext ==
  ASSUME NamesGiven, NEW values, PlacesOf(values), set_instr_name(values)
  PROVE  NamesGiven' /\ Range(values) \subseteq DOMAIN name_'
<1> DEFINE n == seq_cnt_
           C(q) == Cardinality(Until(values, q))
           k == Cardinality(Unnamed(values))
<1>1. /\ DOMAIN name_' = DOMAIN name_ \union Range(values)
      /\ \A v \in DOMAIN name_ : name_'[v] = name_[v]
      /\ \A v \in Range(values) : v \notin DOMAIN name_ => name_'[v] = Number(values, v)
      /\ seq_cnt_' = n + k
  BY DEF set_instr_name
<1>2. n \in Nat /\ k \in Nat
  <2>1. CASE \E q \in DOMAIN values : values[q] \notin DOMAIN name_
    BY <2>1, UntilGrows DEF NamesGiven
  <2>2. CASE \A q \in DOMAIN values : values[q] \in DOMAIN name_
    <3>1. Unnamed(values) = {}
      BY <2>2 DEF Unnamed, Range
    <3>. QED BY <3>1, FS_EmptySet DEF NamesGiven
  <2>. QED BY <2>1, <2>2
<1>3. ASSUME NEW q \in DOMAIN values, values[q] \notin DOMAIN name_
      PROVE  /\ name_'[values[q]] = n + C(q) /\ C(q) \in Nat /\ C(q) < k
             /\ \A r \in DOMAIN values : Earlier(q, r) => C(r) \in Nat /\ C(q) < C(r)
  <2>1. values[q] \in Range(values)
    BY DEF Range
  <2>. QED BY <1>1, <1>3, <2>1, BeforeIs, UntilGrows DEF Number
<1>. HIDE DEF C, k, n
<1>4. \A v \in DOMAIN name_ : name_'[v] = name_[v] /\ name_[v] \in Nat /\ name_[v] < n
  BY <1>1 DEF NamesGiven, n
<1>5. ASSUME NEW v \in DOMAIN name_', v \notin DOMAIN name_
      PROVE  \E q \in DOMAIN values : v = values[q] /\ values[q] \notin DOMAIN name_
  BY <1>1, <1>5 DEF Range
<1>6. ASSUME NEW v \in DOMAIN name_' PROVE name_'[v] \in Nat /\ name_'[v] < n + k
  <2>1. CASE v \in DOMAIN name_
    BY <1>2, <1>4, <2>1
  <2>2. CASE v \notin DOMAIN name_
    <3>1. PICK q \in DOMAIN values : v = values[q] /\ values[q] \notin DOMAIN name_
      BY <1>5, <2>2
    <3>2. name_'[v] = n + C(q) /\ C(q) \in Nat /\ C(q) < k
      BY <1>3, <3>1
    <3>. QED BY <1>2, <3>2
  <2>. QED BY <2>1, <2>2
<1>7. ASSUME NEW u \in DOMAIN name_, NEW v \in DOMAIN name_', v \notin DOMAIN name_
      PROVE  name_'[u] # name_'[v]
  <2>1. PICK q \in DOMAIN values : v = values[q] /\ values[q] \notin DOMAIN name_
    BY <1>5, <1>7
  <2>2. name_'[v] = n + C(q) /\ C(q) \in Nat
    BY <1>3, <2>1
  <2>3. name_'[u] \in Nat /\ name_'[u] < n
    BY <1>4
  <2>. QED BY <1>2, <2>2, <2>3
<1>8. ASSUME NEW u \in DOMAIN name_', u \notin DOMAIN name_, NEW v \in DOMAIN name_', v \notin DOMAIN name_,
             u # v
      PROVE  name_'[u] # name_'[v]
  <2>1. PICK q \in DOMAIN values : u = values[q] /\ values[q] \notin DOMAIN name_
    BY <1>5, <1>8
  <2>2. PICK r \in DOMAIN values : v = values[r] /\ values[r] \notin DOMAIN name_
    BY <1>5, <1>8
  <2>3. Earlier(q, r) \/ Earlier(r, q)
    <3>1. q \in Nat \X Nat /\ r \in Nat \X Nat /\ q # r
      BY <1>8, <2>1, <2>2 DEF PlacesOf
    <3>2. /\ q[1] \in Nat /\ q[2] \in Nat /\ r[1] \in Nat /\ r[2] \in Nat
          /\ q = <<q[1], q[2]>> /\ r = <<r[1], r[2]>>
      BY <3>1
    <3>3. q[1] # r[1] \/ q[2] # r[2]
      BY <3>1, <3>2
    <3>. QED BY <3>2, <3>3 DEF Earlier
  <2>4. /\ name_'[u] = n + C(q) /\ C(q) \in Nat /\ name_'[v] = n + C(r) /\ C(r) \in Nat
        /\ C(q) < C(r) \/ C(r) < C(q)
    BY <1>3, <2>1, <2>2, <2>3
  <2>. QED BY <1>2, <2>4
<1>9. \A u, v \in DOMAIN name_ : name_[u] = name_[v] => u = v
  BY DEF NamesGiven
<1>10. \A u, v \in DOMAIN name_' : name_'[u] = name_'[v] => u = v
  BY <1>4, <1>7, <1>8, <1>9
<1>11. seq_cnt_' \in Nat /\ seq_cnt_' = n + k
  BY <1>1, <1>2
<1>. QED BY <1>1, <1>6, <1>10, <1>11 DEF NamesGiven

(***************************************************************************)
(* No value is defined twice, by what the builder made and by what the     *)
(* pass makes of it.                                                       *)
(***************************************************************************)
DefsOnce(c) ==
  \A b, d \in Blocks : \A i \in 1 .. Len(c[b]), j \in 1 .. Len(c[d]) :
    c[b][i].def = c[d][j].def => b = d /\ i = j
DefsInv == Running => DefsOnce(code)

\* Code that defines the same values in the same places.
SameDefs(c, e) ==
  \A b \in Blocks : Len(e[b]) = Len(c[b]) /\ \A i \in 1 .. Len(c[b]) : e[b][i].def = c[b][i].def

\* Instructions in the order they had, as when some are deleted.
Thinner(s, r) ==
  /\ \A i \in 1 .. Len(r) : \E k \in 1 .. Len(s) : r[i] = s[k]
  /\ \A i, j \in 1 .. Len(r) : i < j => \E k, l \in 1 .. Len(s) : k < l /\ r[i] = s[k] /\ r[j] = s[l]

LEMMA ThinnerDefs ==
  ASSUME NEW c, NEW e \in Codes, DefsOnce(c), \A b \in Blocks : Thinner(c[b], e[b])
  PROVE  DefsOnce(e)
<1>1. ASSUME NEW b \in Blocks, NEW d \in Blocks, NEW i \in 1 .. Len(e[b]), NEW j \in 1 .. Len(e[d]),
             e[b][i].def = e[d][j].def
      PROVE  b = d
  <2>1. PICK k \in 1 .. Len(c[b]) : e[b][i] = c[b][k]
    BY DEF Thinner
  <2>2. PICK l \in 1 .. Len(c[d]) : e[d][j] = c[d][l]
    BY DEF Thinner
  <2>. QED BY <1>1, <2>1, <2>2 DEF DefsOnce
<1>2. ASSUME NEW b \in Blocks, NEW i \in 1 .. Len(e[b]), NEW j \in 1 .. Len(e[b]), i < j
      PROVE  e[b][i].def # e[b][j].def
  <2>1. PICK k, l \in 1 .. Len(c[b]) : k < l /\ e[b][i] = c[b][k] /\ e[b][j] = c[b][l]
    BY <1>2 DEF Thinner
  <2>2. k # l
    BY <2>1
  <2>. QED BY <2>1, <2>2 DEF DefsOnce
<1>3. ASSUME NEW b \in Blocks, NEW i \in 1 .. Len(e[b]), NEW j \in 1 .. Len(e[b]),
             e[b][i].def = e[b][j].def
      PROVE  i = j
  <2>1. i < j \/ j < i \/ i = j
    OBVIOUS
  <2>. QED BY <1>2, <1>3, <2>1
<1>. QED BY <1>1, <1>3 DEF DefsOnce

LEMMA KeptThinner ==
  ASSUME NEW c \in Codes, NEW b \in Blocks, NEW K PROVE Thinner(c[b], Kept(c[b], K))
<1>1. c[b] \in Seq(Instructions)
  BY CodeFields
<1>2. Selects(Kept(c[b], K), c[b], K, Len(c[b]))
  BY <1>1, KeptSelects
<1>. QED BY <1>2 DEF Selects, Thinner

LEMMA SelfThinner ==
  ASSUME NEW c \in Codes, NEW b \in Blocks PROVE Thinner(c[b], c[b])
BY DEF Thinner

LEMMA SameDefsOnce ==
  ASSUME NEW c, NEW e, DefsOnce(c), SameDefs(c, e) PROVE DefsOnce(e)
BY DEF DefsOnce, SameDefs

LEMMA FilledDefs ==
  ASSUME RenameInv, FillPhis, UNCHANGED phase PROVE SameDefs(code, code')
<1> DEFINE s == prog.succ[Top.bb][Top.i]
<1>0. code \in Codes
  BY DEF RenameInv
<1>1. CASE code' = code
  BY <1>1 DEF SameDefs
<1>2. CASE code' = [code EXCEPT ![s] = [i \in DOMAIN @ |-> Filled(@[i])]]
  <2>1. ASSUME NEW b \in Blocks
        PROVE  Len(code'[b]) = Len(code[b]) /\ \A i \in 1 .. Len(code[b]) : code'[b][i].def = code[b][i].def
    <3>1. /\ Len(code[b]) \in Nat /\ DOMAIN code[b] = 1 .. Len(code[b])
          /\ \A i \in 1 .. Len(code[b]) : code[b][i] \in Instructions
      BY <1>0, CodeFields
    <3>2. CASE b # s
      BY <1>0, <1>2, <3>2 DEF Codes
    <3>3. CASE b = s
      <4> DEFINE n == Len(code[b])
                 t == code[b]
      <4>1. code'[b] = [i \in 1 .. n |-> Filled(t[i])]
        <5>1. code'[b] = [i \in DOMAIN code[b] |-> Filled(code[b][i])]
          <6>. HIDE DEF s, n, t
          <6>1. code' = [d \in Blocks |-> IF d = s THEN [i \in DOMAIN code[d] |-> Filled(code[d][i])] ELSE code[d]]
            BY <1>0, <1>2 DEF Codes
          <6>. QED BY <3>3, <6>1
        <5>. QED BY <3>1, <5>1
      <4>2. ASSUME NEW i \in 1 .. n PROVE Filled(t[i]).def = t[i].def
        BY <3>1 DEF Filled, Instructions
      <4>3. n \in Nat
        BY <3>1
      <4>. HIDE DEF n, t
      <4>4. Len(code'[b]) = n /\ \A i \in 1 .. n : code'[b][i] = Filled(t[i])
        BY <4>1, <4>3
      <4>. QED BY <4>2, <4>4 DEF n, t
    <3>. QED BY <3>2, <3>3
  <2>. QED BY <2>1 DEF SameDefs
<1>3. code' = code \/ code' = [code EXCEPT ![s] = [i \in DOMAIN @ |-> Filled(@[i])]]
  BY DEF FillPhis
<1>. HIDE DEF s
<1>. QED BY <1>1, <1>2, <1>3

LEMMA DefsPlaced ==
  ASSUME NEW p \in Programs, NEW c \in Codes, \A b \in Blocks : AsBuilt(p, c, b) PROVE DefsOnce(c)
BY BuiltUnique DEF DefsOnce

LEMMA DefsNext ==
  ASSUME RenameInv, RenameInv', DefsInv, [Next]_vars PROVE DefsInv'
<1>1. CASE phase' = "place"
  <2>1. prog' \in Programs /\ code' \in Codes /\ \A b \in Blocks : AsBuilt(prog', code', b)
    BY <1>1 DEF RenameInv, Built
  <2>2. DefsOnce(code')
    BY <2>1, DefsPlaced
  <2>. QED BY <2>2 DEF DefsInv
<1>2. ASSUME DefsOnce(code), SameDefs(code, code') PROVE DefsInv'
  BY <1>2, SameDefsOnce DEF DefsInv
<1>3. ASSUME code' = code, Running PROVE DefsInv'
  BY <1>3 DEF DefsInv
<1>4. code \in Codes /\ code' \in Codes
  BY DEF RenameInv
<1>5. CASE UNCHANGED vars
  BY <1>5 DEF vars, DefsInv, Running
<1>6. CASE PlacePhis
  BY <1>1, <1>6 DEF PlacePhis
<1>7. CASE StartRename \/ PushPhis \/ KeepLoad \/ PushStore \/ SkipInstr \/ InstrsDone \/ SuccsDone \/ EnterChild
  BY <1>3, <1>7 DEF StartRename, PushPhis, KeepLoad, PushStore, SkipInstr, InstrsDone, SuccsDone, EnterChild,
                    AtInstr, Renaming, Running
<1>8. CASE ReplaceLoad
  <2>1. phase = "rename" /\ Running
    BY <1>8 DEF ReplaceLoad, AtInstr, Renaming, Running
  <2>2. CASE code' = code
    BY <1>3, <2>1, <2>2
  <2>3. CASE code' = ReplaceAllUses(Instr.def, Last(var_val_stack[Instr.var]))
    <3>1. SameDefs(code, code')
      <4>1. ASSUME NEW b \in Blocks
            PROVE  Len(code'[b]) = Len(code[b]) /\ \A i \in 1 .. Len(code[b]) : code'[b][i].def = code[b][i].def
        <5> DEFINE n == Len(code[b])
                   t == code[b]
                   v == Instr.def
                   w == Last(var_val_stack[Instr.var])
        <5>1. n \in Nat /\ DOMAIN t = 1 .. n /\ \A i \in 1 .. n : t[i] \in Instructions
          BY <1>4, CodeFields
        <5>2. code'[b] = [i \in 1 .. n |-> Redirect(t[i], v, w)]
          BY <2>3, <5>1 DEF ReplaceAllUses
        <5>. HIDE DEF n, t, v, w
        <5>3. ASSUME NEW i \in 1 .. n PROVE Redirect(t[i], v, w).def = t[i].def
          BY <5>1 DEF Redirect, Instructions
        <5>4. Len(code'[b]) = n /\ \A i \in 1 .. n : code'[b][i] = Redirect(t[i], v, w)
          BY <5>1, <5>2
        <5>. QED BY <5>3, <5>4 DEF n, t
      <4>. QED BY <4>1 DEF SameDefs
    <3>. QED BY <1>2, <2>1, <3>1 DEF DefsInv
  <2>. QED BY <1>8, <2>2, <2>3 DEF ReplaceLoad
<1>9. CASE FillPhis
  <2>1. phase = "rename" /\ Running
    BY <1>9 DEF FillPhis, Renaming, Running
  <2>2. CASE phase' = phase
    BY <1>2, <1>9, <2>1, <2>2, FilledDefs DEF DefsInv
  <2>3. CASE phase' = "assert"
    BY <2>3 DEF DefsInv, Running
  <2>. QED BY <1>9, <2>2, <2>3 DEF FillPhis
<1>10. ASSUME Running, \A b \in Blocks : Thinner(code[b], code'[b]) PROVE DefsInv'
  BY <1>4, <1>10, ThinnerDefs DEF DefsInv
<1>11. CASE Leave
  <2> DEFINE K == {ins \in Range(code[Top.bb]) : ins.def \notin Top.wait}
  <2>1. ASSUME NEW b \in Blocks PROVE Thinner(code[b], code'[b])
    <3>1. code'[b] = code[b] \/ code'[b] = Kept(code[b], K)
      BY <1>4, <1>11 DEF Leave, Codes
    <3>. QED BY <1>4, <3>1, KeptThinner, SelfThinner
  <2>2. Running
    BY <1>11 DEF Leave, Renaming, Running
  <2>. QED BY <1>10, <2>1, <2>2
<1>12. CASE RemoveAlloca
  <2>1. ASSUME NEW b \in Blocks PROVE Thinner(code[b], code'[b])
    <3> DEFINE K == {ins \in Instrs(b) : ins.op # "alloca"}
    <3>1. code'[b] = Kept(code[b], K)
      BY <1>12 DEF RemoveAlloca
    <3>. HIDE DEF K
    <3>. QED BY <1>4, <3>1, KeptThinner
  <2>2. Running
    BY <1>12 DEF RemoveAlloca, Running
  <2>. QED BY <1>10, <2>1, <2>2
<1>. QED BY <1>5, <1>6, <1>7, <1>8, <1>9, <1>11, <1>12 DEF Next

(***************************************************************************)
(* The function that is given to set_instr_name.                           *)
(***************************************************************************)
LEMMA BlocksInOrder ==
  /\ Cardinality(Blocks) \in Nat /\ BlockOrder \in [1 .. Cardinality(Blocks) -> Blocks]
  /\ \A n, m \in 1 .. Cardinality(Blocks) : BlockOrder[n] = BlockOrder[m] => n = m
<1> DEFINE N == Cardinality(Blocks)
<1>1. N \in Nat /\ ExistsBijection(1 .. N, Blocks)
  BY BlocksAssumption, FS_CardinalityType
<1>2. \E f \in [1 .. N -> Blocks] : IsInjective(f)
  BY <1>1 DEF ExistsBijection, Bijection, Injection
<1>3. BlockOrder \in [1 .. N -> Blocks] /\ IsInjective(BlockOrder)
  BY <1>2 DEF BlockOrder, SetToSeq
<1>. QED BY <1>1, <1>3 DEF IsInjective

LEMMA ValuesPlaced ==
  ASSUME code \in Codes, DefsOnce(code) PROVE PlacesOf(Values)
<1> DEFINE N == Cardinality(Blocks)
           In(n) == {i \in DOMAIN code[BlockOrder[n]] : code[BlockOrder[n]][i].op # "store"}
           f == [n \in 1 .. N |-> {n} \X In(n)]
<1>1. N \in Nat /\ BlockOrder \in [1 .. N -> Blocks] /\ DOMAIN BlockOrder = 1 .. N
  BY BlocksInOrder
<1>2. ASSUME NEW n \in 1 .. N
      PROVE  /\ BlockOrder[n] \in Blocks /\ Len(code[BlockOrder[n]]) \in Nat
             /\ In(n) \subseteq 1 .. Len(code[BlockOrder[n]]) /\ IsFiniteSet({n} \X In(n))
  <2>1. BlockOrder[n] \in Blocks
    BY <1>1
  <2>2. Len(code[BlockOrder[n]]) \in Nat /\ DOMAIN code[BlockOrder[n]] = 1 .. Len(code[BlockOrder[n]])
    BY <2>1, CodeFields
  <2>3. In(n) \subseteq 1 .. Len(code[BlockOrder[n]])
    BY <2>2
  <2>. HIDE DEF In
  <2>4. IsFiniteSet(1 .. Len(code[BlockOrder[n]]))
    BY <2>2, FS_Interval
  <2>5. IsFiniteSet(In(n)) /\ IsFiniteSet({n})
    BY <2>3, <2>4, FS_Subset, FS_Singleton
  <2>. QED BY <2>1, <2>2, <2>3, <2>5, FS_Product
<1>3. Places = UNION {f[n] : n \in DOMAIN f} /\ DOMAIN f = 1 .. N
  BY <1>1 DEF Places
<1>4. IsFiniteSet(Places)
  <2> DEFINE T == {f[n] : n \in DOMAIN f}
  <2>1. IsFiniteSet(DOMAIN f)
    BY <1>1, <1>3, FS_Interval
  <2>2. f \in [DOMAIN f -> T] /\ \A t \in T : IsFiniteSet(t)
    BY <1>2
  <2>. HIDE DEF f
  <2>3. IsFiniteSet(T)
    BY <2>1, <2>2, ImageFinite
  <2>. HIDE DEF T
  <2>4. IsFiniteSet(UNION T)
    BY <2>2, <2>3, FS_UNION
  <2>. QED BY <1>3, <2>4 DEF T
<1>5. ASSUME NEW q \in Places
      PROVE  /\ q[1] \in 1 .. N /\ q[2] \in In(q[1]) /\ q = <<q[1], q[2]>>
  BY <1>1 DEF Places
<1>6. DOMAIN Values = Places /\ \A q \in Places : Values[q] = code[BlockOrder[q[1]]][q[2]].def
  BY DEF Values
<1>. HIDE DEF In, f
<1>7. Places \subseteq Nat \X Nat
  <2>1. ASSUME NEW q \in Places PROVE q \in Nat \X Nat
    <3>1. q[1] \in 1 .. N /\ q[2] \in 1 .. Len(code[BlockOrder[q[1]]]) /\ q = <<q[1], q[2]>>
      BY <1>2, <1>5
    <3>2. q[1] \in Nat /\ q[2] \in Nat
      BY <1>1, <1>2, <3>1
    <3>. QED BY <3>1, <3>2
  <2>. QED BY <2>1
<1>8. ASSUME NEW q \in Places, NEW r \in Places, Values[q] = Values[r] PROVE q = r
  <2>1. /\ q[1] \in 1 .. N /\ q[2] \in 1 .. Len(code[BlockOrder[q[1]]]) /\ q = <<q[1], q[2]>>
        /\ r[1] \in 1 .. N /\ r[2] \in 1 .. Len(code[BlockOrder[r[1]]]) /\ r = <<r[1], r[2]>>
    BY <1>2, <1>5
  <2>2. BlockOrder[q[1]] \in Blocks /\ BlockOrder[r[1]] \in Blocks
    BY <1>1, <2>1
  <2>3. code[BlockOrder[q[1]]][q[2]].def = code[BlockOrder[r[1]]][r[2]].def
    BY <1>6, <1>8
  <2>4. BlockOrder[q[1]] = BlockOrder[r[1]] /\ q[2] = r[2]
    BY <2>1, <2>2, <2>3 DEF DefsOnce
  <2>5. q[1] = r[1]
    BY <2>1, <2>4, BlocksInOrder
  <2>. QED BY <2>1, <2>4, <2>5
<1>. QED BY <1>4, <1>6, <1>7, <1>8 DEF PlacesOf, IsInjective

(***************************************************************************)
(* The rounds of set_instr_name.                                           *)
(***************************************************************************)
NamesInv ==
  /\ NamesGiven
  /\ stage = "built" => Running
  /\ stage = "printed" => Running /\ Range(Values) \subseteq DOMAIN name_

LEMMA NamesStart == RunInit => NamesInv
<1>. SUFFICES ASSUME RunInit PROVE NamesInv
  OBVIOUS
<1>1. stage = "built" /\ phase = "place" /\ name_ = <<>> /\ seq_cnt_ = 0 /\ DOMAIN <<>> = {}
  BY DEF RunInit, NamesInit, Init
<1>. QED BY <1>1 DEF NamesInv, NamesGiven, Running

LEMMA NamesRun ==
  ASSUME RenameInv, DefsInv, NamesInv, [RunNext]_allVars PROVE NamesInv'
<1>1. ASSUME UNCHANGED <<stage, name_, seq_cnt_>>, stage # "named" => UNCHANGED <<code, phase>>
      PROVE  NamesInv'
  <2>1. NamesGiven'
    BY <1>1 DEF NamesInv, NamesGiven
  <2>2. stage # "named" => Values' = Values /\ Running' = Running
    BY <1>1 DEF Values, Places, Running
  <2>. QED BY <1>1, <2>1, <2>2 DEF NamesInv, Range
<1>2. ASSUME set_instr_name(Values), UNCHANGED <<code, phase>>, Running, stage' # "built" PROVE NamesInv'
  <2>1. PlacesOf(Values)
    BY <1>2, ValuesPlaced DEF RenameInv, DefsInv
  <2>2. NamesGiven' /\ Range(Values) \subseteq DOMAIN name_'
    BY <1>2, <2>1, NamesNext DEF NamesInv
  <2>3. Range(Values)' = Range(Values) /\ Running'
    BY <1>2 DEF Values, Places, Running, Range
  <2>. QED BY <1>2, <2>2, <2>3 DEF NamesInv
<1>3. CASE UNCHANGED allVars
  BY <1>1, <1>3 DEF allVars, vars, mainVars
<1>4. CASE NameValues
  BY <1>2, <1>4 DEF NameValues, vars, NamesInv
<1>5. CASE Transform
  BY <1>1, <1>5 DEF Transform, mainVars
<1>6. CASE PrintFunction
  BY <1>2, <1>6 DEF PrintFunction, vars, Running
<1>7. CASE RunNextBlock
  BY <1>1, <1>7 DEF RunNextBlock, vars, mainVars
<1>8. CASE Stopped
  BY <1>1, <1>8 DEF Stopped, vars, mainVars
<1>. QED BY <1>3, <1>4, <1>5, <1>6, <1>7, <1>8 DEF RunNext, Compile

LEMMA NamesDistinct ==
  ASSUME RenameInv, DefsInv, NamesInv PROVE PrintedNamesUnique
<1>. SUFFICES ASSUME stage = "printed" PROVE Distinct(Values)
  BY DEF PrintedNamesUnique
<1>1. PlacesOf(Values)
  BY ValuesPlaced DEF RenameInv, DefsInv, NamesInv
<1>2. Range(Values) \subseteq DOMAIN name_ /\ \A u, v \in DOMAIN name_ : name_[u] = name_[v] => u = v
  BY DEF NamesInv, NamesGiven
<1>3. ASSUME NEW q \in DOMAIN Values, NEW r \in DOMAIN Values, q # r
      PROVE  name_[Values[q]] # name_[Values[r]]
  <2>1. Values[q] # Values[r]
    BY <1>1, <1>3 DEF PlacesOf, IsInjective
  <2>2. Values[q] \in DOMAIN name_ /\ Values[r] \in DOMAIN name_
    BY <1>2 DEF Range
  <2>. QED BY <1>2, <2>1, <2>2
<1>. QED BY <1>2, <1>3 DEF Distinct

\* Every value of a function that is printed has a name, and no two have the
\* same, though only what Mem2Reg has added is named in the second round: its
\* numbers go on where those of the first round ended.
THEOREM PrintedNamesDistinct == RunSpec => []PrintedNamesUnique
<1>1. RenameInv /\ RunInit => DefsInv /\ NamesInv
  <2>1. RenameInv /\ Init => DefsInv
    BY DefsPlaced DEF Init, RenameInv, Built, DefsInv
  <2>. QED BY <2>1, NamesStart DEF RunInit
<1>2. RenameInv /\ RenameInv' /\ DefsInv /\ NamesInv /\ [RunNext]_allVars => DefsInv' /\ NamesInv'
  <2>1. [RunNext]_allVars => [Next]_vars
    BY DEF RunNext, allVars, Compile, NameValues, Transform, PrintFunction, RunNextBlock, Stopped
  <2>. QED BY <2>1, DefsNext, NamesRun
<1>3. RunSpec => [](DefsInv /\ NamesInv)
  BY <1>1, <1>2, RenameInvariant, PTL DEF RunSpec
<1>4. RenameInv /\ DefsInv /\ NamesInv => PrintedNamesUnique
  BY NamesDistinct
<1>. QED BY <1>3, <1>4, RenameInvariant, PTL
=============================================================================
