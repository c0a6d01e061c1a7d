-------------------------- MODULE Dominators_proofs --------------------------
(***************************************************************************)
(* For any function whose blocks are all reachable: the pass keeps its     *)
(* types, none of its asserts fails and no null block is followed, and the *)
(* links it builds lead to blocks numbered later.                          *)
(*                                                                         *)
(* The invariant has a part for the depth-first search (every block that   *)
(* was visited, save the entry, has a predecessor that is numbered later)  *)
(* and a part for the sweeps (what the sweep has passed has a link).       *)
(***************************************************************************)
EXTENDS Passes, TLAPS, FlowGraph_proofs

Num(b) == post_order_id_[b]
Call == [bb : Blocks, i : Nat \ {0}]

(***************************************************************************)
(* The invariant of the depth-first search on function g, with the visited *)
(* blocks vis, the call stack st, the numbered blocks po and their numbers *)
(* id.                                                                     *)
(***************************************************************************)
OnStack(st) == {st[i].bb : i \in 1 .. Len(st)}
Numbered(po) == {po[j] : j \in 1 .. Len(po)}

\* A block is visited when it is on the stack or numbered, never both.
Partition(vis, st, po) ==
  /\ vis = OnStack(st) \union Numbered(po)
  /\ OnStack(st) \intersect Numbered(po) = {}
  /\ \A i, j \in 1 .. Len(st) : st[i].bb = st[j].bb => i = j
  /\ Entry \in vis

\* The stack is a path from the entry.
Chain(g, st) ==
  /\ st # <<>> => st[1].bb = Entry
  /\ \A j \in 2 .. Len(st) : st[j].bb \in SuccsIn(g, st[j - 1].bb)

Numbering(po, id) == \A j \in 1 .. Len(po) : id[po[j]] = j - 1

\* A numbered block has a predecessor that is numbered later, or will be.
Parents(g, st, po) ==
  \A j \in 1 .. Len(po) :
     po[j] # Entry =>
       \E a \in Blocks : /\ po[j] \in SuccsIn(g, a)
                         /\ \/ a \in OnStack(st)
                            \/ \E m \in 1 .. Len(po) : m > j /\ po[m] = a

\* The successors a call is done with have been visited.
SuccsVisited(g, vis, st, po) ==
  /\ \A i \in 1 .. Len(st) :
       /\ st[i].i <= Len(g.succ[st[i].bb]) + 1
       /\ \A n \in 1 .. st[i].i - 1 : g.succ[st[i].bb][n] \in vis
  /\ \A b \in Numbered(po) : SuccsIn(g, b) \subseteq vis

DfsInv ==
  /\ Partition(visited, stack, post_order)
  /\ Chain(graph, stack)
  /\ Numbering(post_order, post_order_id_)
  /\ Parents(graph, stack, post_order)
  /\ SuccsVisited(graph, visited, stack, post_order)

Sweeping == {"sweep", "preds", "intersect"}
Finishing == {"frontier", "runner", "done"}

LinksInv ==
  /\ stack = <<>>
  /\ idom_[Entry] = Entry
  /\ at <= Len(post_order)
  /\ \A i \in 1 .. Len(post_order) : i > at => HasIdom(post_order[i])

\* new_idom is numbered no earlier than the predecessors processed.
PredsInv ==
  /\ at > 0 /\ bb # Entry
  /\ k > 0
  /\ new_idom \in Blocks /\ HasIdom(new_idom)
  /\ pred \in Blocks /\ Num(pred) <= Num(new_idom)
  /\ \A n \in 1 .. Len(Pre) : n < k /\ HasIdom(Pre[n]) => Num(Pre[n]) <= Num(new_idom)

IntersectInv ==
  /\ k <= Len(Pre)
  /\ b1 \in Blocks /\ HasIdom(b1) /\ Num(Pre[k]) <= Num(b1)
  /\ b2 \in Blocks /\ HasIdom(b2) /\ Num(new_idom) <= Num(b2)

RunnerInv ==
  /\ \A x \in todo : x[1] \in Blocks /\ x[2] \in 1 .. Len(graph.pre[x[1]])
  /\ phase = "runner" => todo # {} /\ runner \in Blocks

IInv ==
  /\ Types /\ graph \in Graphs
  /\ DfsInv
  /\ IdomNumberedLater
  /\ phase # "abort"
  /\ phase = "dfs" => \A b \in Blocks : idom_[b] = NoBB
  /\ phase \in Sweeping => LinksInv
  /\ phase \in {"preds", "intersect"} => PredsInv
  /\ phase = "intersect" => IntersectInv
  /\ phase \in Finishing => \A b \in Blocks : HasIdom(b)
  /\ RunnerInv

(***************************************************************************)
(* The depth-first search.                                                 *)
(***************************************************************************)
DfsTypes ==
  /\ visited \subseteq Blocks
  /\ stack \in Seq(Call)
  /\ post_order_id_ \in [Blocks -> Nat]
  /\ post_order \in Seq(Blocks)

\* The innermost call and the calls around it.
LEMMA TopCall ==
  ASSUME NEW s \in Seq(Call), s # <<>>
  PROVE  /\ Len(s) \in Nat \ {0}
         /\ Last(s) = s[Len(s)] /\ Last(s) \in Call
         /\ Front(s) \in Seq(Call) /\ Len(Front(s)) = Len(s) - 1
         /\ \A i \in 1 .. Len(s) - 1 : Front(s)[i] = s[i]
<1>1. Len(s) \in Nat \ {0}
  OBVIOUS
<1>2. Last(s) = s[Len(s)] /\ Last(s) \in Call
  BY <1>1 DEF Last
<1> DEFINE f == Front(s)
<1>3. f = [i \in 1 .. Len(s) - 1 |-> s[i]]
  <2>1. Len(s) - 1 \in 0 .. Len(s) /\ f = SubSeq(s, 1, Len(s) - 1)
    BY <1>1 DEF Front
  <2>. HIDE DEF f
  <2>. QED BY <1>1, <2>1
<1>4. \A i \in 1 .. Len(s) - 1 : s[i] \in Call
  BY <1>1
<1>. HIDE DEF f
<1>5. f \in Seq(Call) /\ Len(f) = Len(s) - 1
  BY <1>1, <1>3, <1>4
<1>6. \A i \in 1 .. Len(s) - 1 : f[i] = s[i]
  BY <1>3
<1>. QED BY <1>1, <1>2, <1>5, <1>6 DEF f

\* The same calls, the innermost at its next successor.
Advanced(s) == Append(Front(s), [Last(s) EXCEPT !.i = @ + 1])

\* The innermost call goes on to its next successor; the calls stay as they are.
LEMMA AdvancedCalls ==
  ASSUME NEW s \in Seq(Call), s # <<>>
  PROVE  /\ Advanced(s) \in Seq(Call) /\ Len(Advanced(s)) = Len(s)
         /\ \A i \in 1 .. Len(s) : Advanced(s)[i].bb = s[i].bb
         /\ \A i \in 1 .. Len(s) - 1 : Advanced(s)[i].i = s[i].i
         /\ Advanced(s)[Len(s)].i = s[Len(s)].i + 1
         /\ OnStack(Advanced(s)) = OnStack(s)
<1> DEFINE n == Len(s)
           c == [Last(s) EXCEPT !.i = @ + 1]
           f == Front(s)
           a == Append(f, c)
<1>1. n \in Nat \ {0} /\ f \in Seq(Call) /\ Len(f) = n - 1 /\ \A i \in 1 .. n - 1 : f[i] = s[i]
  BY TopCall
<1>2. c \in Call /\ c.bb = s[n].bb /\ c.i = s[n].i + 1
  <2>1. Last(s) \in Call /\ Last(s) = s[n]
    BY TopCall
  <2>. QED BY <2>1 DEF Call
<1>. HIDE DEF c, f
<1>3. a \in Seq(Call) /\ Len(a) = n /\ a[n] = c /\ \A i \in 1 .. n - 1 : a[i] = s[i]
  BY <1>1, <1>2
<1>4. Advanced(s) = a
  BY DEF Advanced, c, f
<1>. HIDE DEF a
<1>5. \A i \in 1 .. n : a[i].bb = s[i].bb
  BY <1>1, <1>2, <1>3
<1>6. OnStack(a) = OnStack(s)
  BY <1>3, <1>5 DEF OnStack
<1>. QED BY <1>1, <1>2, <1>3, <1>4, <1>5, <1>6

\* A call of post_order_visit is entered.
LEMMA PushedCall ==
  ASSUME NEW s \in Seq(Call), NEW c \in Call
  PROVE  /\ Append(s, c) \in Seq(Call) /\ Len(Append(s, c)) = Len(s) + 1 /\ Len(s) \in Nat
         /\ \A i \in 1 .. Len(s) : Append(s, c)[i] = s[i]
         /\ Append(s, c)[Len(s) + 1] = c
         /\ OnStack(Append(s, c)) = OnStack(s) \union {c.bb}
<1> DEFINE a == Append(s, c)
<1>1. /\ a \in Seq(Call) /\ Len(a) = Len(s) + 1 /\ Len(s) \in Nat
      /\ \A i \in 1 .. Len(s) : a[i] = s[i]
      /\ a[Len(s) + 1] = c
  OBVIOUS
<1>. HIDE DEF a
<1>2. OnStack(a) = OnStack(s) \union {c.bb}
  BY <1>1 DEF OnStack
<1>. QED BY <1>1, <1>2 DEF a

\* A call of post_order_visit returns.
LEMMA PoppedCall ==
  ASSUME NEW s \in Seq(Call), s # <<>>,
         \A i, j \in 1 .. Len(s) : s[i].bb = s[j].bb => i = j
  PROVE  /\ OnStack(s) = OnStack(Front(s)) \union {Last(s).bb}
         /\ Last(s).bb \notin OnStack(Front(s))
<1> DEFINE f == Front(s)
           n == Len(s)
<1>1. n \in Nat \ {0} /\ Len(f) = n - 1 /\ (\A i \in 1 .. n - 1 : f[i] = s[i]) /\ Last(s) = s[n]
  BY TopCall
<1>. HIDE DEF f
<1>2. Last(s).bb \notin OnStack(f)
  BY <1>1 DEF OnStack
<1>3. OnStack(s) = OnStack(f) \union {Last(s).bb}
  BY <1>1 DEF OnStack
<1>. QED BY <1>2, <1>3 DEF f

\* Numbering one more block.
LEMMA NumberedAppend ==
  ASSUME NEW po \in Seq(Blocks), NEW b \in Blocks
  PROVE  /\ Append(po, b) \in Seq(Blocks) /\ Len(Append(po, b)) = Len(po) + 1 /\ Len(po) \in Nat
         /\ \A i \in 1 .. Len(po) : Append(po, b)[i] = po[i]
         /\ Append(po, b)[Len(po) + 1] = b
         /\ Numbered(Append(po, b)) = Numbered(po) \union {b}
<1> DEFINE a == Append(po, b)
<1>1. /\ a \in Seq(Blocks) /\ Len(a) = Len(po) + 1 /\ Len(po) \in Nat
      /\ \A i \in 1 .. Len(po) : a[i] = po[i]
      /\ a[Len(po) + 1] = b
  OBVIOUS
<1>. HIDE DEF a
<1>2. Numbered(a) = Numbered(po) \union {b}
  BY <1>1 DEF Numbered
<1>. QED BY <1>1, <1>2 DEF a

\* A step of the search that keeps its part of the invariant keeps it all.
LEMMA DfsStep ==
  ASSUME IInv, phase = "dfs", phase' = "dfs",
         UNCHANGED <<graph, idomVars, resultVars>>,
         DfsTypes', DfsInv'
  PROVE  IInv'
<1>1. Types'
  BY DEF IInv, Types, DfsTypes, Call, JoinBlocks, idomVars, resultVars, MaybeBB
<1>2. \A b \in Blocks : ~HasIdom(b)'
  BY DEF IInv, HasIdom, idomVars
<1>3. IdomNumberedLater'
  BY <1>2 DEF IdomNumberedLater
<1>4. RunnerInv'
  BY DEF IInv, RunnerInv, resultVars
<1>. QED
  BY <1>1, <1>3, <1>4 DEF IInv, Sweeping, Finishing, idomVars

\* The successors of a block are blocks.
LEMMA SuccessorLists ==
  ASSUME NEW g \in Graphs, NEW a \in Blocks
  PROVE  /\ g.succ[a] \in Seq(Blocks)
         /\ SuccsIn(g, a) = {g.succ[a][n] : n \in 1 .. Len(g.succ[a])}
<1>1. g.succ[a] \in Seq(Blocks)
  BY GraphsAssumption DEF FunctionGraph, SuccsIn, EdgesOf
<1>. QED BY <1>1 DEF SuccsIn, Range

\* The search looks at the next successor of the innermost call.
LEMMA VisitSuccessorGood ==
  ASSUME IInv, VisitSuccessor
  PROVE  IInv'
<1> DEFINE n == Len(stack)
           t == Last(stack)
           b == graph.succ[t.bb][t.i]
           adv == Advanced(stack)
           c == [bb |-> b, i |-> 1]
<1>1. DfsTypes /\ DfsInv /\ graph \in Graphs /\ phase = "dfs" /\ stack # <<>>
  BY DEF IInv, Types, DfsTypes, Call, VisitSuccessor
<1>2. n \in Nat \ {0} /\ t \in Call /\ t = stack[n]
  BY <1>1, TopCall DEF DfsTypes
<1>3. t.bb \in Blocks /\ t.i \in 1 .. Len(graph.succ[t.bb])
  BY <1>1, <1>2 DEF VisitSuccessor, Top, Succ, Call
<1>4. b \in Blocks /\ b \in SuccsIn(graph, t.bb) /\ c \in Call
  BY <1>1, <1>3, SuccessorLists DEF Call
<1>5. \/ b \in visited /\ visited' = visited /\ stack' = adv
      \/ b \notin visited /\ visited' = visited \union {b} /\ stack' = Append(adv, c)
  BY DEF VisitSuccessor, Succ, Top, Advanced
<1>6. UNCHANGED <<graph, idomVars, resultVars, post_order, post_order_id_>> /\ phase' = "dfs"
  BY <1>1 DEF VisitSuccessor
<1>7. /\ adv \in Seq(Call) /\ Len(adv) = n
      /\ \A i \in 1 .. n : adv[i].bb = stack[i].bb
      /\ \A i \in 1 .. n - 1 : adv[i].i = stack[i].i
      /\ adv[n].i = t.i + 1
      /\ OnStack(adv) = OnStack(stack)
  BY <1>1, <1>2, AdvancedCalls DEF DfsTypes
<1>. HIDE DEF adv, t, n, b, c
<1>8. Partition(visited, adv, post_order) /\ Chain(graph, adv) /\ Parents(graph, adv, post_order)
  <2>1. Partition(visited, adv, post_order)
    BY <1>1, <1>7 DEF DfsInv, Partition, n
  <2>2. Chain(graph, adv)
    <3>1. \A j \in 2 .. n : j \in 1 .. n /\ j - 1 \in 1 .. n
      BY <1>2
    <3>2. adv[1].bb = Entry
      BY <1>1, <1>2, <1>7 DEF DfsInv, Chain
    <3>. QED BY <1>1, <1>7, <3>1, <3>2 DEF DfsInv, Chain, n
  <2>3. Parents(graph, adv, post_order)
    BY <1>1, <1>7 DEF DfsInv, Parents
  <2>. QED BY <2>1, <2>2, <2>3
<1>9. ASSUME NEW vis, b \in vis, visited \subseteq vis
      PROVE  SuccsVisited(graph, vis, adv, post_order)
  <2>1. ASSUME NEW i \in 1 .. n
        PROVE  /\ adv[i].i <= Len(graph.succ[adv[i].bb]) + 1
               /\ \A m \in 1 .. adv[i].i - 1 : graph.succ[adv[i].bb][m] \in vis
    <3>1. /\ stack[i].i <= Len(graph.succ[stack[i].bb]) + 1
          /\ \A m \in 1 .. stack[i].i - 1 : graph.succ[stack[i].bb][m] \in vis
      BY <1>1, <1>9 DEF DfsInv, SuccsVisited, n
    <3>2. CASE i # n
      BY <3>1, <3>2, <1>2, <1>7, SMTT(30)
    <3>3. CASE i = n
      <4>1. adv[i].bb = t.bb /\ adv[i].i = t.i + 1 /\ stack[i] = t
        BY <3>3, <1>2, <1>7
      <4>2. Len(graph.succ[t.bb]) \in Nat
        BY <1>1, <1>3, SuccessorLists
      <4>3. \A m \in 1 .. t.i : m \in 1 .. t.i - 1 \/ m = t.i
        BY <1>3, <4>2
      <4>4. t.i \in Nat /\ t.i + 1 - 1 = t.i /\ t.i + 1 <= Len(graph.succ[t.bb]) + 1
        BY <1>3, <4>2
      <4>. QED BY <4>1, <4>3, <4>4, <3>1, <1>9 DEF b
    <3>. QED BY <3>2, <3>3
  <2>2. \A x \in Numbered(post_order) : SuccsIn(graph, x) \subseteq vis
    BY <1>1, <1>9 DEF DfsInv, SuccsVisited
  <2>. QED BY <2>1, <2>2, <1>7 DEF SuccsVisited
<1>10. CASE b \in visited
  <2>1. stack' = adv /\ visited' = visited
    BY <1>5, <1>10
  <2>2. SuccsVisited(graph, visited, adv, post_order)
    BY <1>9, <1>10
  <2>3. DfsInv'
    BY <2>1, <2>2, <1>1, <1>6, <1>8 DEF DfsInv
  <2>4. DfsTypes'
    BY <2>1, <1>1, <1>6, <1>7 DEF DfsTypes
  <2>. QED BY <2>3, <2>4, <1>1, <1>6, DfsStep
<1>11. CASE b \notin visited
  <2> DEFINE st == Append(adv, c)
             vis == visited \union {b}
  <2>1. stack' = st /\ visited' = vis
    BY <1>5, <1>11
  <2>2. /\ st \in Seq(Call) /\ Len(st) = n + 1
        /\ \A i \in 1 .. n : st[i] = adv[i]
        /\ st[n + 1] = c
        /\ OnStack(st) = OnStack(adv) \union {b}
    BY <1>4, <1>7, PushedCall DEF c
  <2>3. c.bb = b /\ c.i = 1
    BY DEF c
  <2>. HIDE DEF st
  <2>4. Partition(vis, st, post_order)
    <3>1. b \notin OnStack(adv) /\ b \notin Numbered(post_order)
      BY <1>8, <1>11 DEF Partition
    <3>2. \A i \in 1 .. n : st[i].bb # b
      BY <3>1, <2>2, <1>7 DEF OnStack
    <3>3. \A i, j \in 1 .. n : st[i].bb = st[j].bb => i = j
      BY <2>2, <1>7, <1>8 DEF Partition
    <3>4. \A i \in 1 .. n + 1 : i \in 1 .. n \/ i = n + 1
      BY <1>2
    <3>5. \A i, j \in 1 .. n + 1 : st[i].bb = st[j].bb => i = j
      BY <3>2, <3>3, <3>4, <2>2, <2>3
    <3>. QED BY <3>1, <3>5, <2>2, <1>8 DEF Partition
  <2>5. Chain(graph, st)
    <3>1. st[1].bb = Entry
      BY <1>1, <1>2, <1>7, <2>2 DEF DfsInv, Chain
    <3>2. ASSUME NEW j \in 2 .. n + 1
          PROVE  st[j].bb \in SuccsIn(graph, st[j - 1].bb)
      <4>1. CASE j = n + 1
        BY <4>1, <1>2, <1>4, <1>7, <2>2, <2>3
      <4>2. CASE j \in 2 .. n
        <5>1. j - 1 \in 1 .. n /\ j \in 1 .. n
          BY <4>2, <1>2
        <5>. QED BY <5>1, <4>2, <2>2, <1>7, <1>8 DEF Chain
      <4>. QED BY <4>1, <4>2, <1>2
    <3>. QED BY <3>1, <3>2, <2>2 DEF Chain
  <2>6. Parents(graph, st, post_order)
    BY <1>8, <2>2 DEF Parents
  <2>7. SuccsVisited(graph, vis, st, post_order)
    <3>1. SuccsVisited(graph, vis, adv, post_order)
      BY <1>9
    <3>2. c.i <= Len(graph.succ[c.bb]) + 1 /\ 1 .. c.i - 1 = {}
      BY <1>1, <1>4, <2>3, SuccessorLists
    <3>3. \A i \in 1 .. n + 1 : i \in 1 .. n \/ i = n + 1
      BY <1>2
    <3>. QED BY <3>1, <3>2, <3>3, <2>2, <1>7 DEF SuccsVisited
  <2>8. DfsInv'
    BY <2>1, <2>4, <2>5, <2>6, <2>7, <1>1, <1>6 DEF DfsInv
  <2>9. DfsTypes'
    BY <2>1, <2>2, <1>1, <1>4, <1>6, <1>7 DEF DfsTypes
  <2>. QED BY <2>8, <2>9, <1>1, <1>6, DfsStep
<1>. QED BY <1>10, <1>11

\* A call returns: its block gets the next number.
LEMMA FinishVisitGood ==
  ASSUME IInv, FinishVisit
  PROVE  IInv'
<1> DEFINE n == Len(stack)
           t == Last(stack)
           f == Front(stack)
           m == Len(post_order)
           po == Append(post_order, t.bb)
           id == [post_order_id_ EXCEPT ![t.bb] = m]
<1>1. DfsTypes /\ DfsInv /\ graph \in Graphs /\ phase = "dfs" /\ stack # <<>>
  BY DEF IInv, Types, DfsTypes, Call, FinishVisit
<1>2. /\ n \in Nat \ {0} /\ t \in Call /\ t = stack[n] /\ t.bb \in Blocks
      /\ f \in Seq(Call) /\ Len(f) = n - 1
      /\ \A i \in 1 .. n - 1 : f[i] = stack[i]
  BY <1>1, TopCall DEF DfsTypes, Call
<1>3. t.i > Len(graph.succ[t.bb])
  BY DEF FinishVisit, Top, Succ
<1>4. /\ UNCHANGED <<graph, visited, idomVars, resultVars>> /\ phase' = "dfs"
      /\ stack' = f /\ post_order' = po /\ post_order_id_' = id
  BY <1>1 DEF FinishVisit, Top
<1>5. /\ OnStack(stack) = OnStack(f) \union {t.bb} /\ t.bb \notin OnStack(f)
  BY <1>1, PoppedCall DEF DfsTypes, DfsInv, Partition
<1>6. /\ po \in Seq(Blocks) /\ Len(po) = m + 1 /\ m \in Nat
      /\ \A i \in 1 .. m : po[i] = post_order[i]
      /\ po[m + 1] = t.bb
      /\ Numbered(po) = Numbered(post_order) \union {t.bb}
  BY <1>1, <1>2, NumberedAppend DEF DfsTypes
<1>7. /\ id \in [Blocks -> Nat] /\ id[t.bb] = m
      /\ \A b \in Blocks : b # t.bb => id[b] = post_order_id_[b]
  BY <1>1, <1>2, <1>6 DEF DfsTypes
<1>. HIDE DEF f, t, n, m, po, id
<1>8. t.bb \notin Numbered(post_order)
  BY <1>1, <1>5 DEF DfsInv, Partition
<1>9. DfsTypes'
  BY <1>1, <1>2, <1>4, <1>6, <1>7 DEF DfsTypes
<1>10. Partition(visited, f, po)
  <2>1. \A i, j \in 1 .. n - 1 : f[i].bb = f[j].bb => i = j
    <3>1. \A i \in 1 .. n - 1 : i \in 1 .. n
      BY <1>2
    <3>. QED BY <3>1, <1>1, <1>2 DEF DfsInv, Partition, n
  <2>. QED BY <2>1, <1>1, <1>2, <1>5, <1>6 DEF DfsInv, Partition
<1>11. Chain(graph, f)
  <2>1. ASSUME f # <<>> PROVE f[1].bb = Entry
    <3>1. Len(f) # 0
      BY <2>1, <1>2
    <3>2. 1 \in 1 .. n - 1
      BY <3>1, <1>2
    <3>. QED BY <3>2, <1>1, <1>2 DEF DfsInv, Chain
  <2>2. \A j \in 2 .. n - 1 : j \in 1 .. n - 1 /\ j - 1 \in 1 .. n - 1 /\ j \in 2 .. n
    BY <1>2
  <2>. QED BY <2>1, <2>2, <1>1, <1>2 DEF DfsInv, Chain, n
<1>12. Numbering(po, id)
  <2>1. ASSUME NEW j \in 1 .. m
        PROVE  id[po[j]] = j - 1
    <3>1. po[j] \in Numbered(post_order) /\ po[j] = post_order[j] /\ po[j] \in Blocks
      BY <1>1, <1>6 DEF Numbered, m, DfsTypes
    <3>. QED BY <3>1, <1>1, <1>7, <1>8 DEF DfsInv, Numbering, m
  <2>2. \A j \in 1 .. m + 1 : j \in 1 .. m \/ j = m + 1
    BY <1>6
  <2>. QED BY <2>1, <2>2, <1>6, <1>7 DEF Numbering
<1>13. Parents(graph, f, po)
  <2> SUFFICES ASSUME NEW j \in 1 .. m + 1, po[j] # Entry
               PROVE  \E a \in Blocks : /\ po[j] \in SuccsIn(graph, a)
                                        /\ \/ a \in OnStack(f)
                                           \/ \E l \in 1 .. m + 1 : l > j /\ po[l] = a
    BY <1>6 DEF Parents
  <2>1. CASE j \in 1 .. m
    <3>1. PICK a \in Blocks : /\ post_order[j] \in SuccsIn(graph, a)
                              /\ \/ a \in OnStack(stack)
                                 \/ \E l \in 1 .. m : l > j /\ post_order[l] = a
      BY <2>1, <1>1, <1>6 DEF DfsInv, Parents, m
    <3>2. CASE a = t.bb
      <4>1. m + 1 \in 1 .. m + 1 /\ m + 1 > j /\ po[m + 1] = a
        BY <3>2, <2>1, <1>6
      <4>. QED BY <4>1, <3>1, <2>1, <1>6
    <3>3. CASE a \in OnStack(f)
      BY <3>1, <3>3, <2>1, <1>6
    <3>4. CASE \E l \in 1 .. m : l > j /\ post_order[l] = a
      <4>1. PICK l \in 1 .. m : l > j /\ post_order[l] = a
        BY <3>4
      <4>2. l \in 1 .. m + 1 /\ po[l] = a
        BY <4>1, <1>6
      <4>. QED BY <4>1, <4>2, <3>1, <2>1, <1>6
    <3>. QED BY <3>1, <3>2, <3>3, <3>4, <1>5
  <2>2. CASE j = m + 1
    <3>1. po[j] = t.bb
      BY <2>2, <1>6
    <3>2. n # 1
      BY <3>1, <1>1, <1>2 DEF DfsInv, Chain
    <3>3. n \in 2 .. n /\ n - 1 \in 1 .. n - 1
      BY <3>2, <1>2
    <3>4. t.bb \in SuccsIn(graph, stack[n - 1].bb)
      BY <3>3, <1>1, <1>2 DEF DfsInv, Chain, n
    <3>5. stack[n - 1].bb = f[n - 1].bb /\ f[n - 1] \in Call
      BY <3>3, <1>2
    <3>6. f[n - 1].bb \in OnStack(f) /\ f[n - 1].bb \in Blocks
      BY <3>3, <3>5, <1>2 DEF OnStack, Call
    <3>. QED BY <3>1, <3>4, <3>5, <3>6
  <2>. QED BY <2>1, <2>2, <1>6
<1>14. SuccsVisited(graph, visited, f, po)
  <2>1. \A i \in 1 .. n - 1 : i \in 1 .. n
    BY <1>2
  <2>2. SuccsIn(graph, t.bb) \subseteq visited
    <3>1. n \in 1 .. n
      BY <1>2
    <3>2. \A l \in 1 .. t.i - 1 : graph.succ[t.bb][l] \in visited
      BY <3>1, <1>1, <1>2 DEF DfsInv, SuccsVisited, n
    <3>3. \A l \in 1 .. Len(graph.succ[t.bb]) : l \in 1 .. t.i - 1
      BY <1>1, <1>2, <1>3, SuccessorLists DEF Call
    <3>. QED BY <3>2, <3>3, <1>1, <1>2, SuccessorLists
  <2>. QED BY <2>1, <2>2, <1>1, <1>2, <1>6 DEF DfsInv, SuccsVisited, n
<1>15. DfsInv'
  BY <1>4, <1>10, <1>11, <1>12, <1>13, <1>14 DEF DfsInv
<1>. QED BY <1>1, <1>4, <1>9, <1>15, DfsStep

\* The first call of post_order_visit, on the entry.
LEMMA InitGood == Init => IInv
<1> SUFFICES ASSUME Init PROVE IInv
  OBVIOUS
<1> DEFINE c == [bb |-> Entry, i |-> 1]
<1>1. c \in Call /\ c.bb = Entry /\ c.i = 1
  BY BlocksAssumption DEF Call
<1>2. stack = <<c>> /\ post_order = <<>> /\ visited = {Entry} /\ graph \in Graphs
  BY DEF Init
<1>. HIDE DEF c
<1>3. /\ stack \in Seq(Call) /\ Len(stack) = 1 /\ stack[1] = c
      /\ post_order \in Seq(Blocks) /\ Len(post_order) = 0
  BY <1>1, <1>2
<1>4. Types
  BY <1>3, BlocksAssumption DEF Init, Types, Call, MaybeBB
<1>5. OnStack(stack) = {Entry} /\ Numbered(post_order) = {}
  BY <1>1, <1>3 DEF OnStack, Numbered
<1>6. Len(graph.succ[Entry]) \in Nat
  BY <1>2, BlocksAssumption, SuccessorLists
<1>7. DfsInv
  <2>1. Partition(visited, stack, post_order)
    BY <1>2, <1>3, <1>5 DEF Partition
  <2>2. Chain(graph, stack) /\ Numbering(post_order, post_order_id_) /\ Parents(graph, stack, post_order)
    BY <1>1, <1>3 DEF Chain, Numbering, Parents
  <2>3. SuccsVisited(graph, visited, stack, post_order)
    BY <1>1, <1>3, <1>5, <1>6 DEF SuccsVisited
  <2>. QED BY <2>1, <2>2, <2>3 DEF DfsInv
<1>8. \A b \in Blocks : idom_[b] = NoBB
  BY DEF Init
<1>9. IdomNumberedLater /\ RunnerInv
  BY <1>8 DEF IdomNumberedLater, HasIdom, RunnerInv, Init
<1>. QED BY <1>2, <1>4, <1>7, <1>8, <1>9 DEF IInv, Init, Sweeping, Finishing

\* A step that changes nothing keeps the invariant.
LEMMA StutterGood ==
  ASSUME IInv, UNCHANGED vars
  PROVE  IInv'
BY SMTT(30) DEF IInv, Types, DfsInv, IdomNumberedLater, HasIdom, LinksInv, PredsInv, IntersectInv,
       RunnerInv, JoinBlocks, Num, bb, Pre, vars, dfsVars, idomVars, resultVars

(***************************************************************************)
(* The sweeps.                                                             *)
(***************************************************************************)
\* The search numbers every block.
LEMMA AllNumbered ==
  ASSUME DfsInv, graph \in Graphs, stack = <<>>, visited \subseteq Blocks
  PROVE  Numbered(post_order) = Blocks
<1>1. visited = Numbered(post_order) /\ Entry \in visited
  BY DEF DfsInv, Partition, OnStack
<1>2. Closed(visited, EdgesOf(graph))
  BY <1>1 DEF DfsInv, SuccsVisited, Closed, EdgesOf
<1>3. AllReachableFrom(Entry, Blocks, Blocks, EdgesOf(graph))
  BY GraphsAssumption DEF FunctionGraph, SuccsIn, EdgesOf
<1>4. Blocks \subseteq visited
  BY <1>1, <1>2, <1>3 DEF AllReachableFrom
<1>. QED BY <1>1, <1>4

\* The predecessors of a block are the blocks that have it as a successor.
LEMMA PredecessorLists ==
  ASSUME NEW g \in Graphs, NEW b \in Blocks
  PROVE  /\ g.pre[b] \in Seq(Blocks) /\ Len(g.pre[b]) \in Nat
         /\ \A n \in 1 .. Len(g.pre[b]) : g.pre[b][n] \in Blocks
         /\ \A a \in Blocks : b \in SuccsIn(g, a) => \E n \in 1 .. Len(g.pre[b]) : g.pre[b][n] = a
<1>1. g.pre[b] \in Seq(Blocks)
  BY GraphsAssumption DEF FunctionGraph, SuccsIn, EdgesOf
<1>2. Range(g.pre[b]) = {g.pre[b][n] : n \in 1 .. Len(g.pre[b])}
  BY <1>1 DEF Range
<1>3. \A a \in Blocks : a \in Range(g.pre[b]) <=> b \in SuccsIn(g, a)
  BY GraphsAssumption DEF FunctionGraph, SuccsIn, EdgesOf
<1>. QED BY <1>1, <1>2, <1>3

\* The block a sweep has come to has a predecessor that is numbered later,
\* which the sweep has passed: it has a link.
LEMMA LaterPredecessor ==
  ASSUME IInv, phase \in Sweeping, at > 0, bb # Entry
  PROVE  /\ bb \in Blocks
         /\ \E n \in 1 .. Len(Pre) : HasIdom(Pre[n]) /\ Num(bb) < Num(Pre[n])
<1>1. /\ graph \in Graphs /\ DfsInv /\ LinksInv
      /\ post_order \in Seq(Blocks) /\ at \in 1 .. Len(post_order)
  BY DEF IInv, Types, LinksInv
<1>2. bb \in Blocks /\ Num(bb) = at - 1
  BY <1>1 DEF bb, DfsInv, Numbering, Num
<1>3. PICK a \in Blocks : /\ bb \in SuccsIn(graph, a)
                          /\ \E m \in 1 .. Len(post_order) : m > at /\ post_order[m] = a
  BY <1>1 DEF bb, DfsInv, Parents, LinksInv, OnStack
<1>4. PICK m \in 1 .. Len(post_order) : m > at /\ post_order[m] = a
  BY <1>3
<1>5. HasIdom(a) /\ Num(a) = m - 1
  BY <1>1, <1>4 DEF LinksInv, DfsInv, Numbering, Num
<1>6. PICK n \in 1 .. Len(Pre) : Pre[n] = a
  BY <1>1, <1>2, <1>3, PredecessorLists DEF Pre
<1>7. Num(bb) < Num(a)
  BY <1>1, <1>2, <1>4, <1>5
<1>. QED BY <1>2, <1>5, <1>6, <1>7

\* A step within the sweeps that keeps its part of the invariant keeps it all.
LEMMA SweepStep ==
  ASSUME IInv, UNCHANGED <<graph, dfsVars, resultVars>>,
         phase' \in Sweeping, phase # "runner",
         Types', IdomNumberedLater', LinksInv',
         phase' \in {"preds", "intersect"} => PredsInv',
         phase' = "intersect" => IntersectInv'
  PROVE  IInv'
<1>1. DfsInv'
  BY DEF IInv, DfsInv, dfsVars
<1>2. RunnerInv'
  BY DEF IInv, RunnerInv, resultVars, Sweeping
<1>. QED BY <1>1, <1>2 DEF IInv, Sweeping, Finishing

\* The sweeps begin: only the entry has a link.
LEMMA FirstSweepGood ==
  ASSUME IInv, FirstSweep
  PROVE  IInv'
<1>1. Types'
  <2>1. Len(post_order) \in Nat
    BY DEF IInv, Types
  <2>2. idom_' \in [Blocks -> MaybeBB]
    BY BlocksAssumption DEF FirstSweep, MaybeBB
  <2>. QED BY <2>1, <2>2 DEF IInv, Types, FirstSweep, dfsVars, resultVars, JoinBlocks
<1>2. \A b \in Blocks : HasIdom(b)' => b = Entry
  BY DEF FirstSweep, HasIdom
<1>3. IdomNumberedLater'
  BY <1>2 DEF IdomNumberedLater
<1>4. LinksInv'
  <2>1. Len(post_order) \in Nat
    BY DEF IInv, Types
  <2>. QED BY <2>1, BlocksAssumption DEF IInv, LinksInv, FirstSweep, dfsVars
<1>. QED BY <1>1, <1>3, <1>4, SweepStep DEF FirstSweep, Sweeping

\* A sweep that changed a link is followed by another.
LEMMA NextSweepGood ==
  ASSUME IInv, NextSweep
  PROVE  IInv'
<1>0. Len(post_order) \in Nat /\ LinksInv
  BY DEF IInv, Types, NextSweep, Sweeping
<1>1. Types'
  BY <1>0 DEF IInv, Types, NextSweep, dfsVars, resultVars, JoinBlocks
<1>2. IdomNumberedLater'
  BY DEF IInv, IdomNumberedLater, HasIdom, NextSweep, dfsVars
<1>3. LinksInv'
  BY <1>0 DEF LinksInv, NextSweep, dfsVars, HasIdom
<1>. QED BY <1>1, <1>2, <1>3, SweepStep DEF NextSweep, Sweeping

\* The entry is passed over; it has its link.
LEMMA SkipRootGood ==
  ASSUME IInv, SkipRoot
  PROVE  IInv'
<1>1. at \in Nat \ {0} /\ LinksInv /\ post_order \in Seq(Blocks)
  BY DEF IInv, Types, SkipRoot, Sweeping
<1>2. Types'
  BY <1>1 DEF IInv, Types, SkipRoot, dfsVars, resultVars, JoinBlocks
<1>3. IdomNumberedLater'
  BY DEF IInv, IdomNumberedLater, HasIdom, SkipRoot, dfsVars
<1>4. LinksInv'
  <2>1. HasIdom(post_order[at])
    BY <1>1, BlocksAssumption DEF SkipRoot, bb, LinksInv, HasIdom
  <2>2. \A i \in 1 .. Len(post_order) : i > at - 1 => i = at \/ i > at
    BY <1>1
  <2>. QED BY <1>1, <2>1, <2>2 DEF SkipRoot, LinksInv, HasIdom, dfsVars
<1>. QED BY <1>2, <1>3, <1>4, SweepStep DEF SkipRoot, Sweeping

\* assert(pred) holds: the predecessor numbered later has a link.
LEMMA FindPredGood ==
  ASSUME IInv, FindPred
  PROVE  IInv'
<1>0. phase = "sweep" /\ at > 0 /\ bb # Entry /\ LinksInv /\ graph \in Graphs
  BY DEF IInv, FindPred, Sweeping
<1>1. bb \in Blocks /\ \E n \in 1 .. Len(Pre) : HasIdom(Pre[n])
  BY <1>0, LaterPredecessor DEF Sweeping
<1>2. WithIdom # {}
  BY <1>1 DEF WithIdom
<1>3. PICK first \in WithIdom : pred' = Pre[first] /\ new_idom' = Pre[first]
  BY <1>2 DEF FindPred
<1>4. k' = 1 /\ phase' = "preds" /\ UNCHANGED <<graph, dfsVars, idom_, changed, at, b1, b2, resultVars>>
  BY <1>2 DEF FindPred
<1>5. Pre[first] \in Blocks /\ HasIdom(Pre[first])
  BY <1>0, <1>1, <1>3, PredecessorLists DEF WithIdom, Pre
<1>6. Num(Pre[first]) \in Nat
  BY <1>5 DEF IInv, Types, Num
<1>7. Types'
  BY <1>3, <1>4, <1>5 DEF IInv, Types, dfsVars, resultVars, JoinBlocks, MaybeBB
<1>8. IdomNumberedLater'
  BY <1>4 DEF IInv, IdomNumberedLater, HasIdom, dfsVars
<1>9. LinksInv'
  BY <1>0, <1>4 DEF LinksInv, HasIdom, dfsVars
<1>10. PredsInv'
  <2>1. bb' = bb /\ Pre' = Pre
    BY <1>4 DEF bb, Pre, dfsVars
  <2>2. 1 \in Nat /\ \A n \in 1 .. Len(Pre) : ~(n < 1)
    OBVIOUS
  <2>. QED BY <2>1, <2>2, <1>0, <1>3, <1>4, <1>5, <1>6 DEF PredsInv, HasIdom, Num, dfsVars
<1>. QED BY <1>0, <1>4, <1>7, <1>8, <1>9, <1>10, SweepStep DEF Sweeping

\* What a step that leaves the links, and the block being processed, alone keeps.
LEMMA SameLinks ==
  ASSUME IInv, phase \in Sweeping, UNCHANGED <<graph, dfsVars, idom_, at>>
  PROVE  /\ LinksInv' /\ IdomNumberedLater'
         /\ bb' = bb /\ Pre' = Pre
         /\ \A b : HasIdom(b)' <=> HasIdom(b)
         /\ \A b : Num(b)' = Num(b)
BY DEF IInv, LinksInv, IdomNumberedLater, HasIdom, Num, bb, Pre, dfsVars

\* What the loop over the predecessors works on.
LEMMA InPreds ==
  ASSUME IInv, phase \in {"preds", "intersect"}
  PROVE  /\ graph \in Graphs /\ LinksInv /\ PredsInv /\ IdomNumberedLater
         /\ bb \in Blocks /\ k \in Nat \ {0} /\ Len(Pre) \in Nat
         /\ \A n \in 1 .. Len(Pre) : Pre[n] \in Blocks
         /\ \A b \in Blocks : Num(b) \in Nat
<1>1. graph \in Graphs /\ LinksInv /\ PredsInv /\ IdomNumberedLater /\ k \in Nat \ {0}
  BY DEF IInv, Types, Sweeping, PredsInv
<1>2. bb \in Blocks
  BY <1>1, LaterPredecessor DEF PredsInv, Sweeping
<1>3. \A b \in Blocks : Num(b) \in Nat
  BY DEF IInv, Types, Num
<1>. QED BY <1>1, <1>2, <1>3, PredecessorLists DEF Pre

\* A predecessor without a link need not be below new_idom.
LEMMA SkipPredGood ==
  ASSUME IInv, SkipPred
  PROVE  IInv'
<1>0. phase = "preds" /\ phase' = "preds" /\ k' = k + 1 /\ k <= Len(Pre) /\ (Pre[k] = pred \/ ~HasIdom(Pre[k]))
      /\ UNCHANGED <<graph, dfsVars, idom_, changed, at, pred, new_idom, b1, b2, resultVars>>
  BY DEF SkipPred
<1>1. /\ PredsInv /\ k \in Nat \ {0} /\ Len(Pre) \in Nat
      /\ \A b \in Blocks : Num(b) \in Nat
  BY <1>0, InPreds
<1>2. LinksInv' /\ IdomNumberedLater' /\ bb' = bb /\ Pre' = Pre
      /\ (\A b : HasIdom(b)' <=> HasIdom(b)) /\ (\A b : Num(b)' = Num(b))
  BY <1>0, SameLinks DEF Sweeping
<1>3. Types'
  BY <1>0, <1>1 DEF IInv, Types, dfsVars, resultVars, JoinBlocks
<1>4. \A n \in 1 .. Len(Pre) : n < k + 1 => n < k \/ n = k
  BY <1>1
<1>5. PredsInv'
  BY <1>0, <1>1, <1>2, <1>4 DEF PredsInv
<1>. QED BY <1>0, <1>2, <1>3, <1>5, SweepStep DEF Sweeping

\* intersect is called on two blocks that have links.
LEMMA CallIntersectGood ==
  ASSUME IInv, CallIntersect
  PROVE  IInv'
<1>0. phase = "preds" /\ phase' = "intersect" /\ b1' = Pre[k] /\ b2' = new_idom /\ k <= Len(Pre) /\ HasIdom(Pre[k])
      /\ UNCHANGED <<graph, dfsVars, idom_, changed, at, k, pred, new_idom, resultVars>>
  BY DEF CallIntersect
<1>1. /\ PredsInv /\ k \in Nat \ {0} /\ Len(Pre) \in Nat
      /\ \A n \in 1 .. Len(Pre) : Pre[n] \in Blocks
      /\ \A b \in Blocks : Num(b) \in Nat
  BY <1>0, InPreds
<1>2. LinksInv' /\ IdomNumberedLater' /\ bb' = bb /\ Pre' = Pre
      /\ (\A b : HasIdom(b)' <=> HasIdom(b)) /\ (\A b : Num(b)' = Num(b))
  BY <1>0, SameLinks DEF Sweeping
<1>3. Pre[k] \in Blocks /\ new_idom \in Blocks /\ HasIdom(new_idom)
  BY <1>0, <1>1 DEF PredsInv
<1>4. Types'
  BY <1>0, <1>3 DEF IInv, Types, dfsVars, resultVars, JoinBlocks, MaybeBB
<1>5. PredsInv'
  BY <1>0, <1>1, <1>2 DEF PredsInv
<1>6. IntersectInv'
  BY <1>0, <1>1, <1>2, <1>3 DEF IntersectInv
<1>. QED BY <1>0, <1>2, <1>4, <1>5, <1>6, SweepStep DEF Sweeping

\* Following a link leads to a block with a link, numbered no earlier.
LEMMA Climb ==
  ASSUME IInv, phase \in Sweeping, NEW b \in Blocks, HasIdom(b)
  PROVE  idom_[b] \in Blocks /\ HasIdom(idom_[b]) /\ Num(b) <= Num(idom_[b])
<1>1. idom_[b] \in Blocks /\ Num(b) \in Nat
  BY DEF IInv, Types, HasIdom, MaybeBB, Num
<1>2. CASE b = Entry
  BY <1>1, <1>2 DEF IInv, LinksInv
<1>3. CASE b # Entry
  BY <1>1, <1>3 DEF IInv, IdomNumberedLater, Num, Types
<1>. QED BY <1>2, <1>3

\* Climbing keeps intersect's blocks above those it was called with.
LEMMA ClimbGood ==
  ASSUME IInv, ClimbB1 \/ ClimbB2
  PROVE  IInv'
<1>0. phase = "intersect" /\ UNCHANGED <<graph, dfsVars, idom_, changed, at, k, pred, new_idom, resultVars>>
  BY DEF ClimbB1, ClimbB2
<1>1. /\ PredsInv /\ IntersectInv /\ \A b \in Blocks : Num(b) \in Nat
      /\ \A n \in 1 .. Len(Pre) : Pre[n] \in Blocks
      /\ k \in Nat \ {0} /\ Len(Pre) \in Nat
  BY <1>0, InPreds DEF IInv
<1>2. LinksInv' /\ IdomNumberedLater' /\ bb' = bb /\ Pre' = Pre
      /\ (\A b : HasIdom(b)' <=> HasIdom(b)) /\ (\A b : Num(b)' = Num(b))
  BY <1>0, SameLinks DEF Sweeping
<1>3. /\ idom_[b1] \in Blocks /\ HasIdom(idom_[b1]) /\ Num(b1) <= Num(idom_[b1])
      /\ idom_[b2] \in Blocks /\ HasIdom(idom_[b2]) /\ Num(b2) <= Num(idom_[b2])
  BY <1>0, <1>1, Climb DEF IntersectInv, Sweeping
<1>4. /\ phase' = "intersect" /\ b1' \in {b1, idom_[b1]} /\ b2' \in {b2, idom_[b2]}
  BY <1>0, <1>1 DEF ClimbB1, ClimbB2, IntersectInv
<1>5. Types'
  BY <1>0, <1>1, <1>3, <1>4 DEF IInv, Types, dfsVars, resultVars, JoinBlocks, MaybeBB, IntersectInv
<1>6. PredsInv'
  BY <1>0, <1>1, <1>2 DEF PredsInv
<1>7. IntersectInv'
  <2>1. Pre[k] \in Blocks /\ new_idom \in Blocks
    BY <1>1 DEF IntersectInv, PredsInv
  <2>2. b1' \in Blocks /\ HasIdom(b1') /\ Num(Pre[k]) <= Num(b1')
    BY <2>1, <1>1, <1>3, <1>4 DEF IntersectInv
  <2>3. b2' \in Blocks /\ HasIdom(b2') /\ Num(new_idom) <= Num(b2')
    BY <2>1, <1>1, <1>3, <1>4 DEF IntersectInv
  <2>. QED BY <2>2, <2>3, <1>0, <1>1, <1>2 DEF IntersectInv, HasIdom, Num, dfsVars
<1>. QED BY <1>0, <1>2, <1>4, <1>5, <1>6, <1>7, SweepStep DEF Sweeping

\* The block returned is above the predecessor and the earlier ones.
LEMMA IntersectReturnsGood ==
  ASSUME IInv, IntersectReturns
  PROVE  IInv'
<1>0. phase = "intersect" /\ phase' = "preds" /\ b1 = b2 /\ new_idom' = b1 /\ k' = k + 1
      /\ UNCHANGED <<graph, dfsVars, idom_, changed, at, pred, b1, b2, resultVars>>
  BY DEF IntersectReturns
<1>1. /\ PredsInv /\ IntersectInv /\ \A b \in Blocks : Num(b) \in Nat
      /\ \A n \in 1 .. Len(Pre) : Pre[n] \in Blocks
      /\ k \in Nat \ {0} /\ Len(Pre) \in Nat
  BY <1>0, InPreds DEF IInv
<1>2. LinksInv' /\ IdomNumberedLater' /\ bb' = bb /\ Pre' = Pre
      /\ (\A b : HasIdom(b)' <=> HasIdom(b)) /\ (\A b : Num(b)' = Num(b))
  BY <1>0, SameLinks DEF Sweeping
<1>3. Types'
  BY <1>0, <1>1, SMTT(30) DEF IInv, Types, dfsVars, resultVars, JoinBlocks, MaybeBB, IntersectInv
<1>4. /\ b1 \in Blocks /\ HasIdom(b1) /\ pred \in Blocks /\ new_idom \in Blocks
      /\ Num(pred) <= Num(b1) /\ Num(new_idom) <= Num(b1) /\ Num(Pre[k]) <= Num(b1)
  BY <1>0, <1>1 DEF PredsInv, IntersectInv
<1>5. ASSUME NEW n \in 1 .. Len(Pre), n < k + 1, HasIdom(Pre[n])
      PROVE  Num(Pre[n]) <= Num(b1)
  <2>1. CASE n = k
    BY <2>1, <1>4
  <2>2. CASE n < k
    BY <2>2, <1>1, <1>4, <1>5 DEF PredsInv
  <2>. QED BY <2>1, <2>2, <1>1, <1>5
<1>6. PredsInv'
  <2>1. at' > 0 /\ bb' # Entry /\ k' > 0
    BY <1>0, <1>1, <1>2 DEF PredsInv
  <2>2. new_idom' \in Blocks /\ HasIdom(b1)' /\ pred' \in Blocks /\ Num(pred)' <= Num(b1)'
    BY <1>0, <1>2, <1>4 
  <2>3. new_idom' = b1' /\ pred' = pred /\ b1' = b1
    BY <1>0
  <2>. QED BY <2>1, <2>2, <2>3, <1>0, <1>2, <1>5 DEF PredsInv
<1>. QED BY <1>0, <1>2, <1>3, <1>6, SweepStep DEF Sweeping

\* The link of the block just processed leads to a block numbered later: to
\* the predecessor that was, or to one of its ancestors.
LEMMA SetIdomGood ==
  ASSUME IInv, SetIdom
  PROVE  IInv'
<1>0. phase = "preds" /\ phase' = "sweep" /\ k > Len(Pre) /\ at' = at - 1
      /\ idom_' = [idom_ EXCEPT ![bb] = new_idom]
      /\ UNCHANGED <<graph, dfsVars, k, pred, new_idom, b1, b2, resultVars>>
  BY DEF SetIdom
<1>1. /\ PredsInv /\ LinksInv /\ IdomNumberedLater /\ bb \in Blocks
      /\ k \in Nat \ {0} /\ Len(Pre) \in Nat
      /\ \A n \in 1 .. Len(Pre) : Pre[n] \in Blocks
      /\ \A b \in Blocks : Num(b) \in Nat
  BY <1>0, InPreds
<1>2. at \in Nat \ {0} /\ post_order \in Seq(Blocks) /\ idom_ \in [Blocks -> MaybeBB]
  BY <1>1 DEF IInv, Types, PredsInv
<1>3. new_idom \in Blocks /\ HasIdom(new_idom) /\ bb # Entry
  BY <1>1 DEF PredsInv
<1>4. Num(bb) < Num(new_idom)
  <2>1. PICK n \in 1 .. Len(Pre) : HasIdom(Pre[n]) /\ Num(bb) < Num(Pre[n])
    BY <1>0, <1>1, LaterPredecessor DEF Sweeping, PredsInv
  <2>2. n < k
    BY <1>0, <1>1
  <2>3. Num(Pre[n]) <= Num(new_idom)
    BY <2>1, <2>2, <1>1 DEF PredsInv
  <2>. QED BY <2>1, <2>3, <1>1, <1>3
<1>5. /\ idom_' \in [Blocks -> MaybeBB] /\ idom_'[bb] = new_idom
      /\ \A b \in Blocks : b # bb => idom_'[b] = idom_[b]
  BY <1>0, <1>1, <1>2, <1>3 DEF MaybeBB
<1>6. \A b \in Blocks : HasIdom(b) \/ b = bb <=> HasIdom(b)'
  BY <1>3, <1>5, BlocksAssumption DEF HasIdom
<1>7. Types'
  BY <1>0, <1>2, <1>5 DEF IInv, Types, SetIdom, dfsVars, resultVars, JoinBlocks
<1>8. IdomNumberedLater'
  <2> SUFFICES ASSUME NEW b \in Blocks \ {Entry}, HasIdom(b)'
               PROVE  HasIdom(idom_[b])' /\ (post_order_id_[b] < post_order_id_[idom_[b]])'
    BY DEF IdomNumberedLater
  <2>1. CASE b = bb
    <3>1. HasIdom(idom_[b])'
      BY <2>1, <1>3, <1>5, <1>6 DEF HasIdom
    <3>. QED BY <3>1, <2>1, <1>0, <1>4, <1>5 DEF Num, dfsVars
  <2>2. CASE b # bb
    <3>1. /\ HasIdom(b) /\ idom_'[b] = idom_[b] /\ idom_[b] \in Blocks
          /\ HasIdom(idom_[b]) /\ post_order_id_[b] < post_order_id_[idom_[b]]
      BY <2>2, <1>1, <1>2, <1>5, <1>6 DEF IdomNumberedLater, HasIdom, MaybeBB
    <3>2. HasIdom(idom_[b])'
      BY <3>1, <1>6 DEF HasIdom
    <3>. QED BY <3>1, <3>2, <1>0 DEF dfsVars
  <2>. QED BY <2>1, <2>2
<1>9. LinksInv'
  <2>1. idom_'[Entry] = Entry
    BY <1>1, <1>3, <1>5, BlocksAssumption DEF LinksInv
  <2>2. ASSUME NEW i \in 1 .. Len(post_order), i > at - 1
        PROVE  HasIdom(post_order[i])'
    <3>1. post_order[i] \in Blocks /\ (i = at \/ i > at)
      BY <2>2, <1>2
    <3>2. post_order[i] = bb \/ HasIdom(post_order[i])
      BY <3>1, <1>1 DEF LinksInv, bb
    <3>3. HasIdom(post_order[i])' <=> idom_'[post_order[i]] # NoBB
      BY <1>0 DEF HasIdom, dfsVars
    <3>. QED BY <3>1, <3>2, <3>3, <1>6 DEF HasIdom
  <2>. QED BY <2>1, <2>2, <1>0, <1>1, <1>2 DEF LinksInv, dfsVars
<1>. QED BY <1>0, <1>7, <1>8, <1>9, SweepStep DEF Sweeping

(***************************************************************************)
(* The frontiers and the tree.                                             *)
(***************************************************************************)
\* A step after the sweeps that keeps its part of the invariant keeps it all.
LEMMA FrontierStep ==
  ASSUME IInv, UNCHANGED <<graph, dfsVars, idomVars>>,
         phase' \in Finishing, \A b \in Blocks : HasIdom(b), Types', RunnerInv'
  PROVE  IInv'
<1>1. DfsInv'
  BY DEF IInv, DfsInv, dfsVars
<1>2. IdomNumberedLater' /\ \A b \in Blocks : HasIdom(b)'
  BY DEF IInv, IdomNumberedLater, HasIdom, dfsVars, idomVars
<1>. QED BY <1>1, <1>2 DEF IInv, Sweeping, Finishing

\* The sweeps are over: every block has a link.
LEMMA StartFrontierGood ==
  ASSUME IInv, StartFrontier
  PROVE  IInv'
<1>0. phase = "sweep" /\ at = 0 /\ phase' = "frontier"
      /\ todo' = UNION {{b} \X (1 .. Len(graph.pre[b])) : b \in JoinBlocks}
      /\ UNCHANGED <<graph, dfsVars, idomVars, runner, dom_frontier_, dom_tree_succ_blocks_>>
  BY DEF StartFrontier
<1>1. LinksInv /\ DfsInv /\ graph \in Graphs /\ visited \subseteq Blocks /\ stack = <<>>
  BY <1>0 DEF IInv, Types, Sweeping, LinksInv
<1>2. \A b \in Blocks : HasIdom(b)
  <2>1. Numbered(post_order) = Blocks
    BY <1>1, AllNumbered
  <2>2. \A i \in 1 .. Len(post_order) : HasIdom(post_order[i])
    BY <1>0, <1>1 DEF LinksInv
  <2>. QED BY <2>1, <2>2 DEF Numbered
<1>3. \A b \in Blocks : Len(graph.pre[b]) \in Nat
  BY <1>1, PredecessorLists
<1>4. \A x \in todo' : x[1] \in JoinBlocks /\ x[2] \in 1 .. Len(graph.pre[x[1]])
                       /\ x = <<x[1], x[2]>>
  BY <1>0
<1>5. todo' \subseteq JoinBlocks \X Nat
  BY <1>3, <1>4 DEF JoinBlocks
<1>6. Types'
  BY <1>0, <1>5 DEF IInv, Types, JoinBlocks, dfsVars, idomVars
<1>7. RunnerInv'
  BY <1>0, <1>4 DEF RunnerInv, JoinBlocks
<1>. QED BY <1>0, <1>2, <1>6, <1>7, FrontierStep DEF Finishing

\* The runner begins at a predecessor.
LEMMA StartRunnerGood ==
  ASSUME IInv, StartRunner
  PROVE  IInv'
<1>0. phase = "frontier" /\ todo # {} /\ phase' = "runner" /\ runner' = graph.pre[Pair[1]][Pair[2]]
      /\ UNCHANGED <<graph, dfsVars, idomVars, todo, dom_frontier_, dom_tree_succ_blocks_>>
  BY DEF StartRunner
<1>1. Pair \in todo
  BY <1>0 DEF Pair
<1>2. runner' \in Blocks
  BY <1>0, <1>1, PredecessorLists DEF IInv, RunnerInv
<1>3. Types'
  BY <1>0, <1>2 DEF IInv, Types, JoinBlocks, dfsVars, idomVars, MaybeBB
<1>4. RunnerInv'
  BY <1>0, <1>2 DEF IInv, RunnerInv
<1>. QED BY <1>0, <1>3, <1>4, FrontierStep DEF IInv, Finishing

\* The runner never meets a block without a link.
LEMMA RunnerClimbsGood ==
  ASSUME IInv, RunnerClimbs
  PROVE  IInv'
<1>0. phase = "runner" /\ UNCHANGED <<graph, dfsVars, idomVars, todo, dom_tree_succ_blocks_>>
      /\ dom_frontier_' = [dom_frontier_ EXCEPT ![runner] = @ \union {Pair[1]}]
  BY DEF RunnerClimbs
<1>1. runner \in Blocks /\ todo # {} /\ \A b \in Blocks : HasIdom(b)
  BY <1>0 DEF IInv, RunnerInv, Finishing
<1>2. idom_[runner] \in Blocks
  BY <1>1 DEF IInv, Types, MaybeBB, HasIdom
<1>3. runner' = idom_[runner] /\ phase' = "runner"
  BY <1>0, <1>1 DEF RunnerClimbs
<1>4. Pair[1] \in Blocks
  BY <1>1 DEF Pair, IInv, RunnerInv
<1>5. dom_frontier_' \in [Blocks -> SUBSET Blocks]
  BY <1>0, <1>1, <1>4 DEF IInv, Types
<1>6. Types'
  BY <1>0, <1>2, <1>3, <1>5 DEF IInv, Types, JoinBlocks, dfsVars, idomVars, MaybeBB
<1>7. RunnerInv'
  BY <1>0, <1>1, <1>2, <1>3 DEF IInv, RunnerInv
<1>. QED BY <1>0, <1>1, <1>3, <1>6, <1>7, FrontierStep DEF Finishing

\* The runner has met the immediate dominator.
LEMMA RunnerStopsGood ==
  ASSUME IInv, RunnerStops
  PROVE  IInv'
<1>0. phase = "runner" /\ phase' = "frontier" /\ todo' \subseteq todo
      /\ UNCHANGED <<graph, dfsVars, idomVars, runner, dom_frontier_, dom_tree_succ_blocks_>>
  BY DEF RunnerStops
<1>1. Types'
  BY <1>0 DEF IInv, Types, JoinBlocks, dfsVars, idomVars
<1>2. RunnerInv'
  BY <1>0 DEF IInv, RunnerInv
<1>. QED BY <1>0, <1>1, <1>2, FrontierStep DEF IInv, Finishing

\* The tree is built from the links.
LEMMA CreateDomTreeSuccGood ==
  ASSUME IInv, CreateDomTreeSucc
  PROVE  IInv'
<1>0. phase = "frontier" /\ phase' = "done"
      /\ dom_tree_succ_blocks_' = [b \in Blocks |-> {c \in Blocks : idom_[c] = b /\ c # b}]
      /\ UNCHANGED <<graph, dfsVars, idomVars, todo, runner, dom_frontier_>>
  BY DEF CreateDomTreeSucc
<1>1. Types'
  BY <1>0 DEF IInv, Types, JoinBlocks, dfsVars, idomVars
<1>2. RunnerInv'
  BY <1>0 DEF IInv, RunnerInv
<1>. QED BY <1>0, <1>1, <1>2, FrontierStep DEF IInv, Finishing

\* Every step preserves the invariant.
LEMMA NextPreserves == IInv /\ [Next]_vars => IInv'
<1> SUFFICES ASSUME IInv, [Next]_vars PROVE IInv'
  OBVIOUS
<1>1. CASE VisitSuccessor \/ FinishVisit
  BY <1>1, VisitSuccessorGood, FinishVisitGood
<1>2. CASE FirstSweep \/ NextSweep \/ SkipRoot
  BY <1>2, FirstSweepGood, NextSweepGood, SkipRootGood
<1>3. CASE FindPred \/ SkipPred \/ CallIntersect \/ SetIdom
  BY <1>3, FindPredGood, SkipPredGood, CallIntersectGood, SetIdomGood
<1>4. CASE ClimbB1 \/ ClimbB2 \/ IntersectReturns
  BY <1>4, ClimbGood, IntersectReturnsGood
<1>5. CASE StartFrontier \/ StartRunner \/ RunnerClimbs \/ RunnerStops \/ CreateDomTreeSucc
  BY <1>5, StartFrontierGood, StartRunnerGood, RunnerClimbsGood, RunnerStopsGood,
     CreateDomTreeSuccGood
<1>6. CASE Done \/ UNCHANGED vars
  BY <1>6, StutterGood DEF Done
<1>. QED BY <1>1, <1>2, <1>3, <1>4, <1>5, <1>6 DEF Next

\* The invariant holds in every reachable state.
LEMMA Invariance == Spec => []IInv
BY InitGood, NextPreserves, PTL DEF Spec

\* On every function the builder may hand to the pass: the variables keep their
\* types, the blocks it looks up in post_order_id_, idom_, dom_frontier_ and
\* the predecessor lists are never null, and no position is past the end of
\* its list, in every phase of the pass.
THEOREM TypeCorrect == Spec => []TypeOK
<1>1. IInv => LookupsInRange
  <2> SUFFICES ASSUME IInv PROVE LookupsInRange
    OBVIOUS
  <2>1. \A n \in 1 .. Len(stack) : stack[n].i <= Len(graph.succ[stack[n].bb]) + 1
    BY DEF IInv, DfsInv, SuccsVisited
  <2>2. phase \in Sweeping => at <= Len(post_order)
    BY DEF IInv, LinksInv
  <2>3. phase \in {"preds", "intersect"} =>
          at > 0 /\ k > 0 /\ {pred, new_idom} \subseteq Blocks
    BY DEF IInv, PredsInv
  <2>4. phase = "intersect" => k <= Len(Pre) /\ {b1, b2} \subseteq Blocks
    BY DEF IInv, IntersectInv
  <2>5. /\ \A x \in todo : x[2] \in 1 .. Len(graph.pre[x[1]])
        /\ phase = "runner" => todo # {} /\ runner \in Blocks
    BY DEF IInv, RunnerInv
  <2>6. phase \in Finishing => \A b \in Blocks : idom_[b] \in Blocks
    BY DEF IInv, Types, HasIdom, MaybeBB
  <2>. QED BY <2>1, <2>2, <2>3, <2>4, <2>5, <2>6 DEF LookupsInRange, Sweeping, Finishing
<1>2. IInv => TypeOK
  BY <1>1 DEF IInv, TypeOK
<1>. QED BY <1>2, Invariance, PTL

\* assert(pred) in create_idom and the asserts of intersect never fail, and
\* create_dominance_frontier never climbs from a null block.
THEOREM NeverAborts == Spec => []NoAbort
<1>1. IInv => NoAbort
  BY DEF IInv, NoAbort
<1>. QED BY <1>1, Invariance, PTL

\* The links that create_idom builds lead to blocks numbered later, also while
\* the sweeps are under way: intersect and the runner cannot go in circles.
THEOREM LinksLeadUp == Spec => []IdomNumberedLater
<1>1. IInv => IdomNumberedLater
  BY DEF IInv
<1>. QED BY <1>1, Invariance, PTL

(***************************************************************************)
(* The result is correct.  The links keep every dominator: a dominator of  *)
(* a block, other than itself, dominates the block its link leads to, also *)
(* while the tree is half built.  A sweep that changes nothing has found   *)
(* the link of each block above all its predecessors; that makes every     *)
(* block above another one a dominator of it.                              *)
(***************************************************************************)
Edges == EdgesOf(graph)
Dom(d, b) == Dominates(d, b, Entry, Blocks, Edges)

\* The links lead from b to a: the links of a map L, or those of idom_.
Path(L, a, b) ==
  \A S \in SUBSET Blocks :
     b \in S /\ (\A x \in S : L[x] # NoBB => L[x] \in S) => a \in S

Above(a, b) == Path(idom_, a, b)

\* x may become the link of b: no strict dominator of b is passed over.
Keeps(x, b) == \A d \in Blocks : Dom(d, b) /\ d # b => Dom(d, x)

LinksKeep == \A b \in Blocks \ {Entry} : HasIdom(b) => Keeps(idom_[b], b)

\* In the first sweep no block still to come has a link; in the later ones all
\* have.
FirstOrLater ==
  \/ \A b \in Blocks : HasIdom(b)
  \/ \A b \in Blocks : Num(b) < at /\ HasIdom(b) => b = Entry

\* The link of b is above all predecessors of b.
Settled(b) == \A p \in Blocks : b \in SuccsIn(graph, p) => Above(idom_[b], p)

SettledSoFar == \A b \in Blocks \ {Entry} : at <= Num(b) => Settled(b)

MeetInv ==
  /\ Keeps(new_idom, bb)
  /\ Above(new_idom, pred)
  /\ \A n \in 1 .. Len(Pre) : n < k /\ HasIdom(Pre[n]) => Above(new_idom, Pre[n])

FingersInv ==
  /\ Keeps(b1, bb) /\ Keeps(b2, bb)
  /\ Above(b1, Pre[k]) /\ Above(b2, new_idom)

\* b belongs to the frontier of a because of its predecessor p.
Stops(a, b, p) == Dom(a, p) /\ ~(a # b /\ Dom(a, b))

FrontiersInv ==
  /\ \A a \in Blocks : dom_frontier_[a] \subseteq DominanceFrontier(a, Entry, Blocks, Edges)
  /\ \A b \in JoinBlocks : \A n \in 1 .. Len(graph.pre[b]) :
       <<b, n>> \notin todo =>
         \A a \in Blocks : Stops(a, b, graph.pre[b][n]) => b \in dom_frontier_[a]

RunnerPath ==
  LET b == Pair[1]
      p == graph.pre[Pair[1]][Pair[2]]
  IN  /\ Dom(runner, p) /\ Dom(idom_[b], runner)
      /\ \A a \in Blocks : Stops(a, b, p) => Dom(a, runner) \/ b \in dom_frontier_[a]

ResultInv ==
  /\ phase # "dfs" => stack = <<>>
  /\ LinksKeep
  /\ phase \in Sweeping =>
       /\ FirstOrLater
       /\ changed \/ SettledSoFar
  /\ phase \in {"preds", "intersect"} => MeetInv
  /\ phase = "intersect" => FingersInv
  /\ phase \notin Finishing => dom_frontier_ = [b \in Blocks |-> {}]
  /\ phase \in Finishing =>
       /\ idom_[Entry] = Entry
       /\ \A b \in Blocks \ {Entry} : Dom(idom_[b], b)
       /\ FrontiersInv
  /\ phase = "runner" => RunnerPath
  /\ phase = "done" =>
       /\ todo = {}
       /\ dom_tree_succ_blocks_ = [b \in Blocks |-> {c \in Blocks : idom_[c] = b /\ c # b}]

\* The graph of a function is one that the facts about dominance hold for.
LEMMA GraphOfFunction ==
  ASSUME NEW g \in Graphs
  PROVE  EntryGraph(Entry, Blocks, EdgesOf(g))
<1>1. AllReachableFrom(Entry, Blocks, Blocks, EdgesOf(g))
  BY GraphsAssumption DEF FunctionGraph, SuccsIn, EdgesOf
<1>2. ASSUME NEW e \in EdgesOf(g) PROVE e[2] # Entry
  <2>1. e[1] \in Blocks /\ e[2] \in SuccsIn(g, e[1])
    BY DEF EdgesOf
  <2>2. g.pre[Entry] = <<>>
    BY GraphsAssumption DEF FunctionGraph
  <2>3. \A a \in Blocks : Entry \in SuccsIn(g, a) => \E n \in 1 .. Len(g.pre[Entry]) : TRUE
    BY BlocksAssumption, PredecessorLists
  <2>. QED BY <2>1, <2>2, <2>3
<1>3. EdgesOf(g) \in SUBSET (Blocks \X Blocks)
  BY DEF EdgesOf
<1>. QED BY <1>1, <1>2, <1>3, BlocksAssumption DEF EntryGraph

\* Once the search is over every block has its number, and every block but the
\* entry a predecessor with a larger one.
LEMMA Numbers ==
  ASSUME IInv, stack = <<>>, NEW b \in Blocks
  PROVE  /\ Num(b) \in Nat /\ Num(b) < Len(post_order) /\ Len(post_order) \in Nat
         /\ Num(b) + 1 \in 1 .. Len(post_order) /\ post_order[Num(b) + 1] = b
         /\ b # Entry => \E a \in Blocks : b \in SuccsIn(graph, a) /\ Num(b) < Num(a)
<1>1. DfsInv /\ graph \in Graphs /\ visited \subseteq Blocks /\ post_order \in Seq(Blocks)
  BY DEF IInv, Types
<1>2. Numbered(post_order) = Blocks
  BY <1>1, AllNumbered
<1>3. PICK j \in 1 .. Len(post_order) : post_order[j] = b
  BY <1>2 DEF Numbered
<1>4. Num(b) = j - 1
  BY <1>1, <1>3 DEF DfsInv, Numbering, Num
<1>5. ASSUME b # Entry
      PROVE  \E a \in Blocks : b \in SuccsIn(graph, a) /\ Num(b) < Num(a)
  <2>1. PICK a \in Blocks : /\ b \in SuccsIn(graph, a)
                            /\ \E m \in 1 .. Len(post_order) : m > j /\ post_order[m] = a
    BY <1>1, <1>3, <1>5 DEF DfsInv, Parents, OnStack
  <2>2. PICK m \in 1 .. Len(post_order) : m > j /\ post_order[m] = a
    BY <2>1
  <2>3. Num(a) = m - 1
    BY <1>1, <2>2 DEF DfsInv, Numbering, Num
  <2>. QED BY <2>1, <2>2, <2>3, <1>4
<1>. QED BY <1>1, <1>3, <1>4, <1>5

\* A dominator is numbered no earlier than what it dominates.
LEMMA DominatorNumberedLater ==
  ASSUME IInv, stack = <<>>, NEW d \in Blocks, NEW b \in Blocks, Dom(d, b)
  PROVE  Num(b) <= Num(d)
<1>. SUFFICES ASSUME Num(d) < Num(b) PROVE FALSE
  BY Numbers
<1>1. EntryGraph(Entry, Blocks, Edges)
  BY GraphOfFunction DEF IInv, Edges
<1>2. d # b /\ Num(d) \in Nat
  BY Numbers
<1>3. PICK S \in SUBSET Blocks : d = Entry \/ Cut(S, d, b, Entry, Edges)
  BY <1>1, <1>2, DominatesByCut DEF Dom, EntryGraph
<1> DEFINE Outside == {x \in Blocks : Num(d) < Num(x) /\ (x \notin S \/ d = Entry)}
           Ns == {Num(x) : x \in Outside}
<1>4. b \in Outside
  BY <1>3 DEF Cut
<1>5. Ns \in SUBSET Nat /\ Ns # {} /\ Len(post_order) \in Nat /\ \A n \in Ns : n <= Len(post_order)
  <2>1. \A x \in Outside : Num(x) \in Nat /\ Num(x) <= Len(post_order)
    BY Numbers
  <2>2. Len(post_order) \in Nat
    BY Numbers
  <2>. HIDE DEF Outside
  <2>. QED BY <1>4, <2>1, <2>2
<1>6. PICK m \in Ns : \A n \in Ns : n <= m
  <2>. HIDE DEF Ns
  <2>. QED BY <1>5, Greatest
<1>7. PICK x \in Outside : m = Num(x)
  BY <1>6
<1>8. x # Entry
  <2>1. CASE d = Entry
    BY <1>7, <2>1, Numbers
  <2>2. CASE d # Entry
    BY <1>3, <1>7, <2>2 DEF Cut
  <2>. QED BY <2>1, <2>2
<1>9. PICK a \in Blocks : x \in SuccsIn(graph, a) /\ Num(x) < Num(a)
  BY <1>8, Numbers
<1>10. Num(x) \in Nat /\ Num(a) \in Nat /\ Num(d) < Num(a)
  BY <1>7, <1>9, <1>2, Numbers
<1>11. a \notin Outside
  <2>1. a \in Outside => Num(a) \in Ns
    OBVIOUS
  <2>. HIDE DEF Ns, Outside
  <2>. QED BY <2>1, <1>6, <1>7, <1>9, <1>10
<1>12. a \in S /\ d # Entry
  BY <1>10, <1>11
<1>13. <<a, x>> \in Edges
  BY <1>9 DEF Edges, EdgesOf
<1>14. x \in S \/ x = d
  BY <1>3, <1>12, <1>13 DEF Cut
<1>. QED BY <1>7, <1>12, <1>14, <1>2

\* The links lead from a block to itself, on along a link, and from above it.
LEMMA AboveSelf == ASSUME NEW b PROVE Above(b, b)
BY DEF Above, Path, HasIdom

LEMMA AboveLink ==
  ASSUME NEW b \in Blocks, HasIdom(b)
  PROVE  Above(idom_[b], b)
BY DEF Above, Path, HasIdom

LEMMA AboveTransitive ==
  ASSUME NEW a, NEW b, NEW c, Above(a, b), Above(b, c)
  PROVE  Above(a, c)
BY DEF Above, Path, HasIdom

\* What is above b, other than b, is above the block its link leads to.
LEMMA AboveNext ==
  ASSUME NEW a, NEW b \in Blocks, Above(a, b), a # b, HasIdom(b), idom_[b] \in Blocks
  PROVE  Above(a, idom_[b])
<1> SUFFICES ASSUME NEW S \in SUBSET Blocks, idom_[b] \in S,
                    \A x \in S : HasIdom(x) => idom_[x] \in S
             PROVE  a \in S
  BY DEF Above, Path, HasIdom
<1>1. S \union {b} \in SUBSET Blocks /\ \A x \in S \union {b} : HasIdom(x) => idom_[x] \in S \union {b}
  OBVIOUS
<1>2. a \in S \union {b}
  BY <1>1 DEF Above, Path, HasIdom
<1>. QED BY <1>2

\* Every dominator of a block is above it.
LEMMA DominatorsAbove ==
  ASSUME IInv, ResultInv, phase # "dfs", idom_[Entry] = Entry,
         NEW b \in Blocks, HasIdom(b), NEW d \in Blocks, Dom(d, b)
  PROVE  Above(d, b)
<1> SUFFICES ASSUME NEW S \in SUBSET Blocks, b \in S, \A x \in S : HasIdom(x) => idom_[x] \in S, d \notin S
             PROVE  FALSE
  BY DEF Above, Path, HasIdom
<1> DEFINE Under == {x \in S : HasIdom(x) /\ Dom(d, x)}
           Ns == {Num(x) : x \in Under}
<1>1. stack = <<>> /\ LinksKeep /\ IdomNumberedLater /\ EntryGraph(Entry, Blocks, Edges)
  BY GraphOfFunction DEF IInv, ResultInv, Edges
<1>2. Ns \in SUBSET Nat /\ Ns # {} /\ Len(post_order) \in Nat /\ \A n \in Ns : n <= Len(post_order)
  <2>1. \A x \in Under : Num(x) \in Nat /\ Num(x) <= Len(post_order)
    BY <1>1, Numbers
  <2>2. Len(post_order) \in Nat
    BY <1>1, Numbers
  <2>3. b \in Under
    OBVIOUS
  <2>. HIDE DEF Under
  <2>. QED BY <2>1, <2>2, <2>3
<1>3. PICK m \in Ns : \A n \in Ns : n <= m
  <2>. HIDE DEF Ns
  <2>. QED BY <1>2, Greatest
<1>4. PICK x \in Under : m = Num(x)
  BY <1>3
<1>5. x # Entry
  <2>1. Dom(d, x) /\ x # d
    BY <1>4
  <2>. QED BY <2>1, <1>1, EntryDominated DEF Dom
<1>6. /\ idom_[x] \in S /\ HasIdom(idom_[x])
      /\ Num(x) < Num(idom_[x])
  BY <1>1, <1>4, <1>5 DEF IdomNumberedLater, Num
<1>7. Dom(d, idom_[x])
  BY <1>1, <1>4, <1>5 DEF LinksKeep, Keeps
<1>8. Num(idom_[x]) \in Ns
  BY <1>6, <1>7
<1>9. Num(x) \in Nat /\ Num(idom_[x]) \in Nat
  BY <1>1, <1>6, Numbers
<1>. HIDE DEF Ns
<1>. QED BY <1>3, <1>4, <1>6, <1>8, <1>9

\* Links that are all above the predecessors lead to dominators only.
LEMMA AboveDominates ==
  ASSUME graph \in Graphs, idom_ \in [Blocks -> Blocks], \A b \in Blocks : HasIdom(b),
         idom_[Entry] = Entry, \A b \in Blocks \ {Entry} : Settled(b),
         NEW a \in Blocks, NEW b \in Blocks, Above(a, b)
  PROVE  Dom(a, b)
<1>1. EntryGraph(Entry, Blocks, Edges) /\ Entry \in Blocks
  BY GraphOfFunction, BlocksAssumption DEF Edges
<1>2. CASE a = Entry \/ a = b
  BY <1>2 DEF Dom, Dominates
<1>3. CASE a # Entry /\ a # b
  <2> DEFINE S == {x \in Blocks : ~Above(a, x)}
  <2>1. ~Above(a, Entry)
    <3>1. {Entry} \in SUBSET Blocks /\ \A x \in {Entry} : HasIdom(x) => idom_[x] \in {Entry}
      BY <1>1
    <3>. QED BY <3>1, <1>3 DEF Above, Path, HasIdom
  <2>2. ASSUME NEW e \in Edges, e[1] \in S, e[2] \notin S, e[2] # a
        PROVE  FALSE
    <3>1. e[1] \in Blocks /\ e[2] \in Blocks \ {Entry} /\ e[2] \in SuccsIn(graph, e[1])
      BY <1>1 DEF EntryGraph, Edges, EdgesOf
    <3>2. Above(a, e[2])
      BY <2>2, <3>1
    <3>3. Above(a, idom_[e[2]])
      BY <2>2, <3>1, <3>2, AboveNext
    <3>4. Above(idom_[e[2]], e[1])
      BY <3>1 DEF Settled
    <3>5. Above(a, e[1])
      BY <3>3, <3>4, AboveTransitive
    <3>. QED BY <3>5, <2>2
  <2>3. Above(a, a)
    BY AboveSelf
  <2>4. Cut(S, a, b, Entry, Edges)
    <3>1. Entry \in S /\ a \notin S /\ b \notin S
      BY <1>1, <2>1, <2>3
    <3>. HIDE DEF S
    <3>. QED BY <2>2, <3>1 DEF Cut
  <2>5. S \in SUBSET Blocks
    OBVIOUS
  <2>. HIDE DEF S
  <2>. QED BY <1>1, <2>4, <2>5, DominatesByCut DEF Dom, EntryGraph
<1>. QED BY <1>2, <1>3

\* Dominance does not change while the function does not.
LEMMA SameDominance ==
  ASSUME UNCHANGED graph
  PROVE  /\ Edges' = Edges
         /\ \A d, b : Dom(d, b)' <=> Dom(d, b)
         /\ \A x, b : Keeps(x, b)' <=> Keeps(x, b)
<1>1. Edges' = Edges
  BY DEF Edges
<1>2. \A d, b : Dom(d, b)' <=> Dom(d, b)
  BY <1>1 DEF Dom
<1>. QED BY <1>1, <1>2 DEF Keeps

\* Nor does what is above what, while no link does.
LEMMA SameAbove ==
  ASSUME UNCHANGED <<graph, idom_>>
  PROVE  /\ \A a, b : Above(a, b)' <=> Above(a, b)
         /\ \A b : Settled(b)' <=> Settled(b)
         /\ \A b : HasIdom(b)' <=> HasIdom(b)
         /\ LinksKeep' <=> LinksKeep
<1>1. \A a, b : Above(a, b)' <=> Above(a, b)
  BY DEF Above
<1>2. \A b : HasIdom(b)' <=> HasIdom(b)
  BY DEF HasIdom
<1>3. \A b : Settled(b)' <=> Settled(b)
  BY <1>1 DEF Settled
<1>4. LinksKeep' <=> LinksKeep
  BY <1>2, SameDominance DEF LinksKeep
<1>. QED BY <1>1, <1>2, <1>3, <1>4

\* The entries of a list of predecessors are the sources of edges.
LEMMA PredecessorEdge ==
  ASSUME NEW g \in Graphs, NEW b \in Blocks, NEW n \in 1 .. Len(g.pre[b])
  PROVE  /\ g.pre[b][n] \in Blocks /\ b \in SuccsIn(g, g.pre[b][n])
         /\ <<g.pre[b][n], b>> \in EdgesOf(g)
<1>1. g.pre[b] \in Seq(Blocks)
  BY GraphsAssumption DEF FunctionGraph, SuccsIn, EdgesOf
<1>2. g.pre[b][n] \in Blocks /\ g.pre[b][n] \in Range(g.pre[b])
  BY <1>1 DEF Range
<1>3. \A a \in Blocks : a \in Range(g.pre[b]) <=> b \in SuccsIn(g, a)
  BY GraphsAssumption DEF FunctionGraph, SuccsIn, EdgesOf
<1>. QED BY <1>2, <1>3 DEF EdgesOf

\* The search sets no link.
LEMMA DfsResult ==
  ASSUME IInv', ResultInv, VisitSuccessor \/ FinishVisit
  PROVE  ResultInv'
<1>1. phase = "dfs" /\ phase' = "dfs" /\ UNCHANGED <<graph, idom_, dom_frontier_>>
  BY DEF VisitSuccessor, FinishVisit, idomVars, resultVars
<1>2. LinksKeep'
  BY <1>1, SameAbove DEF ResultInv
<1>. QED BY <1>1, <1>2 DEF ResultInv, Sweeping, Finishing

\* In the first sweep only the entry has a link.
LEMMA FirstSweepResult ==
  ASSUME IInv, IInv', ResultInv, FirstSweep
  PROVE  ResultInv'
<1>1. /\ phase = "dfs" /\ phase' = "sweep" /\ stack' = <<>>
      /\ UNCHANGED <<graph, post_order, dom_frontier_>> /\ at' = Len(post_order')
      /\ Len(post_order) \in Nat /\ post_order \in Seq(Blocks)
  BY DEF FirstSweep, dfsVars, resultVars, IInv, Types
<1>2. \A b \in Blocks : HasIdom(b)' => b = Entry
  BY DEF FirstSweep, HasIdom
<1>3. LinksKeep'
  BY <1>2 DEF LinksKeep
<1>4. FirstOrLater'
  BY <1>1, <1>2 DEF FirstOrLater
<1>5. SettledSoFar'
  <2>1. \A b \in Blocks : Num(b)' = Num(b) /\ ~(Len(post_order) <= Num(b))
    <3>1. stack = <<>> /\ UNCHANGED post_order_id_
      BY DEF FirstSweep, dfsVars
    <3>. QED BY <3>1, Numbers DEF Num
  <2>2. \A b \in Blocks : ~(at' <= Num(b)')
    BY <1>1, <2>1
  <2>. QED BY <2>2 DEF SettledSoFar
<1>. QED BY <1>1, <1>3, <1>4, <1>5 DEF ResultInv, Sweeping, Finishing

\* What remains to be shown of a step of the sweeps.
LEMMA SweepResultStep ==
  ASSUME ResultInv, phase \in Sweeping, phase' \in Sweeping,
         UNCHANGED <<graph, dfsVars, resultVars>>,
         LinksKeep', FirstOrLater',
         (changed \/ SettledSoFar)',
         phase' \in {"preds", "intersect"} => MeetInv',
         phase' = "intersect" => FingersInv'
  PROVE  ResultInv'
<1>1. dom_frontier_' = [b \in Blocks |-> {}] /\ stack' = <<>>
  BY DEF ResultInv, Sweeping, Finishing, resultVars, dfsVars
<1>. QED BY <1>1 DEF ResultInv, Sweeping, Finishing

\* When a sweep is over all blocks have a link.
LEMMA AllLinked ==
  ASSUME IInv, phase = "sweep", at = 0
  PROVE  \A b \in Blocks : HasIdom(b)
<1>1. DfsInv /\ LinksInv /\ graph \in Graphs /\ visited \subseteq Blocks
  BY DEF IInv, Types, Sweeping
<1>2. Numbered(post_order) = Blocks
  BY <1>1, AllNumbered DEF LinksInv
<1>3. \A i \in 1 .. Len(post_order) : HasIdom(post_order[i])
  BY <1>1 DEF LinksInv
<1>. QED BY <1>2, <1>3 DEF Numbered

LEMMA NextSweepResult ==
  ASSUME IInv, ResultInv, NextSweep
  PROVE  ResultInv'
<1>1. /\ phase = "sweep" /\ phase' = "sweep" /\ at = 0 /\ at' = Len(post_order) /\ stack = <<>>
      /\ UNCHANGED <<graph, dfsVars, idom_, resultVars>>
  BY DEF NextSweep, ResultInv
<1>2. LinksKeep' /\ \A b \in Blocks : HasIdom(b)'
  BY <1>1, SameAbove, AllLinked DEF ResultInv
<1>3. \A b \in Blocks : ~(at' <= Num(b))
  BY <1>1, Numbers
<1>4. FirstOrLater' /\ SettledSoFar'
  BY <1>1, <1>2, <1>3 DEF FirstOrLater, SettledSoFar, Num, dfsVars
<1>. QED BY <1>1, <1>2, <1>4, SweepResultStep DEF Sweeping

\* The block that is processed is the one numbered at - 1.
LEMMA ProcessedNumber ==
  ASSUME IInv, ResultInv, phase \in Sweeping, at > 0
  PROVE  /\ bb \in Blocks /\ Num(bb) = at - 1 /\ at \in Nat
         /\ \A b \in Blocks : Num(b) \in Nat /\ (Num(b) = at - 1 => b = bb)
<1>1. /\ DfsInv /\ LinksInv /\ post_order \in Seq(Blocks) /\ at \in 1 .. Len(post_order)
      /\ stack = <<>>
  BY DEF IInv, Types, LinksInv
<1>2. bb \in Blocks /\ Num(bb) = at - 1
  BY <1>1 DEF bb, DfsInv, Numbering, Num
<1>3. \A b \in Blocks : Num(b) \in Nat /\ post_order[Num(b) + 1] = b
  BY <1>1, Numbers
<1>4. at - 1 + 1 = at
  BY <1>1
<1>. QED BY <1>1, <1>2, <1>3, <1>4 DEF bb

LEMMA SkipRootResult ==
  ASSUME IInv, ResultInv, SkipRoot
  PROVE  ResultInv'
<1>1. /\ phase = "sweep" /\ phase' = "sweep" /\ at > 0 /\ at' = at - 1 /\ bb = Entry
      /\ UNCHANGED <<graph, dfsVars, idom_, changed, resultVars>>
  BY DEF SkipRoot
<1>2. LinksKeep' /\ (\A b : HasIdom(b)' <=> HasIdom(b)) /\ (\A b : Settled(b)' <=> Settled(b))
      /\ \A b : Num(b)' = Num(b)
  BY <1>1, SameAbove DEF ResultInv, Num, dfsVars
<1>3. at \in Nat /\ \A b \in Blocks : Num(b) \in Nat /\ (Num(b) = at - 1 => b = Entry)
  BY <1>1, ProcessedNumber DEF Sweeping
<1>4. FirstOrLater'
  <2>1. FirstOrLater /\ \A b \in Blocks : Num(b) < at' => Num(b) < at
    BY <1>1, <1>3 DEF ResultInv, Sweeping
  <2>. QED BY <1>2, <2>1 DEF FirstOrLater
<1>5. (changed \/ SettledSoFar)'
  <2>1. \A b \in Blocks \ {Entry} : at' <= Num(b) => at <= Num(b)
    BY <1>1, <1>3
  <2>2. changed \/ SettledSoFar
    BY <1>1 DEF ResultInv, Sweeping
  <2>. QED BY <1>1, <1>2, <2>1, <2>2 DEF SettledSoFar
<1>. QED BY <1>1, <1>2, <1>4, <1>5, SweepResultStep DEF Sweeping

\* What remains to be shown of a step that leaves the links as they are.
LEMMA PredsResultStep ==
  ASSUME ResultInv, phase \in Sweeping, phase' \in {"preds", "intersect"},
         UNCHANGED <<graph, dfsVars, idom_, changed, at, resultVars>>,
         MeetInv', phase' = "intersect" => FingersInv'
  PROVE  ResultInv'
<1>1. LinksKeep' /\ (\A b : HasIdom(b)' <=> HasIdom(b)) /\ (\A b : Settled(b)' <=> Settled(b))
      /\ \A b : Num(b)' = Num(b)
  BY SameAbove DEF ResultInv, Num, dfsVars
<1>2. FirstOrLater'
  BY <1>1 DEF FirstOrLater, ResultInv
<1>3. (changed \/ SettledSoFar)'
  BY <1>1 DEF SettledSoFar, ResultInv
<1>. QED BY <1>1, <1>2, <1>3, SweepResultStep DEF Sweeping

\* What a predecessor is to the block that is processed.
LEMMA PredecessorKept ==
  ASSUME IInv, ResultInv, phase \in Sweeping, at > 0, NEW n \in 1 .. Len(Pre)
  PROVE  Pre[n] \in Blocks /\ Keeps(Pre[n], bb)
<1>1. bb \in Blocks /\ graph \in Graphs /\ EntryGraph(Entry, Blocks, Edges)
  BY ProcessedNumber, GraphOfFunction DEF IInv, Edges
<1>2. Pre[n] \in Blocks /\ <<Pre[n], bb>> \in Edges
  BY <1>1, PredecessorEdge DEF Pre, Edges
<1>. QED BY <1>1, <1>2, DominatesPredecessor DEF Keeps, Dom

LEMMA FindPredResult ==
  ASSUME IInv, IInv', ResultInv, FindPred
  PROVE  ResultInv'
<1>1. /\ phase = "sweep" /\ at > 0 /\ phase' # "abort"
      /\ UNCHANGED <<graph, dfsVars, idom_, changed, at, b1, b2, resultVars>>
  BY DEF FindPred, IInv
<1>2. PICK first \in WithIdom : pred' = Pre[first] /\ new_idom' = Pre[first] /\ k' = 1 /\ phase' = "preds"
  BY <1>1 DEF FindPred
<1>3. Pre[first] \in Blocks /\ Keeps(Pre[first], bb)
  BY <1>1, PredecessorKept DEF WithIdom, Sweeping
<1>4. bb' = bb /\ Pre' = Pre
  BY <1>1 DEF bb, Pre, dfsVars
<1>5. MeetInv'
  <2>1. Keeps(new_idom, bb)'
    BY <1>1, <1>2, <1>3, <1>4, SameDominance DEF Keeps
  <2>2. Above(new_idom, pred)'
    BY <1>2, AboveSelf DEF Above, Path
  <2>3. \A n \in 1 .. Len(Pre) : ~(n < 1)
    OBVIOUS
  <2>. QED BY <1>2, <1>4, <2>1, <2>2, <2>3 DEF MeetInv
<1>. QED BY <1>1, <1>2, <1>5, PredsResultStep DEF Sweeping

LEMMA SkipPredResult ==
  ASSUME IInv, ResultInv, SkipPred
  PROVE  ResultInv'
<1>1. /\ phase = "preds" /\ phase' = "preds" /\ k' = k + 1 /\ (Pre[k] = pred \/ ~HasIdom(Pre[k]))
      /\ UNCHANGED <<graph, dfsVars, idom_, changed, at, pred, new_idom, b1, b2, resultVars>>
  BY DEF SkipPred
<1>2. MeetInv /\ k \in Nat
  BY <1>1 DEF ResultInv, IInv, Types
<1>3. bb' = bb /\ Pre' = Pre
  BY <1>1 DEF bb, Pre, dfsVars
<1>4. (\A x, b : Keeps(x, b)' <=> Keeps(x, b)) /\ (\A a, b : Above(a, b)' <=> Above(a, b))
      /\ \A b : HasIdom(b)' <=> HasIdom(b)
  BY <1>1, SameDominance, SameAbove
<1>5. \A n \in 1 .. Len(Pre) : n < k + 1 /\ HasIdom(Pre[n]) => Above(new_idom, Pre[n])
  <2>1. \A n \in 1 .. Len(Pre) : n < k + 1 => n < k \/ n = k
    BY <1>2
  <2>. QED BY <1>1, <1>2, <2>1 DEF MeetInv
<1>6. MeetInv'
  BY <1>1, <1>2, <1>3, <1>4, <1>5 DEF MeetInv
<1>. QED BY <1>1, <1>6, PredsResultStep DEF Sweeping

LEMMA CallIntersectResult ==
  ASSUME IInv, ResultInv, CallIntersect
  PROVE  ResultInv'
<1>1. /\ phase = "preds" /\ phase' = "intersect" /\ b1' = Pre[k] /\ b2' = new_idom /\ k <= Len(Pre)
      /\ UNCHANGED <<graph, dfsVars, idom_, changed, at, k, pred, new_idom, resultVars>>
  BY DEF CallIntersect
<1>2. MeetInv /\ k \in 1 .. Len(Pre) /\ at > 0
  BY <1>1, InPreds DEF ResultInv, PredsInv
<1>3. bb' = bb /\ Pre' = Pre
  BY <1>1 DEF bb, Pre, dfsVars
<1>4. (\A x, b : Keeps(x, b)' <=> Keeps(x, b)) /\ (\A a, b : Above(a, b)' <=> Above(a, b))
      /\ \A b : HasIdom(b)' <=> HasIdom(b)
  BY <1>1, SameDominance, SameAbove
<1>5. Keeps(Pre[k], bb) /\ Above(Pre[k], Pre[k]) /\ Above(new_idom, new_idom)
  BY <1>1, <1>2, PredecessorKept, AboveSelf DEF Sweeping
<1>6. MeetInv' /\ FingersInv'
  BY <1>1, <1>2, <1>3, <1>4, <1>5 DEF MeetInv, FingersInv
<1>. QED BY <1>1, <1>6, PredsResultStep DEF Sweeping

\* The finger that is numbered earlier is itself no common dominator, so that
\* all strict dominators of the block are left above it.
LEMMA FingerClimbs ==
  ASSUME IInv, ResultInv, phase = "intersect", NEW x \in Blocks, NEW y \in Blocks,
         HasIdom(x), Num(x) < Num(y), Keeps(x, bb), Keeps(y, bb)
  PROVE  Keeps(idom_[x], bb)
<1>1. stack = <<>> /\ LinksKeep /\ graph \in Graphs /\ EntryGraph(Entry, Blocks, Edges)
  BY GraphOfFunction DEF IInv, ResultInv, Edges
<1>2. ASSUME NEW d \in Blocks, Dom(d, bb), d # bb
      PROVE  Dom(d, idom_[x])
  <2>1. Dom(d, x) /\ Dom(d, y)
    BY <1>2 DEF Keeps
  <2>2. Num(y) <= Num(d) /\ Num(x) \in Nat /\ Num(y) \in Nat /\ Num(d) \in Nat
    BY <1>1, <2>1, DominatorNumberedLater, Numbers
  <2>3. d # x
    BY <2>2
  <2>4. x # Entry
    BY <1>1, <2>1, <2>3, EntryDominated DEF Dom
  <2>. QED BY <1>1, <2>1, <2>3, <2>4 DEF LinksKeep, Keeps
<1>. QED BY <1>2 DEF Keeps

LEMMA ClimbResult ==
  ASSUME IInv, ResultInv, ClimbB1 \/ ClimbB2
  PROVE  ResultInv'
<1>1. /\ phase = "intersect"
      /\ UNCHANGED <<graph, dfsVars, idom_, changed, at, k, pred, new_idom, resultVars>>
  BY DEF ClimbB1, ClimbB2
<1>2. /\ MeetInv /\ FingersInv
      /\ b1 \in Blocks /\ HasIdom(b1) /\ b2 \in Blocks /\ HasIdom(b2)
  BY <1>1 DEF ResultInv, IInv, IntersectInv
<1>3. phase' = "intersect" /\ Keeps(b1', bb) /\ Keeps(b2', bb) /\ Above(b1', Pre[k]) /\ Above(b2', new_idom)
  <2>1. CASE ClimbB1
    <3>1. Num(b1) < Num(b2) /\ b1' = idom_[b1] /\ b2' = b2 /\ phase' = "intersect"
      BY <1>1, <1>2, <2>1 DEF ClimbB1, Num
    <3>2. Keeps(idom_[b1], bb)
      BY <1>1, <1>2, <3>1, FingerClimbs DEF FingersInv
    <3>3. Above(idom_[b1], Pre[k])
      BY <1>2, AboveLink, AboveTransitive DEF FingersInv
    <3>. QED BY <1>2, <3>1, <3>2, <3>3 DEF FingersInv
  <2>2. CASE ClimbB2
    <3>1. Num(b2) < Num(b1) /\ b2' = idom_[b2] /\ b1' = b1 /\ phase' = "intersect"
      BY <1>1, <1>2, <2>2 DEF ClimbB2, Num
    <3>2. Keeps(idom_[b2], bb)
      BY <1>1, <1>2, <3>1, FingerClimbs DEF FingersInv
    <3>3. Above(idom_[b2], new_idom)
      BY <1>2, AboveLink, AboveTransitive DEF FingersInv
    <3>. QED BY <1>2, <3>1, <3>2, <3>3 DEF FingersInv
  <2>. QED BY <2>1, <2>2
<1>4. bb' = bb /\ Pre' = Pre
  BY <1>1 DEF bb, Pre, dfsVars
<1>5. (\A x, b : Keeps(x, b)' <=> Keeps(x, b)) /\ (\A a, b : Above(a, b)' <=> Above(a, b))
      /\ \A b : HasIdom(b)' <=> HasIdom(b)
  BY <1>1, SameDominance, SameAbove
<1>6. MeetInv' /\ FingersInv'
  <2>1. MeetInv'
    BY <1>1, <1>2, <1>4, <1>5 DEF MeetInv
  <2>2. FingersInv'
    BY <1>1, <1>3, <1>4, <1>5 DEF FingersInv
  <2>. QED BY <2>1, <2>2
<1>. QED BY <1>1, <1>3, <1>6, PredsResultStep DEF Sweeping

LEMMA IntersectReturnsResult ==
  ASSUME IInv, ResultInv, IntersectReturns
  PROVE  ResultInv'
<1>1. /\ phase = "intersect" /\ phase' = "preds" /\ b1 = b2 /\ new_idom' = b1 /\ k' = k + 1
      /\ UNCHANGED <<graph, dfsVars, idom_, changed, at, pred, b1, b2, resultVars>>
  BY DEF IntersectReturns
<1>2. MeetInv /\ FingersInv /\ k \in Nat
  BY <1>1 DEF ResultInv, IInv, Types
<1>3. bb' = bb /\ Pre' = Pre
  BY <1>1 DEF bb, Pre, dfsVars
<1>4. (\A x, b : Keeps(x, b)' <=> Keeps(x, b)) /\ (\A a, b : Above(a, b)' <=> Above(a, b))
      /\ \A b : HasIdom(b)' <=> HasIdom(b)
  BY <1>1, SameDominance, SameAbove
<1>5. Above(b1, new_idom) /\ Above(b1, Pre[k]) /\ Above(b1, pred) /\ Keeps(b1, bb)
  BY <1>1, <1>2, AboveTransitive DEF FingersInv, MeetInv
<1>6. \A n \in 1 .. Len(Pre) : n < k + 1 /\ HasIdom(Pre[n]) => Above(b1, Pre[n])
  <2>1. \A n \in 1 .. Len(Pre) : n < k + 1 => n < k \/ n = k
    BY <1>2
  <2>2. \A n \in 1 .. Len(Pre) : n < k /\ HasIdom(Pre[n]) => Above(b1, Pre[n])
    BY <1>2, <1>5, AboveTransitive DEF MeetInv
  <2>. QED BY <1>5, <2>1, <2>2
<1>7. MeetInv'
  BY <1>1, <1>3, <1>4, <1>5, <1>6 DEF MeetInv
<1>. QED BY <1>1, <1>7, PredsResultStep DEF Sweeping

LEMMA SetIdomResult ==
  ASSUME IInv, ResultInv, SetIdom
  PROVE  ResultInv'
<1>1. /\ phase = "preds" /\ phase' = "sweep" /\ k > Len(Pre) /\ at' = at - 1
      /\ idom_' = [idom_ EXCEPT ![bb] = new_idom]
      /\ changed' = (changed \/ idom_[bb] # new_idom)
      /\ UNCHANGED <<graph, dfsVars, k, pred, new_idom, b1, b2, resultVars>>
  BY DEF SetIdom
<1>2. /\ MeetInv /\ FirstOrLater /\ (changed \/ SettledSoFar) /\ LinksKeep
      /\ at > 0 /\ bb # Entry /\ new_idom \in Blocks /\ graph \in Graphs
      /\ k \in Nat /\ Len(Pre) \in Nat /\ idom_ \in [Blocks -> MaybeBB]
  BY <1>1, InPreds DEF ResultInv, Sweeping, PredsInv, IInv, Types
<1>3. /\ bb \in Blocks /\ Num(bb) = at - 1 /\ at \in Nat
      /\ \A b \in Blocks : Num(b) \in Nat /\ (Num(b) = at - 1 => b = bb)
  BY <1>1, <1>2, ProcessedNumber DEF Sweeping
<1>4. idom_'[bb] = new_idom /\ \A b \in Blocks : b # bb => idom_'[b] = idom_[b]
  BY <1>1, <1>2, <1>3
<1>5. /\ \A b \in Blocks : b # bb => (HasIdom(b)' <=> HasIdom(b))
      /\ HasIdom(new_idom) /\ \A b \in Blocks : HasIdom(b) => HasIdom(b)'
  <2>1. new_idom # NoBB /\ HasIdom(new_idom)
    BY <1>1, <1>2, BlocksAssumption DEF IInv, PredsInv
  <2>. QED BY <1>4, <2>1 DEF HasIdom
<1>6. LinksKeep'
  <2> SUFFICES ASSUME NEW b \in Blocks \ {Entry}, HasIdom(b)'
               PROVE  Keeps(idom_[b], b)'
    BY DEF LinksKeep
  <2>1. \A x, y : Keeps(x, y)' <=> Keeps(x, y)
    BY <1>1, SameDominance
  <2>2. Keeps(idom_'[b], b)
    <3>1. CASE b = bb
      BY <1>2, <1>4, <3>1 DEF MeetInv
    <3>2. CASE b # bb
      BY <1>2, <1>4, <1>5, <3>2 DEF LinksKeep
    <3>. QED BY <3>1, <3>2
  <2>. QED BY <1>1, <2>1, <2>2, SameDominance DEF Keeps
<1>7. FirstOrLater'
  <2>1. \A b : Num(b)' = Num(b)
    BY <1>1 DEF Num, dfsVars
  <2>2. CASE \A b \in Blocks : HasIdom(b)
    BY <1>5, <2>2 DEF FirstOrLater
  <2>3. CASE \A b \in Blocks : Num(b) < at /\ HasIdom(b) => b = Entry
    <3>1. ASSUME NEW b \in Blocks, Num(b) < at - 1, HasIdom(b)' PROVE b = Entry
      <4>1. b # bb /\ Num(b) < at
        BY <1>3, <3>1
      <4>. QED BY <1>5, <2>3, <3>1, <4>1
    <3>. QED BY <1>1, <2>1, <3>1 DEF FirstOrLater
  <2>. QED BY <1>2, <2>2, <2>3 DEF FirstOrLater
\* Nothing changed: the link was the one found now, above all predecessors.
<1>8. (changed \/ SettledSoFar)'
  <2> SUFFICES ASSUME ~changed' PROVE SettledSoFar'
    OBVIOUS
  <2>1. ~changed /\ idom_[bb] = new_idom /\ SettledSoFar /\ idom_' = idom_
    BY <1>1, <1>2
  <2>2. \A b \in Blocks : HasIdom(b)
    <3>1. HasIdom(bb) /\ Num(bb) < at
      BY <1>2, <1>3, <2>1, BlocksAssumption DEF HasIdom
    <3>. QED BY <1>2, <1>3, <3>1 DEF FirstOrLater
  <2>3. Settled(bb)
    <3> SUFFICES ASSUME NEW p \in Blocks, bb \in SuccsIn(graph, p) PROVE Above(idom_[bb], p)
      BY DEF Settled
    <3>1. PICK n \in 1 .. Len(Pre) : Pre[n] = p
      BY <1>2, <1>3, PredecessorLists DEF Pre
    <3>2. n < k
      BY <1>1, <1>2, <3>1
    <3>. QED BY <1>2, <2>1, <2>2, <3>1, <3>2 DEF MeetInv
  <2>4. \A b : Settled(b)' <=> Settled(b)
    BY <1>1, <2>1, SameAbove
  <2>5. \A b \in Blocks \ {Entry} : at' <= Num(b) => Settled(b)
    <3>1. \A b \in Blocks : at - 1 <= Num(b) => at <= Num(b) \/ b = bb
      BY <1>3
    <3>. QED BY <1>1, <2>1, <2>3, <3>1 DEF SettledSoFar
  <2>6. \A b : Num(b)' = Num(b)
    BY <1>1 DEF Num, dfsVars
  <2>. QED BY <2>4, <2>5, <2>6 DEF SettledSoFar
<1>. QED BY <1>1, <1>6, <1>7, <1>8, SweepResultStep DEF Sweeping

\* A node of the frontier of a, in terms of an edge that ends there.
LEMMA StopsInFrontier ==
  ASSUME graph \in Graphs, NEW a \in Blocks, NEW b \in Blocks
  PROVE  b \in DominanceFrontier(a, Entry, Blocks, Edges)
           <=> \E p \in Blocks : b \in SuccsIn(graph, p) /\ Stops(a, b, p)
<1>1. \A p \in Blocks : <<p, b>> \in Edges <=> b \in SuccsIn(graph, p)
  BY DEF Edges, EdgesOf
<1>. QED BY <1>1 DEF DominanceFrontier, StrictlyDominates, Stops, Dom

\* The sweeps are over: the links lead to dominators.
LEMMA StartFrontierResult ==
  ASSUME IInv, ResultInv, StartFrontier
  PROVE  ResultInv'
<1>1. /\ phase = "sweep" /\ phase' = "frontier" /\ at = 0 /\ ~changed
      /\ todo' = UNION {{b} \X (1 .. Len(graph.pre[b])) : b \in JoinBlocks}
      /\ UNCHANGED <<graph, dfsVars, idom_, dom_frontier_>>
  BY DEF StartFrontier, idomVars
<1>2. /\ \A b \in Blocks : HasIdom(b)
      /\ idom_[Entry] = Entry /\ LinksKeep /\ graph \in Graphs /\ stack = <<>>
      /\ idom_ \in [Blocks -> MaybeBB] /\ dom_frontier_ = [b \in Blocks |-> {}]
  BY <1>1, AllLinked DEF IInv, Types, ResultInv, Sweeping, LinksInv, Finishing
<1>3. idom_ \in [Blocks -> Blocks]
  <2>1. \A b \in Blocks : idom_[b] \in Blocks
    BY <1>2 DEF HasIdom, MaybeBB
  <2>. QED BY <1>2, <2>1
<1>4. \A b \in Blocks \ {Entry} : Settled(b)
  <2>1. SettledSoFar /\ \A b \in Blocks : 0 <= Num(b)
    BY <1>1, <1>2, Numbers DEF ResultInv, Sweeping
  <2>. QED BY <1>1, <2>1 DEF SettledSoFar
<1>5. \A b \in Blocks \ {Entry} : Dom(idom_[b], b)
  <2>1. \A b \in Blocks : Above(idom_[b], b) /\ idom_[b] \in Blocks
    BY <1>2, <1>3, AboveLink
  <2>. QED BY <1>2, <1>3, <1>4, <2>1, AboveDominates
<1>6. LinksKeep' /\ (\A d, b : Dom(d, b)' <=> Dom(d, b))
  BY <1>1, <1>2, SameAbove, SameDominance
<1>7. FrontiersInv'
  <2>1. \A a \in Blocks : dom_frontier_'[a] = {}
    BY <1>1, <1>2
  <2>2. \A b \in JoinBlocks : \A n \in 1 .. Len(graph.pre[b]) : <<b, n>> \in todo'
    BY <1>1
  <2>3. JoinBlocks' = JoinBlocks
    BY <1>1 DEF JoinBlocks
  <2>. QED BY <1>1, <2>1, <2>2, <2>3 DEF FrontiersInv
<1>. QED BY <1>1, <1>2, <1>5, <1>6, <1>7 DEF ResultInv, Sweeping, Finishing, dfsVars

\* What holds while the frontiers are computed.
LEMMA InFrontiers ==
  ASSUME IInv, ResultInv, phase \in Finishing
  PROVE  /\ graph \in Graphs /\ EntryGraph(Entry, Blocks, Edges) /\ FrontiersInv /\ stack = <<>>
         /\ LinksKeep /\ idom_[Entry] = Entry /\ \A b \in Blocks : idom_[b] \in Blocks /\ HasIdom(b)
         /\ \A b \in Blocks \ {Entry} : Dom(idom_[b], b) /\ idom_[b] # b /\ Keeps(idom_[b], b)
<1>1. graph \in Graphs /\ EntryGraph(Entry, Blocks, Edges)
  BY GraphOfFunction DEF IInv, Edges
<1>2. FrontiersInv /\ stack = <<>> /\ LinksKeep /\ idom_[Entry] = Entry
      /\ \A b \in Blocks \ {Entry} : Dom(idom_[b], b)
  BY DEF ResultInv, Finishing
<1>3. \A b \in Blocks : idom_[b] \in Blocks /\ HasIdom(b) /\ post_order_id_[b] \in Nat
  BY DEF IInv, Types, HasIdom, MaybeBB, Finishing
<1>4. \A b \in Blocks \ {Entry} : idom_[b] # b
  BY <1>3 DEF IInv, IdomNumberedLater
<1>. QED BY <1>1, <1>2, <1>3, <1>4 DEF LinksKeep

\* The pair being processed is an edge into a block with several.
LEMMA PairEdge ==
  ASSUME IInv, ResultInv, phase \in Finishing, todo # {}
  PROVE  /\ Pair \in todo /\ Pair[1] \in JoinBlocks /\ Pair[1] \in Blocks \ {Entry}
         /\ Pair[2] \in 1 .. Len(graph.pre[Pair[1]]) /\ Pair = <<Pair[1], Pair[2]>>
         /\ graph.pre[Pair[1]][Pair[2]] \in Blocks
         /\ Pair[1] \in SuccsIn(graph, graph.pre[Pair[1]][Pair[2]])
         /\ <<graph.pre[Pair[1]][Pair[2]], Pair[1]>> \in Edges
<1>1. Pair \in todo
  BY DEF Pair
<1>2. Pair[1] \in JoinBlocks /\ Pair[1] \in Blocks /\ Pair = <<Pair[1], Pair[2]>>
      /\ Pair[2] \in 1 .. Len(graph.pre[Pair[1]])
  BY <1>1 DEF IInv, Types, RunnerInv, JoinBlocks
<1>3. graph \in Graphs /\ EntryGraph(Entry, Blocks, Edges)
  BY InFrontiers
<1>4. /\ graph.pre[Pair[1]][Pair[2]] \in Blocks
      /\ Pair[1] \in SuccsIn(graph, graph.pre[Pair[1]][Pair[2]])
      /\ <<graph.pre[Pair[1]][Pair[2]], Pair[1]>> \in Edges
  BY <1>2, <1>3, PredecessorEdge DEF Edges
<1>5. Pair[1] # Entry
  BY <1>3, <1>4 DEF EntryGraph
<1>. QED BY <1>1, <1>2, <1>4, <1>5

\* What remains to be shown of a step of the last phases.
LEMMA FinishResultStep ==
  ASSUME IInv, ResultInv, phase \in Finishing, phase' \in Finishing,
         UNCHANGED <<graph, dfsVars, idomVars>>,
         FrontiersInv', phase' = "runner" => RunnerPath',
         phase' = "done" =>
           /\ todo' = {}
           /\ dom_tree_succ_blocks_' = [b \in Blocks |-> {c \in Blocks : idom_[c] = b /\ c # b}]
  PROVE  ResultInv'
<1>1. UNCHANGED <<graph, idom_, stack>>
  BY DEF dfsVars, idomVars
<1>2. LinksKeep' /\ (\A d, b : Dom(d, b)' <=> Dom(d, b))
  BY <1>1, SameAbove, SameDominance DEF ResultInv
<1>3. idom_'[Entry] = Entry /\ stack' = <<>>
  BY <1>1 DEF ResultInv, Finishing
<1>4. \A b \in Blocks \ {Entry} : Dom(idom_[b], b)'
  <2>1. \A b \in Blocks \ {Entry} : Dom(idom_[b], b)
    BY DEF ResultInv
  <2>. QED BY <1>1, <2>1, SameDominance DEF Dom
<1>. QED BY <1>1, <1>2, <1>3, <1>4 DEF ResultInv, Sweeping, Finishing

LEMMA SameFrontiers ==
  ASSUME UNCHANGED graph
  PROVE  /\ \A a, b, p : Stops(a, b, p)' <=> Stops(a, b, p)
         /\ JoinBlocks' = JoinBlocks /\ Edges' = Edges
BY SameDominance DEF Stops, JoinBlocks

\* The runner begins at the predecessor.
LEMMA StartRunnerResult ==
  ASSUME IInv, ResultInv, StartRunner
  PROVE  ResultInv'
<1> DEFINE b == Pair[1]
           p == graph.pre[Pair[1]][Pair[2]]
<1>1. /\ phase = "frontier" /\ todo # {} /\ phase' = "runner" /\ runner' = p
      /\ UNCHANGED <<graph, dfsVars, idomVars, todo, dom_frontier_>>
  BY DEF StartRunner
<1>2. /\ EntryGraph(Entry, Blocks, Edges) /\ FrontiersInv
      /\ \A c \in Blocks \ {Entry} : Dom(idom_[c], c) /\ idom_[c] # c
      /\ \A c \in Blocks : idom_[c] \in Blocks
  BY <1>1, InFrontiers DEF Finishing
<1>3. b \in Blocks \ {Entry} /\ p \in Blocks /\ <<p, b>> \in Edges
  BY <1>1, PairEdge DEF Finishing
<1>4. FrontiersInv'
  BY <1>1, <1>2, SameFrontiers DEF FrontiersInv
<1>. HIDE DEF b, p
<1>5. Dom(p, p) /\ Dom(idom_[b], p)
  <2>1. Dom(idom_[b], b) /\ idom_[b] # b /\ idom_[b] \in Blocks
    BY <1>2, <1>3
  <2>2. Dom(p, p)
    BY DEF Dom, Dominates
  <2>. QED BY <1>2, <1>3, <2>1, <2>2, DominatesPredecessor DEF Dom
<1>6. RunnerPath'
  <2>1. Pair' = Pair /\ graph' = graph /\ idom_' = idom_ /\ dom_frontier_' = dom_frontier_
    BY <1>1 DEF Pair, idomVars
  <2>2. \A d, c : Dom(d, c)' <=> Dom(d, c)
    BY <2>1, SameDominance
  <2>3. Dom(runner', p) /\ Dom(idom_[b], runner')
    BY <1>1, <1>5
  <2>4. \A a \in Blocks : Stops(a, b, p) => Dom(a, runner')
    BY <1>1 DEF Stops
  <2>5. \A a, c, q : Stops(a, c, q)' <=> Stops(a, c, q)
    BY <2>1, SameFrontiers
  <2>. QED BY <2>1, <2>2, <2>3, <2>4, <2>5 DEF RunnerPath, b, p, Dom, Stops, Edges
<1>. QED BY <1>1, <1>4, <1>6, FinishResultStep DEF Finishing

\* The runner passes a block only if it dominates the predecessor and does
\* not strictly dominate the block: else it would be above the idom already.
LEMMA RunnerClimbsResult ==
  ASSUME IInv, ResultInv, RunnerClimbs
  PROVE  ResultInv'
<1> DEFINE b == Pair[1]
           p == graph.pre[Pair[1]][Pair[2]]
<1>1. /\ phase = "runner" /\ runner # idom_[b] /\ todo # {} /\ runner \in Blocks
      /\ dom_frontier_' = [dom_frontier_ EXCEPT ![runner] = @ \union {b}]
      /\ UNCHANGED <<graph, dfsVars, idomVars, todo>>
  BY DEF RunnerClimbs, IInv, RunnerInv
<1>2. /\ EntryGraph(Entry, Blocks, Edges) /\ FrontiersInv /\ graph \in Graphs
      /\ \A c \in Blocks \ {Entry} : Dom(idom_[c], c) /\ idom_[c] # c /\ Keeps(idom_[c], c)
      /\ \A c \in Blocks : idom_[c] \in Blocks /\ HasIdom(c)
  BY <1>1, InFrontiers DEF Finishing
<1>3. runner' = idom_[runner] /\ phase' = "runner"
  BY <1>1, <1>2 DEF RunnerClimbs
<1>4. b \in Blocks \ {Entry} /\ p \in Blocks /\ b \in SuccsIn(graph, p)
  BY <1>1, PairEdge DEF Finishing
<1>5. /\ Dom(runner, p) /\ Dom(idom_[b], runner)
      /\ \A a \in Blocks : Stops(a, b, p) => Dom(a, runner) \/ b \in dom_frontier_[a]
  BY <1>1 DEF ResultInv, RunnerPath
<1>6. /\ dom_frontier_'[runner] = dom_frontier_[runner] \union {b}
      /\ \A a \in Blocks : a # runner => dom_frontier_'[a] = dom_frontier_[a]
  BY <1>1 DEF IInv, Types
<1>. HIDE DEF b, p
<1>7. Stops(runner, b, p)
  <2> SUFFICES ASSUME runner # b, Dom(runner, b) PROVE FALSE
    BY <1>5 DEF Stops
  <2>1. Dom(runner, idom_[b])
    BY <1>1, <1>2, <1>4 DEF Keeps
  <2>. QED BY <2>1, <1>1, <1>2, <1>4, <1>5, DominatesAntisymmetric DEF Dom
<1>8. runner # Entry
  BY <1>1, <1>2, <1>4, <1>5, EntryDominated DEF Dom
<1>9. FrontiersInv'
  <2>1. \A a \in Blocks : dom_frontier_'[a] \subseteq DominanceFrontier(a, Entry, Blocks, Edges)
    <3>1. b \in DominanceFrontier(runner, Entry, Blocks, Edges)
      BY <1>1, <1>2, <1>4, <1>7, StopsInFrontier
    <3>. QED BY <1>2, <1>6, <3>1 DEF FrontiersInv
  <2>2. \A a \in Blocks : dom_frontier_[a] \subseteq dom_frontier_'[a]
    BY <1>6
  <2>. QED BY <1>1, <1>2, <2>1, <2>2, SameFrontiers DEF FrontiersInv
<1>10. /\ Dom(idom_[runner], p) /\ Dom(idom_[b], idom_[runner])
       /\ \A a \in Blocks : Stops(a, b, p) => Dom(a, idom_[runner]) \/ b \in dom_frontier_'[a]
  <2>1. Dom(idom_[runner], runner) /\ Keeps(idom_[runner], runner) /\ idom_[runner] \in Blocks
    BY <1>1, <1>2, <1>8
  <2>2. Dom(idom_[runner], p)
    BY <1>1, <1>2, <1>4, <1>5, <2>1, DominatesTransitive DEF Dom
  <2>3. Dom(idom_[b], idom_[runner])
    BY <1>1, <1>2, <1>4, <1>5, <2>1 DEF Keeps
  <2>4. ASSUME NEW a \in Blocks, Stops(a, b, p)
        PROVE  Dom(a, idom_[runner]) \/ b \in dom_frontier_'[a]
    <3>1. CASE a = runner
      BY <1>6, <3>1
    <3>2. CASE a # runner
      BY <1>5, <1>6, <2>1, <2>4, <3>2 DEF Keeps
    <3>. QED BY <3>1, <3>2
  <2>. QED BY <2>2, <2>3, <2>4
<1>11. RunnerPath'
  <2>1. Pair' = Pair /\ graph' = graph /\ idom_' = idom_
    BY <1>1 DEF Pair, idomVars
  <2>. QED BY <2>1, <1>3, <1>10 DEF RunnerPath, b, p, Dom, Stops, Edges
<1>. QED BY <1>1, <1>3, <1>9, <1>11, FinishResultStep DEF Finishing

\* The runner has come to the idom: all above it dominate the block strictly.
LEMMA RunnerStopsResult ==
  ASSUME IInv, ResultInv, RunnerStops
  PROVE  ResultInv'
<1> DEFINE b == Pair[1]
           p == graph.pre[Pair[1]][Pair[2]]
<1>1. /\ phase = "runner" /\ runner = idom_[b] /\ todo # {} /\ phase' = "frontier"
      /\ todo' = todo \ {Pair} /\ UNCHANGED <<graph, dfsVars, idomVars, dom_frontier_>>
  BY DEF RunnerStops, IInv, RunnerInv
<1>2. /\ EntryGraph(Entry, Blocks, Edges) /\ FrontiersInv
      /\ \A c \in Blocks \ {Entry} : Dom(idom_[c], c) /\ idom_[c] # c
      /\ \A c \in Blocks : idom_[c] \in Blocks
  BY <1>1, InFrontiers DEF Finishing
<1>3. b \in Blocks \ {Entry} /\ p \in Blocks /\ Pair = <<Pair[1], Pair[2]>>
  BY <1>1, PairEdge DEF Finishing
<1>4. \A a \in Blocks : Stops(a, b, p) => Dom(a, runner) \/ b \in dom_frontier_[a]
  BY <1>1 DEF ResultInv, RunnerPath
<1>5. ASSUME NEW a \in Blocks, Stops(a, b, p)
      PROVE  b \in dom_frontier_[a]
  <2> SUFFICES ASSUME Dom(a, idom_[b]) PROVE FALSE
    BY <1>1, <1>4, <1>5
  <2>. HIDE DEF b, p
  <2>1. Dom(a, b)
    BY <1>2, <1>3, DominatesTransitive DEF Dom
  <2>2. a = b
    BY <1>5, <2>1 DEF Stops
  <2>. QED BY <1>2, <1>3, <2>2, DominatesAntisymmetric DEF Dom
<1>6. FrontiersInv'
  <2>1. ASSUME NEW c \in JoinBlocks, NEW n \in 1 .. Len(graph.pre[c]), <<c, n>> \notin todo',
               NEW a \in Blocks, Stops(a, c, graph.pre[c][n])
        PROVE  c \in dom_frontier_[a]
    <3>1. CASE <<c, n>> \notin todo
      BY <1>2, <2>1, <3>1 DEF FrontiersInv
    <3>2. CASE <<c, n>> = Pair
      <4>1. c = Pair[1] /\ n = Pair[2]
        BY <3>2
      <4>. QED BY <1>5, <2>1, <4>1
    <3>. QED BY <1>1, <2>1, <3>1, <3>2
  <2>. QED BY <1>1, <1>2, <2>1, SameFrontiers DEF FrontiersInv
<1>. QED BY <1>1, <1>6, FinishResultStep DEF Finishing

LEMMA CreateDomTreeSuccResult ==
  ASSUME IInv, ResultInv, CreateDomTreeSucc
  PROVE  ResultInv'
<1>1. /\ phase = "frontier" /\ phase' = "done" /\ todo = {}
      /\ dom_tree_succ_blocks_' = [b \in Blocks |-> {c \in Blocks : idom_[c] = b /\ c # b}]
      /\ UNCHANGED <<graph, dfsVars, idomVars, todo, dom_frontier_>>
  BY DEF CreateDomTreeSucc
<1>2. FrontiersInv'
  BY <1>1, InFrontiers, SameFrontiers DEF FrontiersInv, Finishing
<1>. QED BY <1>1, <1>2, FinishResultStep DEF Finishing

LEMMA ResultInit == Init => ResultInv
<1> SUFFICES ASSUME Init PROVE ResultInv
  OBVIOUS
<1>1. LinksKeep
  BY DEF Init, LinksKeep, HasIdom
<1>. QED BY <1>1 DEF Init, ResultInv, Sweeping, Finishing

LEMMA ResultStutter ==
  ASSUME ResultInv, UNCHANGED vars
  PROVE  ResultInv'
<1>1. UNCHANGED <<graph, phase, idom_, changed, at, k, pred, new_idom, b1, b2, todo, runner,
                  dom_frontier_, dom_tree_succ_blocks_, stack, post_order, post_order_id_>>
  BY DEF vars, dfsVars, idomVars, resultVars
<1>2. /\ LinksKeep' <=> LinksKeep
      /\ \A b : Settled(b)' <=> Settled(b)
      /\ \A b : HasIdom(b)' <=> HasIdom(b)
      /\ \A a, b : Above(a, b)' <=> Above(a, b)
      /\ \A x, b : Keeps(x, b)' <=> Keeps(x, b)
      /\ \A d, b : Dom(d, b)' <=> Dom(d, b)
  BY <1>1, SameAbove, SameDominance
<1>3. bb' = bb /\ Pre' = Pre /\ (\A b : Num(b)' = Num(b)) /\ Pair' = Pair
  BY <1>1 DEF bb, Pre, Num, Pair
<1>4. (FirstOrLater' <=> FirstOrLater) /\ (SettledSoFar' <=> SettledSoFar)
  BY <1>1, <1>2, <1>3 DEF FirstOrLater, SettledSoFar
<1>5. (MeetInv' <=> MeetInv) /\ (FingersInv' <=> FingersInv)
  BY <1>1, <1>2, <1>3 DEF MeetInv, FingersInv, Above, Keeps, Dom, HasIdom, Edges
<1>6. (FrontiersInv' <=> FrontiersInv) /\ (RunnerPath' <=> RunnerPath)
  BY <1>1, <1>3, SameFrontiers DEF FrontiersInv, RunnerPath, Dom, Stops, Edges
<1>7. (\A b \in Blocks \ {Entry} : Dom(idom_[b], b))' <=> \A b \in Blocks \ {Entry} : Dom(idom_[b], b)
  BY <1>1 DEF Dom, Edges
<1>. QED BY <1>1, <1>2, <1>4, <1>5, <1>6, <1>7 DEF ResultInv

LEMMA ResultPreserved == IInv /\ IInv' /\ ResultInv /\ [Next]_vars => ResultInv'
<1> SUFFICES ASSUME IInv, IInv', ResultInv, [Next]_vars PROVE ResultInv'
  OBVIOUS
<1>1. CASE VisitSuccessor \/ FinishVisit
  BY <1>1, DfsResult
<1>2. CASE FirstSweep \/ NextSweep \/ SkipRoot
  BY <1>2, FirstSweepResult, NextSweepResult, SkipRootResult
<1>3. CASE FindPred \/ SkipPred \/ CallIntersect \/ SetIdom
  BY <1>3, FindPredResult, SkipPredResult, CallIntersectResult, SetIdomResult
<1>4. CASE ClimbB1 \/ ClimbB2 \/ IntersectReturns
  BY <1>4, ClimbResult, IntersectReturnsResult
<1>5. CASE StartFrontier \/ StartRunner \/ RunnerClimbs \/ RunnerStops \/ CreateDomTreeSucc
  BY <1>5, StartFrontierResult, StartRunnerResult, RunnerClimbsResult, RunnerStopsResult,
     CreateDomTreeSuccResult
<1>6. CASE Done \/ UNCHANGED vars
  BY <1>6, ResultStutter DEF Done
<1>. QED BY <1>1, <1>2, <1>3, <1>4, <1>5, <1>6 DEF Next

LEMMA ResultInvariance == Spec => [](IInv /\ ResultInv)
BY Invariance, ResultInit, ResultPreserved, PTL DEF Spec

\* The links are the immediate dominators.
LEMMA IdomCorrect ==
  ASSUME IInv, ResultInv, phase \in Finishing, NEW b \in Blocks \ {Entry}
  PROVE  ImmediateDominators(b, Entry, Blocks, Edges) = {idom_[b]}
<1>1. /\ EntryGraph(Entry, Blocks, Edges) /\ idom_[b] \in Blocks
      /\ Dom(idom_[b], b) /\ idom_[b] # b /\ Keeps(idom_[b], b)
  BY InFrontiers
<1>2. idom_[b] \in ImmediateDominators(b, Entry, Blocks, Edges)
  BY <1>1 DEF ImmediateDominators, StrictlyDominates, Keeps, Dom
<1>3. ASSUME NEW d \in ImmediateDominators(b, Entry, Blocks, Edges)
      PROVE  d = idom_[b]
  <2>1. d \in Blocks /\ Dom(d, b) /\ d # b /\ Dom(idom_[b], d)
    BY <1>1, <1>3 DEF ImmediateDominators, StrictlyDominates, Dom
  <2>2. Dom(d, idom_[b])
    BY <1>1, <2>1 DEF Keeps
  <2>. QED BY <1>1, <2>1, <2>2, DominatesAntisymmetric DEF Dom
<1>. QED BY <1>2, <1>3

\* The frontiers are complete: a block with one predecessor is in none.
LEMMA FrontierCorrect ==
  ASSUME IInv, ResultInv, phase \in Finishing, todo = {}, NEW a \in Blocks
  PROVE  dom_frontier_[a] = DominanceFrontier(a, Entry, Blocks, Edges)
<1>1. EntryGraph(Entry, Blocks, Edges) /\ FrontiersInv /\ graph \in Graphs
  BY InFrontiers
<1>2. ASSUME NEW b \in DominanceFrontier(a, Entry, Blocks, Edges)
      PROVE  b \in dom_frontier_[a]
  <2>1. b \in Blocks
    BY <1>2 DEF DominanceFrontier
  <2>2. PICK p \in Blocks : b \in SuccsIn(graph, p) /\ Stops(a, b, p)
    BY <1>1, <1>2, <2>1, StopsInFrontier
  <2>3. PICK n \in 1 .. Len(graph.pre[b]) : graph.pre[b][n] = p
    BY <1>1, <2>1, <2>2, PredecessorLists
  <2>4. CASE b \in JoinBlocks
    BY <1>1, <2>2, <2>3, <2>4 DEF FrontiersInv
  <2>5. CASE b \notin JoinBlocks
    <3>1. Len(graph.pre[b]) \in Nat /\ ~(Len(graph.pre[b]) >= 2)
      BY <1>1, <2>1, <2>5, PredecessorLists DEF JoinBlocks
    <3>2. \A m \in 1 .. Len(graph.pre[b]) : m = n
      BY <2>3, <3>1
    <3>3. ASSUME NEW e \in Edges, e[2] = b PROVE e[1] = p
      <4>1. e[1] \in Blocks /\ b \in SuccsIn(graph, e[1])
        BY <3>3 DEF Edges, EdgesOf
      <4>2. PICK m \in 1 .. Len(graph.pre[b]) : graph.pre[b][m] = e[1]
        BY <1>1, <2>1, <4>1, PredecessorLists
      <4>. QED BY <2>3, <3>2, <4>2
    <3>4. <<p, b>> \in Edges
      BY <2>1, <2>2 DEF Edges, EdgesOf
    <3>5. a # b /\ Dom(a, b)
      BY <1>1, <2>1, <2>2, <3>3, <3>4, OnlyPredecessor DEF Stops, Dom
    <3>. QED BY <2>2, <3>5 DEF Stops
  <2>. QED BY <2>4, <2>5
<1>. QED BY <1>1, <1>2 DEF FrontiersInv

\* The pass computes what the definitions say, on every function whose blocks
\* are all reachable: the immediate dominators, the dominance frontiers and
\* the dominator tree, with intersect and the sweeps of create_idom.
THEOREM ComputesDominators == Spec => []ResultCorrect
<1>1. IInv /\ ResultInv => ResultCorrect
  <2> SUFFICES ASSUME IInv, ResultInv, phase = "done" PROVE ResultCorrect
    BY DEF ResultCorrect
  <2>1. phase \in Finishing /\ todo = {}
        /\ dom_tree_succ_blocks_ = [b \in Blocks |-> {c \in Blocks : idom_[c] = b /\ c # b}]
    BY DEF Finishing, ResultInv
  <2>2. idom_[Entry] = Entry
    BY <2>1, InFrontiers
  <2>3. \A b \in Blocks \ {Entry} :
          ImmediateDominators(b, Entry, Blocks, Edges) = {idom_[b]} /\ idom_[b] # b
    BY <2>1, IdomCorrect, InFrontiers
  <2>4. \A b \in Blocks : dom_frontier_[b] = DominanceFrontier(b, Entry, Blocks, Edges)
    BY <2>1, FrontierCorrect
  <2>5. \A b \in Blocks :
          dom_tree_succ_blocks_[b] =
            {c \in Blocks \ {Entry} : b \in ImmediateDominators(c, Entry, Blocks, Edges)}
    <3> TAKE b \in Blocks
    <3>1. dom_tree_succ_blocks_[b] = {c \in Blocks : idom_[c] = b /\ c # b}
      BY <2>1
    <3>2. \A c \in Blocks \ {Entry} :
            b \in ImmediateDominators(c, Entry, Blocks, Edges) <=> idom_[c] = b /\ c # b
      BY <2>3
    <3>. QED BY <2>2, <3>1, <3>2
  <2>. QED BY <2>2, <2>3, <2>4, <2>5 DEF ResultCorrect, Edges
<1>. QED BY <1>1, ResultInvariance, PTL

\* In every state of the iteration each dominator of a block is among its
\* ancestors: the links of create_idom err only by having too many of them.
THEOREM TreeKeepsDominators == Spec => []DominatorsAreAncestors
<1>1. IInv /\ ResultInv => DominatorsAreAncestors
  <2> SUFFICES ASSUME IInv, ResultInv, phase \in {"sweep", "frontier"},
                      NEW b \in Blocks, HasIdom(b), NEW d \in Blocks, Dom(d, b)
               PROVE  d \in Ancestors(b)
    BY DEF DominatorsAreAncestors, Dom, Edges
  <2> DEFINE M == {c \in Blocks : HasIdom(c)}
             L == {<<c, idom_[c]>> : c \in {x \in Blocks : HasIdom(x)}}
             R == Reachable(b, M, L)
  <2>1. idom_[Entry] = Entry
    BY DEF IInv, ResultInv, LinksInv, Sweeping, Finishing
  <2>2. Above(d, b)
    BY <2>1, DominatorsAbove
  <2>3. IsFiniteSet(M) /\ b \in M
    <3>1. M \in SUBSET Blocks /\ b \in M
      OBVIOUS
    <3>. QED BY <3>1, BlocksAssumption, FS_Subset
  <2>4. \A x \in M : <<x, idom_[x]>> \in L \intersect (M \X M)
    <3> TAKE x \in M
    <3>1. HasIdom(idom_[x]) /\ idom_[x] \in Blocks
      BY <2>1 DEF IInv, Types, IdomNumberedLater, HasIdom, MaybeBB
    <3>. QED BY <3>1
  <2>5. /\ R \subseteq M /\ b \in R
        /\ \A e \in L \intersect (M \X M) : e[1] \in R => e[2] \in R
    <3>. HIDE DEF M, L
    <3>. QED BY <2>3, ReachableLeast
  <2>6. \A x \in R : idom_[x] \in R
    <3>. HIDE DEF L, R
    <3>. QED BY <2>4, <2>5
  <2>7. R \in SUBSET Blocks
    BY <2>5
  <2>8. d \in R
    <3>. HIDE DEF R, M, L
    <3>. QED BY <2>2, <2>5, <2>6, <2>7 DEF Above, Path
  <2>. QED BY <2>8 DEF Ancestors
<1>. QED BY <1>1, ResultInvariance, PTL

\* The same of the passes in their order: LoopSearch finds the dominators as
\* the definitions say.
THEOREM PassesComputeDominators == PassesSpec => []DominatorsCorrect
<1>1. PassesInit => Init
  BY DEF PassesInit
<1>2. [PassesNext]_passVars => [Next]_vars
  BY DEF PassesNext, RunDominators, RunLoopSearch, passVars
<1>3. ResultCorrect => DominatorsCorrect
  BY DEF DominatorsCorrect
<1>. QED BY <1>1, <1>2, <1>3, ComputesDominators, PTL DEF PassesSpec, Spec

(***************************************************************************)
(* A link, once set, only rises.  From one sweep to the next the paths     *)
(* along the links only lose blocks.  L is what idom_ was when the sweep   *)
(* began; the blocks numbered at or more have been processed since.        *)
(***************************************************************************)
IsPred(p, b) == b \in SuccsIn(graph, p)

\* x is the lowest block above all predecessors of b in the set P.
Lowest(L, x, b, P) ==
  \A c \in Blocks : (\A p \in P : IsPred(p, b) => Path(L, c, p)) => Path(L, c, x)

Forward(b) == {p \in Blocks : Num(b) < Num(p)}

\* The link of b is above its predecessors numbered later, and lowest above
\* those in P.
Meets(L, b, P) ==
  /\ \A p \in Forward(b) : IsPred(p, b) => Path(L, L[b], p)
  /\ Lowest(L, L[b], b, P)

\* Links that lead to blocks numbered later.
Rising(L) ==
  /\ L \in [Blocks -> MaybeBB] /\ L[Entry] = Entry
  /\ \A b \in Blocks \ {Entry} : L[b] # NoBB => Num(b) < Num(L[b])
  /\ \A b \in Blocks : Num(b) \in Nat

\* The paths of this sweep against those of L.
Since(L) ==
  /\ Rising(L)
  /\ \A b \in Blocks : Num(b) < at => idom_[b] = L[b]
  /\ \A c, x \in Blocks : Above(c, x) => Path(L, c, x)
  /\ \A b \in Blocks \ {Entry} : Meets(L, b, Blocks)
  /\ \A c, x, z \in Blocks :
       at <= Num(x) /\ Num(z) <= Num(c) /\ Path(L, z, x) /\ Above(c, x) => Above(c, z)

InFirstSweep ==
  /\ \A b \in Blocks : Num(b) < at /\ HasIdom(b) => b = Entry
  /\ \A b \in Blocks \ {Entry} : at <= Num(b) => Meets(idom_, b, Forward(b))

InLaterSweep ==
  /\ \A b \in Blocks : HasIdom(b)
  /\ \A b \in Blocks \ {Entry} : at <= Num(b) => Meets(idom_, b, Blocks)
  /\ \E L \in [Blocks -> Blocks] : Since(L)

\* new_idom is lowest above the predecessors processed, the fingers above all
\* that is above both blocks intersect was called with.
MeetLowest ==
  \A c \in Blocks :
    /\ Above(c, pred)
    /\ \A n \in 1 .. Len(Pre) : n < k /\ HasIdom(Pre[n]) => Above(c, Pre[n])
    => Above(c, new_idom)
FingersLowest ==
  /\ HasIdom(Pre[k])
  /\ \A c \in Blocks : Above(c, Pre[k]) /\ Above(c, new_idom) => Above(c, b1) /\ Above(c, b2)

RiseInv ==
  /\ phase \in Sweeping => InFirstSweep \/ InLaterSweep
  /\ phase \in {"preds", "intersect"} =>
       MeetLowest /\ \E n \in 1 .. Len(Pre) : pred = Pre[n] /\ HasIdom(pred)
  /\ phase = "intersect" => FingersLowest

LEMMA PathSelf == ASSUME NEW L, NEW b PROVE Path(L, b, b)
BY DEF Path

LEMMA PathLink ==
  ASSUME NEW L, NEW b, L[b] # NoBB
  PROVE  Path(L, L[b], b)
BY DEF Path

LEMMA PathTransitive ==
  ASSUME NEW L, NEW a, NEW b, NEW c, Path(L, a, b), Path(L, b, c)
  PROVE  Path(L, a, c)
BY DEF Path

LEMMA PathNext ==
  ASSUME NEW L, NEW a, NEW b \in Blocks, Path(L, a, b), a # b, L[b] \in Blocks
  PROVE  Path(L, a, L[b])
<1> SUFFICES ASSUME NEW S \in SUBSET Blocks, L[b] \in S, \A x \in S : L[x] # NoBB => L[x] \in S
             PROVE  a \in S
  BY DEF Path
<1>1. S \union {b} \in SUBSET Blocks /\ \A x \in S \union {b} : L[x] # NoBB => L[x] \in S \union {b}
  OBVIOUS
<1>2. a \in S \union {b}
  BY <1>1 DEF Path
<1>. QED BY <1>2

\* Paths along rising links lead to blocks numbered later.
LEMMA PathNumber ==
  ASSUME NEW L, Rising(L), NEW a \in Blocks, NEW b \in Blocks, Path(L, a, b)
  PROVE  Num(b) <= Num(a)
<1> DEFINE S == {x \in Blocks : Num(b) <= Num(x)}
<1>1. S \in SUBSET Blocks /\ b \in S
  BY DEF Rising
<1>2. ASSUME NEW x \in S, L[x] # NoBB PROVE L[x] \in S
  <2>1. L[x] \in Blocks /\ (x = Entry \/ Num(x) < Num(L[x]))
    BY <1>2 DEF Rising, MaybeBB
  <2>2. Num(b) \in Nat /\ Num(x) \in Nat /\ Num(L[x]) \in Nat /\ Num(b) <= Num(x)
    BY <2>1 DEF Rising
  <2>. QED BY <2>1, <2>2 DEF Rising
<1>. HIDE DEF S
<1>3. a \in S
  BY <1>1, <1>2 DEF Path
<1>. QED BY <1>3 DEF S

\* Setting the link of b changes no path from a block numbered later.
LEMMA RelinkedLater ==
  ASSUME NEW L, Rising(L), NEW M, Rising(M), NEW b \in Blocks,
         \A x \in Blocks : x # b => M[x] = L[x],
         NEW c, NEW x \in Blocks, Num(b) < Num(x), Path(L, c, x)
  PROVE  Path(M, c, x)
<1> SUFFICES ASSUME NEW S \in SUBSET Blocks, x \in S, \A y \in S : M[y] # NoBB => M[y] \in S
             PROVE  c \in S
  BY DEF Path
<1> DEFINE T == {y \in S : Num(b) < Num(y)}
<1>1. ASSUME NEW y \in T, L[y] # NoBB PROVE L[y] \in T
  <2>1. y \in Blocks /\ Num(b) < Num(y) /\ Num(b) \in Nat /\ Num(y) \in Nat /\ y # b
    BY DEF Rising
  <2>2. M[y] = L[y] /\ L[y] \in S /\ L[y] \in Blocks
    BY <1>1, <2>1
  <2>3. y = Entry \/ Num(y) < Num(L[y])
    BY <1>1, <2>1 DEF Rising
  <2>4. Num(L[y]) \in Nat
    BY <2>2 DEF Rising
  <2>5. y = Entry => L[y] = Entry
    BY DEF Rising
  <2>. QED BY <2>1, <2>2, <2>3, <2>4, <2>5
<1>2. T \in SUBSET Blocks /\ x \in T
  OBVIOUS
<1>. HIDE DEF T
<1>3. c \in T
  BY <1>1, <1>2 DEF Path
<1>. QED BY <1>3 DEF T

\* A link that is moved up loses paths and wins none.
LEMMA RelinkedShrinks ==
  ASSUME NEW L, NEW M, NEW b \in Blocks, L[b] # NoBB,
         \A x \in Blocks : x # b => M[x] = L[x], Path(L, M[b], L[b]),
         NEW c, NEW x, Path(M, c, x)
  PROVE  Path(L, c, x)
<1> SUFFICES ASSUME NEW S \in SUBSET Blocks, x \in S, \A y \in S : L[y] # NoBB => L[y] \in S
             PROVE  c \in S
  BY DEF Path
<1>1. b \in S => M[b] \in S
  BY DEF Path
<1>2. \A y \in S : M[y] # NoBB => M[y] \in S
  BY <1>1
<1>. QED BY <1>2 DEF Path

LEMMA RisingLinks ==
  ASSUME IInv, phase \in Sweeping
  PROVE  Rising(idom_)
BY DEF IInv, Types, LinksInv, IdomNumberedLater, HasIdom, Rising, Num

\* What is said of the sweep changes only with the links and the block processed.
LEMMA SameSweep ==
  ASSUME UNCHANGED <<graph, dfsVars, idom_, at>>
  PROVE  (InFirstSweep' <=> InFirstSweep) /\ (InLaterSweep' <=> InLaterSweep)
<1>1. UNCHANGED <<graph, post_order_id_, idom_, at>>
  BY DEF dfsVars
<1>2. /\ \A b : Num(b)' = Num(b)
      /\ \A b : Forward(b)' = Forward(b)
      /\ \A p, b : IsPred(p, b)' <=> IsPred(p, b)
  BY <1>1 DEF Num, Forward, IsPred
<1>3. \A L, b, P : Meets(L, b, P)' <=> Meets(L, b, P)
  BY <1>2 DEF Meets, Lowest
<1>4. (InFirstSweep' <=> InFirstSweep)
  BY <1>1, <1>2, <1>3 DEF InFirstSweep, HasIdom, Meets, Lowest
<1>5. \A L : Since(L)' <=> Since(L)
  <2>1. \A L : Rising(L)' <=> Rising(L)
    BY <1>2 DEF Rising
  <2>2. \A a, b : Above(a, b)' <=> Above(a, b)
    BY <1>1 DEF Above
  <2>. QED BY <1>1, <1>2, <1>3, <2>1, <2>2 DEF Since
<1>6. (InLaterSweep' <=> InLaterSweep)
  BY <1>1, <1>2, <1>3, <1>5 DEF InLaterSweep, HasIdom, Meets, Lowest
<1>. QED BY <1>4, <1>6

\* The entry is the first block of every sweep.
LEMMA FirstSweepRise ==
  ASSUME IInv, ResultInv, FirstSweep
  PROVE  RiseInv'
<1>1. /\ phase' = "sweep" /\ stack = <<>> /\ UNCHANGED <<graph, dfsVars>> /\ at' = Len(post_order)
      /\ idom_' = [b \in Blocks |-> IF b = Entry THEN Entry ELSE NoBB]
  BY DEF FirstSweep
<1>2. \A b \in Blocks : Num(b)' = Num(b) /\ ~(Len(post_order) <= Num(b))
  BY <1>1, Numbers DEF Num, dfsVars
<1>3. \A b \in Blocks : HasIdom(b)' => b = Entry
  BY <1>1 DEF HasIdom
<1>4. InFirstSweep'
  BY <1>1, <1>2, <1>3 DEF InFirstSweep
<1>. QED BY <1>1, <1>4 DEF RiseInv, Sweeping

\* A sweep begins: its L are the links as they are now.
LEMMA NextSweepRise ==
  ASSUME IInv, ResultInv, RiseInv, NextSweep
  PROVE  RiseInv'
<1>1. /\ phase = "sweep" /\ phase' = "sweep" /\ stack = <<>> /\ at = 0 /\ at' = Len(post_order)
      /\ UNCHANGED <<graph, dfsVars, idom_>>
  BY DEF NextSweep, ResultInv
<1>2. /\ \A b \in Blocks : HasIdom(b) /\ Num(b) \in Nat /\ ~(Len(post_order) <= Num(b))
      /\ idom_ \in [Blocks -> MaybeBB]
  BY <1>1, AllLinked, Numbers, SMTT(30) DEF IInv, Types
<1>3. idom_ \in [Blocks -> Blocks]
  <2>1. \A b \in Blocks : idom_[b] \in Blocks
    BY <1>2 DEF HasIdom, MaybeBB
  <2>. QED BY <1>2, <2>1
<1>4. \A b \in Blocks \ {Entry} : Meets(idom_, b, Blocks)
  <2>1. CASE InFirstSweep
    <3>1. \A b \in Blocks \ {Entry} : Meets(idom_, b, Forward(b))
      BY <1>1, <1>2, <2>1 DEF InFirstSweep
    <3>. QED BY <3>1 DEF Meets, Lowest, Forward
  <2>2. CASE InLaterSweep
    BY <1>1, <1>2, <2>2 DEF InLaterSweep
  <2>. QED BY <1>1, <2>1, <2>2 DEF RiseInv, Sweeping
<1>5. /\ \A b : Num(b)' = Num(b)
      /\ \A b : Forward(b)' = Forward(b)
      /\ \A p, b : IsPred(p, b)' <=> IsPred(p, b)
  BY <1>1 DEF Num, Forward, IsPred, dfsVars
<1>6. Since(idom_)'
  <2>1. Rising(idom_)'
    BY <1>1, <1>5, RisingLinks DEF Rising, Sweeping
  <2>2. \A b \in Blocks \ {Entry} : Meets(idom_, b, Blocks)'
    BY <1>1, <1>4, <1>5 DEF Meets, Lowest
  <2>. QED BY <1>1, <1>2, <1>5, <2>1, <2>2 DEF Since, Above
<1>7. InLaterSweep'
  <2>1. \A b \in Blocks : HasIdom(b)' /\ ~(at' <= Num(b)')
    BY <1>1, <1>2, <1>5 DEF HasIdom
  <2>2. \E L \in [Blocks -> Blocks] : Since(L)'
    BY <1>1, <1>3, <1>6 DEF Since, Meets, Lowest, Forward, Rising
  <2>. QED BY <2>1, <2>2 DEF InLaterSweep
<1>. QED BY <1>1, <1>7 DEF RiseInv, Sweeping

LEMMA SkipRootRise ==
  ASSUME IInv, ResultInv, RiseInv, SkipRoot
  PROVE  RiseInv'
<1>1. /\ phase = "sweep" /\ phase' = "sweep" /\ at > 0 /\ at' = at - 1 /\ bb = Entry
      /\ UNCHANGED <<graph, dfsVars, idom_>>
  BY DEF SkipRoot
<1>2. /\ at \in Nat /\ \A b \in Blocks : Num(b) \in Nat /\ (Num(b) = at - 1 => b = Entry)
      /\ idom_[Entry] = Entry
  BY <1>1, ProcessedNumber DEF Sweeping, IInv, LinksInv
<1>3. \A b \in Blocks : (at - 1 <= Num(b) <=> at <= Num(b) \/ (b = Entry /\ at - 1 <= Num(b)))
                        /\ (Num(b) < at - 1 => Num(b) < at)
  BY <1>2
<1>4. /\ \A b : Num(b)' = Num(b)
      /\ \A b : Forward(b)' = Forward(b)
      /\ \A p, b : IsPred(p, b)' <=> IsPred(p, b)
      /\ \A L, b, P : Meets(L, b, P)' <=> Meets(L, b, P)
      /\ \A L : Rising(L)' <=> Rising(L)
      /\ \A a, b : Above(a, b)' <=> Above(a, b)
      /\ \A b : HasIdom(b)' <=> HasIdom(b)
  BY <1>1 DEF Num, Forward, IsPred, dfsVars, Meets, Lowest, Rising, Above, HasIdom
<1>5. ASSUME InFirstSweep PROVE InFirstSweep'
  <2>1. \A b \in Blocks : Num(b) < at - 1 /\ HasIdom(b) => b = Entry
    BY <1>3, <1>5 DEF InFirstSweep
  <2>2. \A b \in Blocks \ {Entry} : at - 1 <= Num(b) => Meets(idom_, b, Forward(b))
    BY <1>3, <1>5 DEF InFirstSweep
  <2>3. \A b : Meets(idom_, b, Forward(b))' <=> Meets(idom_, b, Forward(b))
    BY <1>1, <1>4 DEF Meets, Lowest
  <2>. QED BY <1>1, <1>4, <2>1, <2>2, <2>3 DEF InFirstSweep
<1>6. ASSUME InLaterSweep PROVE InLaterSweep'
  <2>1. PICK L \in [Blocks -> Blocks] : Since(L)
    BY <1>6 DEF InLaterSweep
  <2>2. ASSUME NEW c \in Blocks, NEW x \in Blocks, NEW z \in Blocks,
               at - 1 <= Num(x), Num(z) <= Num(c), Path(L, z, x), Above(c, x)
        PROVE  Above(c, z)
    <3>1. CASE at <= Num(x)
      BY <2>1, <2>2, <3>1 DEF Since
    <3>2. CASE x = Entry
      <4>1. L[Entry] = Entry
        BY <2>1 DEF Since, Rising
      <4>2. {Entry} \in SUBSET Blocks /\ \A y \in {Entry} : L[y] # NoBB => L[y] \in {Entry}
        BY <4>1, BlocksAssumption
      <4>3. z = Entry
        BY <2>2, <3>2, <4>2 DEF Path
      <4>. QED BY <2>2, <3>2, <4>3
    <3>. QED BY <1>3, <2>2, <3>1, <3>2
  <2>3. Since(L)'
    <3>1. \A b \in Blocks : Num(b) < at - 1 => idom_[b] = L[b]
      BY <1>3, <2>1 DEF Since
    <3>. QED BY <1>1, <1>4, <2>1, <2>2, <3>1 DEF Since
  <2>4. \A b \in Blocks \ {Entry} : at - 1 <= Num(b) => Meets(idom_, b, Blocks)
    BY <1>3, <1>6 DEF InLaterSweep
  <2>5. \A b : Meets(idom_, b, Blocks)' <=> Meets(idom_, b, Blocks)
    BY <1>1, <1>4 DEF Meets, Lowest
  <2>6. \A b \in Blocks : HasIdom(b)
    BY <1>6 DEF InLaterSweep
  <2>. QED BY <1>1, <1>4, <2>3, <2>4, <2>5, <2>6 DEF InLaterSweep
<1>. QED BY <1>1, <1>5, <1>6 DEF RiseInv, Sweeping

LEMMA FindPredRise ==
  ASSUME IInv, IInv', RiseInv, FindPred
  PROVE  RiseInv'
<1>1. /\ phase = "sweep" /\ phase' # "abort" /\ UNCHANGED <<graph, dfsVars, idom_, at>>
  BY DEF FindPred, IInv
<1>2. PICK first \in WithIdom : pred' = Pre[first] /\ new_idom' = Pre[first] /\ k' = 1 /\ phase' = "preds"
  BY <1>1 DEF FindPred
<1>3. (InFirstSweep \/ InLaterSweep)'
  BY <1>1, SameSweep DEF RiseInv, Sweeping
<1>4. Pre' = Pre /\ \A b : HasIdom(b)' <=> HasIdom(b)
  BY <1>1 DEF bb, Pre, HasIdom, dfsVars
<1>5. MeetLowest'
  BY <1>2 DEF MeetLowest, Above
<1>6. \E n \in 1 .. Len(Pre') : pred' = Pre'[n] /\ HasIdom(pred)'
  BY <1>1, <1>2, <1>4 DEF WithIdom, HasIdom
<1>. QED BY <1>2, <1>3, <1>5, <1>6 DEF RiseInv

\* The steps between FindPred and SetIdom that leave pred alone.
LEMMA PredsRiseStep ==
  ASSUME RiseInv, phase \in {"preds", "intersect"}, phase' \in {"preds", "intersect"},
         UNCHANGED <<graph, dfsVars, idom_, at, pred>>,
         MeetLowest', phase' = "intersect" => FingersLowest'
  PROVE  RiseInv'
<1>1. (InFirstSweep \/ InLaterSweep)'
  BY SameSweep DEF RiseInv, Sweeping
<1>2. Pre' = Pre
  BY DEF bb, Pre, dfsVars
<1>3. (\E n \in 1 .. Len(Pre) : pred = Pre[n] /\ HasIdom(pred))'
  BY <1>2 DEF RiseInv, HasIdom
<1>. QED BY <1>1, <1>3 DEF RiseInv

LEMMA SkipPredRise ==
  ASSUME IInv, RiseInv, SkipPred
  PROVE  RiseInv'
<1>1. /\ phase = "preds" /\ phase' = "preds" /\ k' = k + 1 /\ k \in Nat
      /\ UNCHANGED <<graph, dfsVars, idom_, at, pred, new_idom>>
  BY DEF SkipPred, IInv, Types
<1>2. MeetLowest /\ Pre' = Pre /\ (\A b : HasIdom(b)' <=> HasIdom(b))
      /\ \A a, b : Above(a, b)' <=> Above(a, b)
  BY <1>1, SameAbove DEF RiseInv, bb, Pre, dfsVars
<1>3. \A n \in 1 .. Len(Pre) : n < k => n < k + 1
  BY <1>1
<1>4. MeetLowest'
  BY <1>1, <1>2, <1>3 DEF MeetLowest, Above, HasIdom
<1>. QED BY <1>1, <1>4, PredsRiseStep

LEMMA CallIntersectRise ==
  ASSUME IInv, RiseInv, CallIntersect
  PROVE  RiseInv'
<1>1. /\ phase = "preds" /\ phase' = "intersect" /\ b1' = Pre[k] /\ b2' = new_idom
      /\ UNCHANGED <<graph, dfsVars, idom_, at, k, pred, new_idom>>
  BY DEF CallIntersect
<1>2. MeetLowest /\ Pre' = Pre
  BY <1>1 DEF RiseInv, bb, Pre, dfsVars
<1>3. MeetLowest'
  BY <1>1, <1>2 DEF MeetLowest, Above, HasIdom
<1>4. FingersLowest'
  BY <1>1, <1>2 DEF FingersLowest, Above, CallIntersect, HasIdom
<1>. QED BY <1>1, <1>3, <1>4, PredsRiseStep

\* The finger numbered earlier is not above the other one.
LEMMA ClimbRise ==
  ASSUME IInv, RiseInv, ClimbB1 \/ ClimbB2
  PROVE  RiseInv'
<1>1. /\ phase = "intersect" /\ UNCHANGED <<graph, dfsVars, idom_, at, k, pred, new_idom>>
  BY DEF ClimbB1, ClimbB2
<1>2. /\ MeetLowest /\ FingersLowest /\ Rising(idom_)
      /\ b1 \in Blocks /\ HasIdom(b1) /\ b2 \in Blocks /\ HasIdom(b2)
      /\ idom_[b1] \in Blocks /\ idom_[b2] \in Blocks
  BY <1>1, RisingLinks DEF RiseInv, IInv, Types, MaybeBB, IntersectInv, HasIdom, Sweeping
<1>3. ASSUME NEW x \in Blocks, NEW y \in Blocks, idom_[x] \in Blocks, Num(x) < Num(y),
             NEW c \in Blocks, Above(c, x), Above(c, y)
      PROVE  Above(c, idom_[x])
  <2>1. Num(y) <= Num(c) /\ Num(c) \in Nat /\ Num(x) \in Nat /\ Num(y) \in Nat
    BY <1>2, <1>3, PathNumber DEF Above, Rising
  <2>2. c # x
    BY <1>3, <2>1
  <2>. QED BY <1>3, <2>2, PathNext DEF Above
<1>4. /\ phase' = "intersect"
      /\ \A c \in Blocks : Above(c, b1) /\ Above(c, b2) => Above(c, b1') /\ Above(c, b2')
  <2>1. CASE ClimbB1
    <3>1. Num(b1) < Num(b2) /\ b1' = idom_[b1] /\ b2' = b2 /\ phase' = "intersect"
      BY <1>1, <1>2, <2>1 DEF ClimbB1, Num
    <3>. QED BY <1>2, <1>3, <3>1
  <2>2. CASE ClimbB2
    <3>1. Num(b2) < Num(b1) /\ b2' = idom_[b2] /\ b1' = b1 /\ phase' = "intersect"
      BY <1>1, <1>2, <2>2 DEF ClimbB2, Num
    <3>. QED BY <1>2, <1>3, <3>1
  <2>. QED BY <2>1, <2>2
<1>5. Pre' = Pre
  BY <1>1 DEF bb, Pre, dfsVars
<1>6. MeetLowest'
  BY <1>1, <1>2, <1>5 DEF MeetLowest, Above, HasIdom
<1>7. FingersLowest'
  BY <1>1, <1>2, <1>4, <1>5 DEF FingersLowest, Above, HasIdom
<1>. QED BY <1>1, <1>4, <1>6, <1>7, PredsRiseStep

\* What is above pred and the predecessors processed is above both fingers.
LEMMA IntersectReturnsRise ==
  ASSUME IInv, RiseInv, IntersectReturns
  PROVE  RiseInv'
<1>1. /\ phase = "intersect" /\ phase' = "preds" /\ new_idom' = b1 /\ k' = k + 1
      /\ UNCHANGED <<graph, dfsVars, idom_, at, pred>>
  BY DEF IntersectReturns
<1>2. MeetLowest /\ FingersLowest /\ Pre' = Pre
  BY <1>1 DEF RiseInv, bb, Pre, dfsVars
<1>3. k \in 1 .. Len(Pre) /\ HasIdom(Pre[k]) /\ \A n \in 1 .. Len(Pre) : n < k => n < k + 1
  BY <1>1, <1>2 DEF IInv, Types, PredsInv, IntersectInv, FingersLowest
<1>4. k < k + 1
  BY <1>3
<1>5. ASSUME NEW c \in Blocks, Above(c, pred),
             \A n \in 1 .. Len(Pre) : n < k + 1 /\ HasIdom(Pre[n]) => Above(c, Pre[n])
      PROVE  Above(c, b1)
  <2>1. Above(c, new_idom)
    BY <1>2, <1>3, <1>5 DEF MeetLowest
  <2>2. Above(c, Pre[k])
    BY <1>3, <1>4, <1>5
  <2>. QED BY <1>2, <2>1, <2>2 DEF FingersLowest
<1>6. MeetLowest'
  BY <1>1, <1>2, <1>5 DEF MeetLowest, Above, HasIdom
<1>. QED BY <1>1, <1>6, PredsRiseStep

\* The links once the block that is processed has its new one.
Relinked == [idom_ EXCEPT ![bb] = new_idom]

\* new_idom is the lowest block above all predecessors that have a link.
LEMMA MeetFound ==
  ASSUME IInv, IInv', ResultInv, RiseInv, SetIdom
  PROVE  /\ bb \in Blocks \ {Entry} /\ Num(bb) = at - 1 /\ at \in Nat /\ new_idom \in Blocks
         /\ \A b \in Blocks : Num(b) \in Nat /\ (Num(b) = at - 1 => b = bb)
         /\ Rising(idom_) /\ Rising(Relinked) /\ Num(bb) < Num(new_idom)
         /\ idom_' = Relinked /\ Relinked[bb] = new_idom
         /\ \A b \in Blocks : b # bb => Relinked[b] = idom_[b]
         /\ \A p \in Blocks : IsPred(p, bb) /\ HasIdom(p) => Above(new_idom, p)
         /\ \A c \in Blocks :
              (\A p \in Blocks : IsPred(p, bb) /\ HasIdom(p) => Above(c, p)) => Above(c, new_idom)
         /\ \A p \in Forward(bb) : HasIdom(p)
         /\ \E p \in Forward(bb) : IsPred(p, bb)
<1>1. /\ phase = "preds" /\ k > Len(Pre) /\ at' = at - 1 /\ UNCHANGED <<graph, dfsVars>>
      /\ idom_' = Relinked /\ phase' = "sweep" /\ at > 0 /\ stack = <<>>
  BY InPreds DEF SetIdom, Relinked, PredsInv, ResultInv
<1>2. /\ bb \in Blocks \ {Entry} /\ new_idom \in Blocks /\ graph \in Graphs /\ LinksInv
      /\ k \in Nat /\ Len(Pre) \in Nat /\ idom_ \in [Blocks -> MaybeBB]
      /\ \A n \in 1 .. Len(Pre) : Pre[n] \in Blocks
  BY <1>1, InPreds DEF PredsInv, IInv, Types
<1>3. /\ Num(bb) = at - 1 /\ at \in Nat
      /\ \A b \in Blocks : Num(b) \in Nat /\ (Num(b) = at - 1 => b = bb)
  BY <1>1, ProcessedNumber DEF Sweeping
<1>4. Relinked[bb] = new_idom /\ \A b \in Blocks : b # bb => Relinked[b] = idom_[b]
  BY <1>2 DEF Relinked
<1>5. Rising(idom_)
  BY <1>1, RisingLinks DEF Sweeping
<1>6. Rising(Relinked) /\ Num(bb) < Num(new_idom)
  <2>1. Types' /\ LinksInv' /\ IdomNumberedLater' /\ post_order_id_' = post_order_id_
    BY <1>1 DEF IInv, Sweeping, dfsVars
  <2>2. Relinked \in [Blocks -> MaybeBB] /\ Relinked[Entry] = Entry
    BY <1>1, <2>1 DEF Types, LinksInv
  <2>3. \A b \in Blocks \ {Entry} : Relinked[b] # NoBB => Num(b) < Num(Relinked[b])
    BY <1>1, <2>1 DEF IdomNumberedLater, HasIdom, Num
  <2>. QED BY <1>2, <1>3, <1>4, <2>2, <2>3, BlocksAssumption DEF Rising
<1>7. \A p \in Blocks : IsPred(p, bb) => \E n \in 1 .. Len(Pre) : n < k /\ Pre[n] = p
  BY <1>1, <1>2, PredecessorLists DEF Pre, IsPred
<1>8. \A p \in Blocks : IsPred(p, bb) /\ HasIdom(p) => Above(new_idom, p)
  BY <1>1, <1>7 DEF ResultInv, MeetInv
<1>9. ASSUME NEW c \in Blocks, \A p \in Blocks : IsPred(p, bb) /\ HasIdom(p) => Above(c, p)
      PROVE  Above(c, new_idom)
  <2>1. \A n \in 1 .. Len(Pre) : IsPred(Pre[n], bb)
    BY <1>2, PredecessorEdge DEF Pre, IsPred
  <2>2. MeetLowest /\ \E n \in 1 .. Len(Pre) : pred = Pre[n] /\ HasIdom(pred)
    BY <1>1 DEF RiseInv
  <2>3. \A n \in 1 .. Len(Pre) : HasIdom(Pre[n]) => Above(c, Pre[n])
    BY <1>2, <1>9, <2>1
  <2>4. Above(c, pred)
    BY <2>2, <2>3
  <2>. QED BY <2>2, <2>3, <2>4 DEF MeetLowest
<1>10. ASSUME NEW p \in Forward(bb) PROVE HasIdom(p)
  <2>1. p \in Blocks /\ at - 1 < Num(p) /\ Num(p) \in Nat
    BY <1>3 DEF Forward
  <2>2. Num(p) + 1 \in 1 .. Len(post_order) /\ post_order[Num(p) + 1] = p
    BY <1>1, <2>1, Numbers
  <2>3. Num(p) + 1 > at
    BY <1>3, <2>1
  <2>. QED BY <1>2, <2>2, <2>3 DEF LinksInv
<1>11. \E p \in Forward(bb) : IsPred(p, bb)
  BY <1>1, <1>2, Numbers DEF Forward, IsPred
<1>. QED BY <1>1, <1>2, <1>3, <1>4, <1>5, <1>6, <1>8, <1>9, <1>10, <1>11

\* The paths of blocks numbered later stay as they are.
LEMMA LaterPathsStay ==
  ASSUME IInv, IInv', ResultInv, RiseInv, SetIdom,
         NEW c, NEW x \in Blocks, Num(bb) < Num(x)
  PROVE  Path(Relinked, c, x) <=> Above(c, x)
<1>1. /\ Rising(idom_) /\ Rising(Relinked) /\ bb \in Blocks
      /\ \A b \in Blocks : b # bb => Relinked[b] = idom_[b]
  BY MeetFound
<1>2. Path(idom_, c, x) => Path(Relinked, c, x)
  <2>. HIDE DEF Relinked
  <2>. QED BY <1>1, RelinkedLater
<1>3. Path(Relinked, c, x) => Path(idom_, c, x)
  <2>. HIDE DEF Relinked
  <2>. QED BY <1>1, RelinkedLater
<1>. QED BY <1>2, <1>3 DEF Above

LEMMA SetIdomFirst ==
  ASSUME IInv, IInv', ResultInv, RiseInv, SetIdom, InFirstSweep
  PROVE  InFirstSweep'
<1>1. /\ bb \in Blocks \ {Entry} /\ Num(bb) = at - 1 /\ at \in Nat /\ new_idom \in Blocks
      /\ \A b \in Blocks : Num(b) \in Nat /\ (Num(b) = at - 1 => b = bb)
      /\ Rising(idom_) /\ Num(bb) < Num(new_idom)
      /\ Relinked[bb] = new_idom
      /\ \A b \in Blocks : b # bb => Relinked[b] = idom_[b]
      /\ \A p \in Forward(bb) : HasIdom(p)
  BY MeetFound
<1>2. /\ \A p \in Blocks : IsPred(p, bb) /\ HasIdom(p) => Above(new_idom, p)
      /\ \A c \in Blocks :
           (\A p \in Blocks : IsPred(p, bb) /\ HasIdom(p) => Above(c, p)) => Above(c, new_idom)
  BY MeetFound
<1>3. UNCHANGED <<graph, dfsVars>> /\ at' = at - 1 /\ idom_' = Relinked /\ phase = "preds"
  BY MeetFound DEF SetIdom
<1>4. \A c, x \in Blocks : Num(bb) < Num(x) => (Path(Relinked, c, x) <=> Above(c, x))
  BY LaterPathsStay
<1>5. ASSUME NEW p \in Blocks, HasIdom(p) PROVE p \in Forward(bb)
  <2>1. CASE p = Entry
    <3>1. stack = <<>> /\ Entry \in Blocks /\ Dom(Entry, bb)
      BY <1>3, BlocksAssumption DEF ResultInv, Dom, Dominates
    <3>2. Num(bb) <= Num(Entry)
      BY <1>1, <3>1, DominatorNumberedLater
    <3>. QED BY <1>1, <2>1, <3>2 DEF Forward
  <2>2. CASE p # Entry
    <3>1. ~(Num(p) < at) /\ Num(p) \in Nat
      BY <1>1, <1>5, <2>2 DEF InFirstSweep
    <3>. QED BY <1>1, <3>1 DEF Forward
  <2>. QED BY <2>1, <2>2
<1>. HIDE DEF Relinked
<1>6. Meets(Relinked, bb, Forward(bb))
  <2>1. ASSUME NEW p \in Forward(bb), IsPred(p, bb) PROVE Path(Relinked, new_idom, p)
    <3>1. p \in Blocks /\ Num(bb) < Num(p)
      BY DEF Forward
    <3>. QED BY <1>1, <1>2, <1>4, <2>1, <3>1
  <2>2. ASSUME NEW c \in Blocks, \A p \in Forward(bb) : IsPred(p, bb) => Path(Relinked, c, p)
        PROVE  Path(Relinked, c, new_idom)
    <3>1. ASSUME NEW p \in Blocks, IsPred(p, bb), HasIdom(p) PROVE Above(c, p)
      <4>1. p \in Forward(bb) /\ Num(bb) < Num(p)
        BY <1>5, <3>1 DEF Forward
      <4>. QED BY <1>4, <2>2, <3>1, <4>1
    <3>. QED BY <1>1, <1>2, <1>4, <3>1
  <2>. QED BY <1>1, <2>1, <2>2 DEF Meets, Lowest
<1>7. ASSUME NEW b \in Blocks \ {Entry}, at <= Num(b) PROVE Meets(Relinked, b, Forward(b))
  <2>1. /\ Meets(idom_, b, Forward(b)) /\ b # bb /\ Relinked[b] = idom_[b] /\ b \in Forward(bb)
        /\ Num(b) \in Nat
    BY <1>1, <1>7 DEF InFirstSweep, Forward
  <2>2. idom_[b] \in Blocks /\ Num(b) < Num(idom_[b]) /\ Num(idom_[b]) \in Nat
    BY <1>1, <2>1 DEF Rising, HasIdom, MaybeBB
  <2>3. Num(bb) < Num(idom_[b]) /\ \A p \in Forward(b) : p \in Blocks /\ Num(bb) < Num(p)
    BY <1>1, <1>7, <2>1, <2>2 DEF Forward
  <2>. QED BY <1>4, <2>1, <2>2, <2>3 DEF Meets, Lowest, Above
<1>8. ASSUME NEW b \in Blocks, Num(b) < at - 1, Relinked[b] # NoBB PROVE b = Entry
  <2>1. b # bb /\ Num(b) < at
    BY <1>1, <1>8
  <2>. QED BY <1>1, <1>8, <2>1 DEF InFirstSweep, HasIdom
<1>9. ASSUME NEW b \in Blocks \ {Entry}, at - 1 <= Num(b) PROVE Meets(Relinked, b, Forward(b))
  <2>1. b = bb \/ at <= Num(b)
    BY <1>1, <1>9
  <2>. QED BY <1>6, <1>7, <2>1
<1>10. /\ \A b : Num(b)' = Num(b)
       /\ \A b : Forward(b)' = Forward(b)
       /\ \A p, b : IsPred(p, b)' <=> IsPred(p, b)
  BY <1>3 DEF Num, Forward, IsPred, dfsVars
<1>11. \A b : Meets(idom_, b, Forward(b))' <=> Meets(Relinked, b, Forward(b))
  BY <1>3, <1>10 DEF Meets, Lowest
<1>. QED BY <1>3, <1>8, <1>9, <1>10, <1>11 DEF InFirstSweep, HasIdom

\* A link that is set again moves up, along the links of the sweep before.
LEMMA LinkMovesUp ==
  ASSUME IInv, IInv', ResultInv, RiseInv, SetIdom, NEW L \in [Blocks -> Blocks], Since(L),
         \A b \in Blocks : HasIdom(b)
  PROVE  /\ L[bb] = idom_[bb]
         /\ Num(bb) < Num(L[bb]) /\ Num(L[bb]) <= Num(new_idom)
         /\ Above(new_idom, L[bb])
         /\ \E p \in Forward(bb) : Path(L, L[bb], p) /\ Above(new_idom, p)
<1>1. /\ bb \in Blocks \ {Entry} /\ Num(bb) = at - 1 /\ at \in Nat /\ new_idom \in Blocks
      /\ \A b \in Blocks : Num(b) \in Nat
      /\ \A p \in Blocks : IsPred(p, bb) /\ HasIdom(p) => Above(new_idom, p)
      /\ \E p \in Forward(bb) : IsPred(p, bb)
  BY MeetFound
<1>2. /\ Rising(L) /\ L[bb] = idom_[bb] /\ L[bb] \in Blocks /\ Meets(L, bb, Blocks)
      /\ \A c, x \in Blocks : Above(c, x) => Path(L, c, x)
  BY <1>1 DEF Since
<1>3. Num(bb) < Num(L[bb])
  BY <1>1, <1>2, BlocksAssumption DEF Rising
<1>4. Path(L, new_idom, L[bb])
  BY <1>1, <1>2 DEF Meets, Lowest
<1>5. Num(L[bb]) <= Num(new_idom)
  BY <1>1, <1>2, <1>4, PathNumber
<1>6. PICK p \in Forward(bb) : IsPred(p, bb)
  BY <1>1
<1>7. p \in Blocks /\ at <= Num(p) /\ Path(L, L[bb], p) /\ Above(new_idom, p)
  BY <1>1, <1>2, <1>6 DEF Forward, Meets
<1>8. Above(new_idom, L[bb])
  BY <1>1, <1>2, <1>5, <1>7 DEF Since
<1>. QED BY <1>2, <1>3, <1>5, <1>6, <1>7, <1>8

LEMMA SetIdomSince ==
  ASSUME IInv, IInv', ResultInv, RiseInv, SetIdom, NEW L \in [Blocks -> Blocks], Since(L),
         \A b \in Blocks : HasIdom(b)
  PROVE  /\ \A b \in Blocks : Num(b) < at - 1 => Relinked[b] = L[b]
         /\ \A c, x \in Blocks : Path(Relinked, c, x) => Path(L, c, x)
         /\ \A c, x, z \in Blocks :
              at - 1 <= Num(x) /\ Num(z) <= Num(c) /\ Path(L, z, x) /\ Path(Relinked, c, x)
                => Path(Relinked, c, z)
<1>1. /\ bb \in Blocks \ {Entry} /\ Num(bb) = at - 1 /\ at \in Nat /\ new_idom \in Blocks
      /\ \A b \in Blocks : Num(b) \in Nat /\ (Num(b) = at - 1 => b = bb)
      /\ Num(bb) < Num(new_idom)
      /\ Relinked[bb] = new_idom
      /\ \A b \in Blocks : b # bb => Relinked[b] = idom_[b]
  BY MeetFound
<1>2. \A c, x \in Blocks : Num(bb) < Num(x) => (Path(Relinked, c, x) <=> Above(c, x))
  BY LaterPathsStay
<1>3. /\ L[bb] = idom_[bb] /\ Num(bb) < Num(L[bb]) /\ Above(new_idom, L[bb])
  BY LinkMovesUp
<1>4. PICK p \in Forward(bb) : Path(L, L[bb], p) /\ Above(new_idom, p)
  BY LinkMovesUp
<1>5. Rising(L) /\ L[bb] \in Blocks /\ p \in Blocks /\ at <= Num(p) /\ Num(bb) < Num(p)
  BY <1>1 DEF Since, Forward
<1>. HIDE DEF Relinked
<1>6. \A c, x : Path(Relinked, c, x) => Above(c, x)
  <2>1. idom_[bb] # NoBB /\ Path(idom_, Relinked[bb], idom_[bb])
    BY <1>1, <1>3 DEF HasIdom, Above
  <2>. QED BY <1>1, <2>1, RelinkedShrinks DEF Above
<1>7. \A b \in Blocks : Num(b) < at - 1 => Relinked[b] = L[b]
  <2>1. \A b \in Blocks : Num(b) < at - 1 => b # bb /\ Num(b) < at
    BY <1>1
  <2>. QED BY <1>1, <2>1 DEF Since
<1>8. \A c, x \in Blocks : Path(Relinked, c, x) => Path(L, c, x)
  BY <1>6 DEF Since
<1>9. ASSUME NEW c \in Blocks, NEW x \in Blocks, NEW z \in Blocks,
             at - 1 <= Num(x), Num(z) <= Num(c), Path(L, z, x), Path(Relinked, c, x)
      PROVE  Path(Relinked, c, z)
  <2>1. Num(x) <= Num(z) /\ Above(c, x)
    BY <1>5, <1>6, <1>9, PathNumber
  <2>2. CASE x # bb
    <3>1. at <= Num(x)
      BY <1>1, <1>9, <2>2
    <3>2. Above(c, z)
      BY <1>9, <2>1, <3>1 DEF Since
    <3>3. Num(bb) < Num(z)
      BY <1>1, <2>1, <3>1
    <3>. QED BY <1>2, <3>2, <3>3
  <2>3. CASE x = bb /\ z # bb
    <3>1. Path(L, z, L[bb])
      BY <1>1, <1>5, <1>9, <2>3, PathNext
    <3>2. Path(L, z, p) /\ Num(p) <= Num(z)
      BY <1>4, <1>5, <3>1, PathTransitive, PathNumber
    <3>3. c # bb
      BY <1>1, <1>5, <1>9, <3>2
    <3>4. Path(Relinked, c, new_idom)
      BY <1>1, <1>9, <2>3, <3>3, PathNext
    <3>5. Above(c, p)
      BY <1>1, <1>2, <1>4, <3>4, AboveTransitive
    <3>6. Above(c, z)
      BY <1>5, <1>9, <3>2, <3>5 DEF Since
    <3>7. Num(bb) < Num(z)
      BY <1>1, <1>5, <3>2
    <3>. QED BY <1>2, <3>6, <3>7
  <2>. QED BY <1>9, <2>2, <2>3
<1>. QED BY <1>7, <1>8, <1>9

LEMMA SetIdomLater ==
  ASSUME IInv, IInv', ResultInv, RiseInv, SetIdom, InLaterSweep
  PROVE  InLaterSweep'
<1>1. /\ bb \in Blocks \ {Entry} /\ Num(bb) = at - 1 /\ at \in Nat /\ new_idom \in Blocks
      /\ \A b \in Blocks : Num(b) \in Nat /\ (Num(b) = at - 1 => b = bb)
      /\ Rising(idom_) /\ Num(bb) < Num(new_idom)
      /\ Relinked[bb] = new_idom
      /\ \A b \in Blocks : b # bb => Relinked[b] = idom_[b]
  BY MeetFound
<1>2. /\ \A p \in Blocks : IsPred(p, bb) /\ HasIdom(p) => Above(new_idom, p)
      /\ \A c \in Blocks :
           (\A p \in Blocks : IsPred(p, bb) /\ HasIdom(p) => Above(c, p)) => Above(c, new_idom)
  BY MeetFound
<1>3. UNCHANGED <<graph, dfsVars>> /\ at' = at - 1 /\ idom_' = Relinked
  BY MeetFound DEF SetIdom
<1>4. \A c, x \in Blocks : Num(bb) < Num(x) => (Path(Relinked, c, x) <=> Above(c, x))
  BY LaterPathsStay
<1>5. PICK L \in [Blocks -> Blocks] : Since(L)
  BY DEF InLaterSweep
<1>6. \A b \in Blocks : HasIdom(b)
  BY DEF InLaterSweep
<1>7. \A c, x \in Blocks : Path(Relinked, c, x) => Above(c, x)
  <2>1. idom_[bb] # NoBB /\ Path(idom_, Relinked[bb], idom_[bb])
    BY <1>1, <1>5, <1>6, LinkMovesUp DEF HasIdom, Above
  <2>. HIDE DEF Relinked
  <2>. QED BY <1>1, <2>1, RelinkedShrinks DEF Above
<1>8. /\ \A b \in Blocks : Num(b) < at - 1 => Relinked[b] = L[b]
      /\ \A c, x \in Blocks : Path(Relinked, c, x) => Path(L, c, x)
      /\ \A c, x, z \in Blocks :
           at - 1 <= Num(x) /\ Num(z) <= Num(c) /\ Path(L, z, x) /\ Path(Relinked, c, x)
             => Path(Relinked, c, z)
  BY <1>5, <1>6, SetIdomSince
<1>. HIDE DEF Relinked
<1>9. ASSUME NEW b \in Blocks \ {Entry}, at - 1 <= Num(b) PROVE Meets(Relinked, b, Blocks)
  <2>1. CASE b = bb
    <3>1. ASSUME NEW p \in Forward(bb), IsPred(p, bb) PROVE Path(Relinked, new_idom, p)
      <4>1. p \in Blocks /\ Num(bb) < Num(p)
        BY DEF Forward
      <4>. QED BY <1>1, <1>2, <1>4, <1>6, <3>1, <4>1
    <3>2. ASSUME NEW c \in Blocks, \A p \in Blocks : IsPred(p, bb) => Path(Relinked, c, p)
          PROVE  Path(Relinked, c, new_idom)
      BY <1>1, <1>2, <1>4, <1>7, <3>2
    <3>. QED BY <1>1, <2>1, <3>1, <3>2 DEF Meets, Lowest
  <2>2. CASE b # bb
    <3>1. /\ at <= Num(b) /\ Relinked[b] = idom_[b] /\ Num(b) \in Nat
          /\ idom_[b] \in Blocks /\ Num(b) < Num(idom_[b]) /\ Num(idom_[b]) \in Nat
      BY <1>1, <1>6, <1>9, <2>2 DEF Rising, HasIdom, MaybeBB
    <3>2. /\ Meets(idom_, b, Blocks) /\ Num(bb) < Num(idom_[b])
          /\ \A p \in Forward(b) : p \in Blocks /\ Num(bb) < Num(p)
      BY <1>1, <3>1 DEF InLaterSweep, Forward
    <3>3. ASSUME NEW p \in Forward(b), IsPred(p, b) PROVE Path(Relinked, Relinked[b], p)
      BY <1>4, <3>1, <3>2, <3>3 DEF Meets, Above
    <3>4. ASSUME NEW c \in Blocks, \A p \in Blocks : IsPred(p, b) => Path(Relinked, c, p)
          PROVE  Path(Relinked, c, Relinked[b])
      BY <1>4, <1>7, <3>1, <3>2, <3>4 DEF Meets, Lowest, Above
    <3>. QED BY <3>3, <3>4 DEF Meets, Lowest
  <2>. QED BY <2>1, <2>2
<1>10. /\ \A b : Num(b)' = Num(b)
       /\ \A b : Forward(b)' = Forward(b)
       /\ \A p, b : IsPred(p, b)' <=> IsPred(p, b)
  BY <1>3 DEF Num, Forward, IsPred, dfsVars
<1>11. /\ \A b : Meets(idom_, b, Blocks)' <=> Meets(Relinked, b, Blocks)
       /\ \A b : Meets(L, b, Blocks)' <=> Meets(L, b, Blocks)
       /\ Rising(L)' <=> Rising(L)
       /\ \A c, x : Above(c, x)' <=> Path(Relinked, c, x)
  BY <1>3, <1>10 DEF Meets, Lowest, Rising, Above
<1>12. Since(L)'
  <2>1. Rising(L) /\ \A b \in Blocks \ {Entry} : Meets(L, b, Blocks)
    BY <1>5 DEF Since
  <2>. QED BY <1>3, <1>8, <1>10, <1>11, <2>1 DEF Since
<1>13. \A b \in Blocks : HasIdom(b)'
  BY <1>1, <1>3, <1>6, BlocksAssumption DEF HasIdom
<1>. QED BY <1>3, <1>9, <1>10, <1>11, <1>12, <1>13 DEF InLaterSweep

LEMMA SetIdomRise ==
  ASSUME IInv, IInv', ResultInv, RiseInv, SetIdom
  PROVE  RiseInv'
<1>1. phase = "preds" /\ phase' = "sweep"
  BY DEF SetIdom
<1>2. InFirstSweep \/ InLaterSweep
  BY <1>1 DEF RiseInv, Sweeping
<1>3. (InFirstSweep \/ InLaterSweep)'
  BY <1>2, SetIdomFirst, SetIdomLater
<1>. QED BY <1>1, <1>3 DEF RiseInv

LEMMA RiseInit == Init => RiseInv
BY DEF Init, RiseInv, Sweeping

LEMMA RiseStutter ==
  ASSUME RiseInv, UNCHANGED vars
  PROVE  RiseInv'
<1>1. UNCHANGED <<graph, dfsVars, phase, idom_, at, k, pred, new_idom, b1, b2, post_order>>
  BY DEF vars, dfsVars, idomVars
<1>2. (InFirstSweep \/ InLaterSweep)' <=> (InFirstSweep \/ InLaterSweep)
  BY <1>1, SameSweep
<1>3. Pre' = Pre
  BY <1>1 DEF bb, Pre
<1>4. (MeetLowest' <=> MeetLowest) /\ (FingersLowest' <=> FingersLowest)
  BY <1>1, <1>3 DEF MeetLowest, FingersLowest, Above, HasIdom
<1>5. (\E n \in 1 .. Len(Pre) : pred = Pre[n] /\ HasIdom(pred))'
        <=> \E n \in 1 .. Len(Pre) : pred = Pre[n] /\ HasIdom(pred)
  BY <1>1, <1>3 DEF HasIdom
<1>. QED BY <1>1, <1>2, <1>4, <1>5 DEF RiseInv

LEMMA RisePreserved == IInv /\ IInv' /\ ResultInv /\ RiseInv /\ [Next]_vars => RiseInv'
<1> SUFFICES ASSUME IInv, IInv', ResultInv, RiseInv, [Next]_vars PROVE RiseInv'
  OBVIOUS
<1>1. CASE phase' \notin Sweeping
  BY <1>1 DEF RiseInv, Sweeping
<1>2. CASE FirstSweep \/ NextSweep \/ SkipRoot \/ FindPred
  BY <1>2, FirstSweepRise, NextSweepRise, SkipRootRise, FindPredRise
<1>3. CASE SkipPred \/ CallIntersect \/ ClimbB1 \/ ClimbB2
  BY <1>3, SkipPredRise, CallIntersectRise, ClimbRise
<1>4. CASE IntersectReturns \/ SetIdom
  BY <1>4, IntersectReturnsRise, SetIdomRise
<1>5. CASE \/ VisitSuccessor \/ FinishVisit \/ StartFrontier \/ StartRunner \/ RunnerClimbs
           \/ RunnerStops \/ CreateDomTreeSucc
  <2>1. phase' \notin Sweeping
    BY <1>5 DEF VisitSuccessor, FinishVisit, StartFrontier, StartRunner, RunnerClimbs, RunnerStops,
       CreateDomTreeSucc, Sweeping
  <2>. QED BY <1>1, <2>1
<1>6. CASE Done \/ UNCHANGED vars
  BY <1>6, RiseStutter DEF Done
<1>. QED BY <1>2, <1>3, <1>4, <1>5, <1>6 DEF Next

LEMMA RiseInvariance == Spec => [](IInv /\ ResultInv /\ RiseInv)
BY ResultInvariance, RiseInit, RisePreserved, PTL DEF Spec

\* A link is set again by SetIdom alone.
LEMMA LinkRises ==
  ASSUME IInv, IInv', ResultInv, RiseInv, [Next]_vars,
         NEW b \in Blocks, HasIdom(b), phase # "dfs"
  PROVE  HasIdom(b)' /\ post_order_id_[idom_[b]] <= post_order_id_[idom_'[b]]
<1>1. CASE UNCHANGED idom_
  <2>1. idom_[b] \in Blocks /\ \A x \in Blocks : post_order_id_[x] \in Nat
    BY DEF IInv, Types, HasIdom, MaybeBB
  <2>. QED BY <1>1, <2>1 DEF HasIdom
<1>2. CASE SetIdom
  <2>1. /\ bb \in Blocks \ {Entry} /\ Num(bb) = at - 1 /\ at \in Nat /\ new_idom \in Blocks
        /\ idom_' = Relinked /\ Relinked[bb] = new_idom
        /\ \A x \in Blocks : Num(x) \in Nat
        /\ \A x \in Blocks : x # bb => Relinked[x] = idom_[x]
    BY <1>2, MeetFound
  <2>2. CASE b # bb
    <3>1. idom_[b] \in Blocks /\ idom_'[b] = idom_[b]
      BY <2>1, <2>2 DEF IInv, Types, HasIdom, MaybeBB
    <3>. QED BY <2>1, <3>1 DEF HasIdom, Num
  <2>3. CASE b = bb
    <3>1. ~InFirstSweep
      BY <2>1, <2>3 DEF InFirstSweep
    <3>2. InLaterSweep
      BY <1>2, <3>1 DEF RiseInv, SetIdom, Sweeping
    <3>3. PICK L \in [Blocks -> Blocks] : Since(L)
      BY <3>2 DEF InLaterSweep
    <3>4. Num(idom_[b]) <= Num(new_idom)
      BY <1>2, <2>3, <3>2, <3>3, LinkMovesUp DEF InLaterSweep
    <3>. QED BY <2>1, <2>3, <3>4, BlocksAssumption DEF HasIdom, Num
  <2>. QED BY <2>2, <2>3
<1>3. FirstSweep => phase = "dfs"
  BY DEF FirstSweep
<1>4. UNCHANGED idom_ \/ FirstSweep \/ SetIdom
  BY DEF Next, VisitSuccessor, FinishVisit, NextSweep, SkipRoot, FindPred, SkipPred, CallIntersect,
     ClimbB1, ClimbB2, IntersectReturns, StartFrontier, StartRunner, RunnerClimbs, RunnerStops,
     CreateDomTreeSucc, Done, vars, idomVars
<1>. QED BY <1>1, <1>2, <1>3, <1>4

\* The property IdomOnlyRises: an immediate dominator computed so far is only
\* ever replaced by a block numbered later, also where a sweep meets a loop
\* whose blocks it has not come to.
THEOREM LinksOnlyRise == Spec => IdomOnlyRises
<1>1. /\ IInv /\ ResultInv /\ RiseInv /\ [Next]_vars /\ IInv'
      => [\A b \in Blocks : HasIdom(b) /\ phase # "dfs" =>
            HasIdom(b)' /\ post_order_id_[idom_[b]] <= post_order_id_[idom_'[b]]]_vars
  BY LinkRises
<1>. QED BY <1>1, RiseInvariance, PTL DEF Spec, IdomOnlyRises

(***************************************************************************)
(* LoopSearch after Dominators.  LoopSearch_proofs is about a function that *)
(* is Suitable; those the passes run on are, and the instance of LoopSearch *)
(* in Passes has the same definitions as the instance of its proofs.       *)
(***************************************************************************)
Search == INSTANCE LoopSearch_proofs WITH func <- graph, stack <- scc_stack

SearchPart ==
  /\ graph \in Graphs
  /\ step # "idle" => graph.loop_search
  /\ Search!SearchInv

LEMMA FunctionSuits ==
  ASSUME graph \in Graphs, graph.loop_search
  PROVE  Search!Suitable
<1>1. /\ IsFiniteSet(Blocks) /\ Entry \in Blocks /\ NoBB \notin Blocks
      /\ FunctionGraph(graph, Blocks, Entry)
      /\ Reducible(Entry, Blocks, EdgesOf(graph))
  BY BlocksAssumption, GraphsAssumption, SearchAssumption
<1>2. Search!CFG = EdgesOf(graph)
  BY Zenon DEF Search!CFG, EdgesOf, SuccsIn, Search!SuccsOf, Search!Range, Range
<1>3. Search!FunctionGraph(graph, Blocks, Entry)
  BY <1>1, Zenon DEF FunctionGraph, Search!FunctionGraph, AllReachableFrom, Search!AllReachableFrom,
     Closed, Search!Closed, Range, Search!Range
<1>4. Search!Reducible(Entry, Blocks, EdgesOf(graph))
  <2>1. \A r, N, E : Search!Reachable(r, N, E) = Reachable(r, N, E)
    BY Zenon DEF Reachable, Search!Reachable, Cardinality, Search!Cardinality
  <2>. QED BY <2>1, <1>1, Zenon DEF Reducible, Search!Reducible, Dominates, Search!Dominates,
              Acyclic, Search!Acyclic, Without, Search!Without
<1>5. Search!IsFiniteSet(Blocks)
  BY <1>1, Zenon DEF IsFiniteSet, Search!IsFiniteSet
<1>6. Search!NoBB \notin Blocks
  BY <1>1 DEF Search!NoBB, NoBB
<1>. QED BY <1>1, <1>2, <1>3, <1>4, <1>5, <1>6 DEF Search!Suitable

LEMMA SameSteps ==
  ASSUME Loops!Next
  PROVE  Search!Next
<1>1. Loops!build_cfg => Search!build_cfg
  BY Zenon DEF Loops!build_cfg, Search!build_cfg, Loops!SuccsOf, Search!SuccsOf, Loops!PrevsOf,
     Search!PrevsOf, Loops!tarjanVars, Search!tarjanVars, Loops!resultVars, Search!resultVars,
     Loops!Range, Search!Range
<1>2. Loops!TraverseRoot => Search!TraverseRoot
  BY Zenon DEF Loops!TraverseRoot, Search!TraverseRoot, Loops!EnterTraverse, Search!EnterTraverse,
     Loops!graphVars, Search!graphVars, Loops!resultVars, Search!resultVars
<1>3. Loops!TraverseSucc => Search!TraverseSucc
  BY Zenon DEF Loops!TraverseSucc, Search!TraverseSucc, Loops!EnterTraverse, Search!EnterTraverse,
     Loops!Call, Search!Call, Loops!Took, Search!Took, Loops!Last, Search!Last, Loops!Front, Search!Front,
     Loops!graphVars, Search!graphVars, Loops!resultVars, Search!resultVars
<1>4. Loops!SeeSucc => Search!SeeSucc
  BY Zenon DEF Loops!SeeSucc, Search!SeeSucc, Loops!Call, Search!Call, Loops!Took, Search!Took,
     Loops!Last, Search!Last, Loops!Front, Search!Front, Loops!Lower, Search!Lower,
     Loops!onStack, Search!onStack, Loops!Range, Search!Range,
     Loops!graphVars, Search!graphVars, Loops!resultVars, Search!resultVars
<1>5. Loops!ReturnFromTraverse => Search!ReturnFromTraverse
  BY Zenon DEF Loops!ReturnFromTraverse, Search!ReturnFromTraverse, Loops!Call, Search!Call,
     Loops!Last, Search!Last, Loops!Front, Search!Front, Loops!Lower, Search!Lower,
     Loops!Cardinality, Search!Cardinality,
     Loops!graphVars, Search!graphVars, Loops!resultVars, Search!resultVars
<1>6. Loops!SccsFound => Search!SccsFound
  BY Zenon DEF Loops!SccsFound, Search!SccsFound, Loops!TraversalEnded, Search!TraversalEnded,
     Loops!tarjanVars, Search!tarjanVars, Loops!resultVars, Search!resultVars
<1>7. Loops!ProcessScc => Search!ProcessScc
  BY Zenon DEF Loops!ProcessScc, Search!ProcessScc, Loops!find_loop_base, Search!find_loop_base,
     Loops!StoreLoop, Search!StoreLoop, Loops!With, Search!With, Loops!RemoveBase, Search!RemoveBase,
     Loops!NoBB, Search!NoBB, Loops!graphVars, Search!graphVars,
     Loops!resultVars, Search!resultVars, Loops!tarjanVars, Search!tarjanVars
<1>8. Loops!NextRound => Search!NextRound
  BY Zenon DEF Loops!NextRound, Search!NextRound, Loops!graphVars, Search!graphVars,
     Loops!resultVars, Search!resultVars
<1>. QED BY <1>1, <1>2, <1>3, <1>4, <1>5, <1>6, <1>7, <1>8 DEF Loops!Next, Search!Next

LEMMA SearchPartStart == PassesInit => SearchPart
<1>1. Loops!Idle => Search!Idle /\ step = "idle"
  BY DEF Loops!Idle, Search!Idle
<1>2. PassesInit => graph \in Graphs
  BY DEF PassesInit, Init
<1>. QED BY <1>1, <1>2, Search!SearchStart DEF PassesInit, SearchPart

\* Dominators leaves the function alone.
LEMMA FunctionStays == Next => graph' = graph
<1>1. VisitSuccessor => graph' = graph
  BY DEF VisitSuccessor
<1>2. FinishVisit => graph' = graph
  BY DEF FinishVisit
<1>3. NextSweep => graph' = graph
  BY DEF NextSweep
<1>4. SkipRoot => graph' = graph
  BY DEF SkipRoot
<1>5. FindPred => graph' = graph
  BY DEF FindPred
<1>6. SkipPred => graph' = graph
  BY DEF SkipPred
<1>7. CallIntersect => graph' = graph
  BY DEF CallIntersect
<1>8. ClimbB1 => graph' = graph
  BY DEF ClimbB1
<1>9. ClimbB2 => graph' = graph
  BY DEF ClimbB2
<1>10. IntersectReturns => graph' = graph
  BY DEF IntersectReturns
<1>11. SetIdom => graph' = graph
  BY DEF SetIdom
<1>12. StartFrontier => graph' = graph
  BY DEF StartFrontier
<1>13. StartRunner => graph' = graph
  BY DEF StartRunner
<1>14. RunnerClimbs => graph' = graph
  BY DEF RunnerClimbs
<1>15. RunnerStops => graph' = graph
  BY DEF RunnerStops
<1>16. CreateDomTreeSucc => graph' = graph
  BY DEF CreateDomTreeSucc
<1>17. FirstSweep => graph' = graph
  BY DEF FirstSweep
<1>18. Done => graph' = graph
  BY DEF Done, vars
<1>. QED BY <1>1, <1>2, <1>3, <1>4, <1>5, <1>6, <1>7, <1>8, <1>9, <1>10, <1>11, <1>12, <1>13, <1>14,
            <1>15, <1>16, <1>17, <1>18 DEF Next

LEMMA SearchPartKept ==
  ASSUME SearchPart, [PassesNext]_passVars
  PROVE  SearchPart'
<1>1. CASE RunLoopSearch
  <2>1. graph.loop_search /\ Search!Suitable
    BY <1>1, FunctionSuits DEF RunLoopSearch, SearchPart
  <2>2. Search!Next
    BY <1>1, SameSteps DEF RunLoopSearch
  <2>3. Search!SearchInv'
    BY <2>1, <2>2, Search!SearchKept DEF SearchPart
  <2>4. graph' = graph
    BY <1>1 DEF RunLoopSearch, vars
  <2>. QED BY <2>1, <2>3, <2>4 DEF SearchPart
<1>2. CASE RunDominators \/ UNCHANGED passVars
  <2>1. graph' = graph
    BY <1>2, FunctionStays DEF RunDominators, passVars, vars
  <2>2. UNCHANGED searchVars
    BY <1>2 DEF RunDominators, passVars
  <2>3. step' = step /\ UNCHANGED Search!vars
    BY <2>1, <2>2 DEF searchVars, Search!vars, Search!graphVars, Search!tarjanVars, Search!resultVars
  <2>4. Search!SearchInv'
    BY <2>3, Search!SearchIdles DEF SearchPart
  <2>. QED BY <2>1, <2>3, <2>4 DEF SearchPart
<1>. QED BY <1>1, <1>2 DEF PassesNext

LEMMA SearchInvariance == PassesSpec => []SearchPart
BY SearchPartStart, SearchPartKept, PTL DEF PassesSpec

\* LoopSearch has started, on a suitable function, or it is idle.
LEMMA StartedOrIdle ==
  ASSUME SearchPart
  PROVE  step # "idle" => Search!Suitable
BY FunctionSuits DEF SearchPart

\* The property SearchTypeOK: the graph, Tarjan's stack and numbers, the calls
\* of traverse and the result keep their types.
THEOREM SearchTyped == PassesSpec => []SearchTypeOK
<1>1. SearchPart => SearchTypeOK
  <2>1. CASE ~Search!TypeOK /\ SearchPart
    <3>1. step = "idle"
      BY <2>1, StartedOrIdle, Search!SearchTyped DEF SearchPart
    <3>2. Search!Idle
      BY <2>1, <3>1 DEF SearchPart, Search!SearchInv, Search!Traversing, Search!Removing, Search!Finished
    <3>. QED BY <2>1, <3>2, Search!IdleTyped
  <2>2. Search!TypeOK => SearchTypeOK
    BY Zenon DEF SearchTypeOK, Loops!TypeOK, Search!TypeOK, Loops!Range, Search!Range
  <2>. QED BY <2>1, <2>2
<1>. QED BY <1>1, SearchInvariance, PTL

\* The property BaseFound: find_loop_base never returns the null pointer that
\* run would dereference, in any order of the components and of the blocks.
THEOREM BasesFound == PassesSpec => []BaseFound
<1>1. SearchPart => BaseFound
  <2>1. SearchPart => Search!BaseFound
    BY Search!SearchBases DEF SearchPart
  <2>. QED BY <2>1, Zenon DEF BaseFound, Loops!BaseFound, Search!BaseFound
<1>. QED BY <1>1, SearchInvariance, PTL

\* The property ComponentsCorrect: what traverse pops is a strongly connected
\* component of the graph that is left, and a traversal finds all of them.
THEOREM ComponentsFound == PassesSpec => []ComponentsCorrect
<1>1. SearchPart => ComponentsCorrect
  <2>1. SearchPart => Search!ComponentsCorrect
    <3>1. step = "idle" => Search!ComponentsCorrect
      BY DEF Search!ComponentsCorrect
    <3>. QED BY <3>1, StartedOrIdle, Search!SearchComponents DEF SearchPart
  <2>. QED BY <2>1, Zenon DEF ComponentsCorrect, Loops!ComponentsCorrect, Search!ComponentsCorrect,
              Loops!Components, Search!Components, Loops!Reachable, Search!Reachable,
              Loops!TraversalEnded, Search!TraversalEnded, Loops!Cardinality, Search!Cardinality
<1>. QED BY <1>1, SearchInvariance, PTL

\* The property LoopsNatural: the loops found are the natural loops of the
\* function that have more than one block, each with its header as base.
THEOREM LoopsFound == PassesSpec => []LoopsNatural
<1>1. SearchPart => LoopsNatural
  <2>1. SearchPart => Search!LoopsNatural
    BY Search!SearchLoops DEF SearchPart
  <2>. QED BY <2>1, Zenon DEF LoopsNatural, Loops!LoopsNatural, Search!LoopsNatural,
              Loops!Headers, Search!Headers, Loops!NaturalLoop, Search!NaturalLoop,
              Loops!Latches, Search!Latches, Loops!Dominates, Search!Dominates,
              Loops!Reachable, Search!Reachable, Loops!Without, Search!Without, Loops!CFG, Search!CFG,
              Loops!SuccsOf, Search!SuccsOf, Loops!Range, Search!Range,
              Loops!Cardinality, Search!Cardinality
<1>. QED BY <1>1, SearchInvariance, PTL

\* The property InnermostLoop: get_inner_loop returns the smallest loop around
\* a block.
THEOREM InnermostLoops == PassesSpec => []InnermostLoop
<1>1. SearchPart => InnermostLoop
  <2>1. SearchPart => Search!InnermostLoop
    BY Search!SearchInner DEF SearchPart
  <2>. QED BY <2>1, Zenon DEF InnermostLoop, Loops!InnermostLoop, Search!InnermostLoop,
              Loops!get_inner_loop, Search!get_inner_loop, Loops!NoLoop, Search!NoLoop
<1>. QED BY <1>1, SearchInvariance, PTL

\* The property ParentLoopCorrect: get_parent_loop returns the smallest loop
\* around a loop, although it looks at one predecessor of its base only.
THEOREM ParentLoops == PassesSpec => []ParentLoopCorrect
<1>1. SearchPart => ParentLoopCorrect
  <2>1. SearchPart => Search!ParentLoopCorrect
    <3>1. step = "idle" => Search!ParentLoopCorrect
      BY DEF Search!ParentLoopCorrect
    <3>. QED BY <3>1, StartedOrIdle, Search!SearchParent DEF SearchPart
  <2>2. Loops!EnteredByBr <=> Search!EnteredByBr
    BY Zenon DEF Loops!EnteredByBr, Search!EnteredByBr, Loops!PrevsOf, Search!PrevsOf,
       Loops!Headers, Search!Headers, Loops!NaturalLoop, Search!NaturalLoop,
       Loops!Latches, Search!Latches, Loops!Dominates, Search!Dominates,
       Loops!Reachable, Search!Reachable, Loops!Without, Search!Without, Loops!CFG, Search!CFG,
       Loops!SuccsOf, Search!SuccsOf, Loops!Range, Search!Range,
       Loops!Cardinality, Search!Cardinality
  <2>3. \A L : Loops!get_parent_loop(L) = Search!get_parent_loop(L)
    BY Zenon DEF Loops!get_parent_loop, Search!get_parent_loop,
       Loops!get_inner_loop, Search!get_inner_loop, Loops!NoLoop, Search!NoLoop
  <2>. QED BY <2>1, <2>2, <2>3, Zenon DEF ParentLoopCorrect, Loops!ParentLoopCorrect,
              Search!ParentLoopCorrect, Loops!NoLoop, Search!NoLoop
<1>. QED BY <1>1, SearchInvariance, PTL
=============================================================================
