-------------------------- MODULE CFGBuilder_proofs --------------------------
(***************************************************************************)
(* CFGBuilder, for any bounds and any set of statement kinds: its types,   *)
(* reachability of every block, the edges it records, its loops and its    *)
(* terminators.                                                            *)
(*                                                                         *)
(* Types and reachability.  The inductive invariant IInv adds to the two   *)
(* properties what the frames of the call stack hold.                      *)
(*                                                                         *)
(* Then the lists: pre_bbs_ and succ_bbs_ mirror each other without        *)
(* repetitions, no branch leads to the entry, and the condition block of a *)
(* while has at most two predecessors.  A branch made twice between the    *)
(* same blocks would break the first.  The builder never asks whether it   *)
(* made one, so the argument is about what the frames of the call stack    *)
(* hold: the block a frame will branch to has no edge yet from any block   *)
(* the insertion point can come to before that.                            *)
(*                                                                         *)
(* Then the loops: the graph is reducible, and each cycle has the          *)
(* condition block of a while.  A branch goes to a block that no edge      *)
(* leaves yet, or back to the condition of the innermost while; the blocks *)
(* of that while are entered at its condition only.                        *)
(*                                                                         *)
(* Last, in functions without if-else and without code after a return, the *)
(* terminators.                                                            *)
(***************************************************************************)
EXTENDS CFGBuilder, TLAPS, FlowGraph_proofs, SequenceTheorems

Graph == [Blocks -> BlockRecord]

\* A block without successors, and a block that gets one more.
LEMMA SuccsOfEmpty ==
  ASSUME NEW g, NEW a, g[a].succ = <<>>
  PROVE  Succs(g, a) = {}
  BY DEF Succs, Range

\* A block that gets one more successor.
LEMMA SuccsOfAppend ==
  ASSUME NEW g, NEW h, NEW a, NEW x \in Blocks,
         g[a].succ \in Seq(Blocks), h[a].succ = Append(g[a].succ, x)
  PROVE  Succs(h, a) = Succs(g, a) \union {x}
<1> DEFINE s == g[a].succ
           t == h[a].succ
<1>1. Succs(g, a) = {s[i] : i \in 1 .. Len(s)}
  BY DEF Succs, Range
<1>2. t \in Seq(Blocks)
  OBVIOUS
<1>3. Succs(h, a) = {t[i] : i \in 1 .. Len(t)}
  BY <1>2 DEF Succs, Range
<1>4. /\ Len(s) \in Nat
      /\ Len(t) = Len(s) + 1
      /\ \A i \in 1 .. Len(s) : t[i] = s[i]
      /\ t[Len(s) + 1] = x
  OBVIOUS
<1>. HIDE DEF s, t
<1>. QED BY <1>1, <1>3, <1>4

\* An instruction that is not a branch leaves every edge alone.
LEMMA EmitKeepsEdges ==
  ASSUME NEW g \in Graph, NEW b \in Blocks, NEW i \in {"op", "br", "ret"}
  PROVE  /\ Emit(g, b, i) \in Graph
         /\ \A a \in Blocks : Succs(Emit(g, b, i), a) = Succs(g, a)
<1> DEFINE code == AddInstruction(g[b].code, i)
           r == [g[b] EXCEPT !.code = code]
<1>1. g[b] \in BlockRecord
  BY DEF Graph
<1>2. code \in Seq({"op", "br", "ret"})
  <2>1. g[b].code \in Seq({"op", "br", "ret"})
    BY <1>1 DEF BlockRecord
  <2>. QED BY <2>1 DEF AddInstruction
<1>3. r \in BlockRecord /\ r.succ = g[b].succ
  BY <1>1, <1>2 DEF BlockRecord
<1>4. Emit(g, b, i) = [g EXCEPT ![b] = r]
  BY DEF Emit
<1>. HIDE DEF r
<1>. QED BY <1>3, <1>4 DEF Graph, Succs

\* A new block has no edges, the others keep theirs.
LEMMA CreateKeepsEdges ==
  ASSUME NEW g \in Graph, NEW b \in Blocks, NEW name \in Labels
  PROVE  /\ Create(g, b, name) \in Graph
         /\ \A a \in Blocks \ {b} : Succs(Create(g, b, name), a) = Succs(g, a)
         /\ Succs(Create(g, b, name), b) = {}
<1> DEFINE r == [NoBlock EXCEPT !.label = name]
<1>1. r \in BlockRecord /\ r.succ = <<>>
  <2>1. r = [label |-> name, code |-> <<>>, pre |-> <<>>, succ |-> <<>>]
    BY DEF NoBlock
  <2>2. <<>> \in Seq({"op", "br", "ret"}) /\ <<>> \in Seq(Blocks)
    OBVIOUS
  <2>. HIDE DEF r
  <2>. QED BY <2>1, <2>2 DEF BlockRecord
<1>2. Create(g, b, name) = [g EXCEPT ![b] = r]
  BY DEF Create
<1>. HIDE DEF r
<1>3. /\ Create(g, b, name) \in Graph
      /\ Create(g, b, name)[b].succ = <<>>
      /\ \A a \in Blocks \ {b} : Create(g, b, name)[a] = g[a]
  BY <1>1, <1>2 DEF Graph
<1>. QED BY <1>3, SuccsOfEmpty DEF Succs

\* Recording a predecessor leaves the successors alone.
LEMMA AddPreKeepsEdges ==
  ASSUME NEW g \in Graph, NEW a \in Blocks, NEW b \in Blocks
  PROVE  /\ AddPre(g, a, b) \in Graph
         /\ \A c \in Blocks : Succs(AddPre(g, a, b), c) = Succs(g, c)
<1> DEFINE r == [g[b] EXCEPT !.pre = Append(g[b].pre, a)]
<1>1. g[b] \in BlockRecord
  BY DEF Graph
<1>2. Append(g[b].pre, a) \in Seq(Blocks)
  BY <1>1 DEF BlockRecord
<1>3. r \in BlockRecord /\ r.succ = g[b].succ
  BY <1>1, <1>2 DEF BlockRecord
<1>4. AddPre(g, a, b) = [g EXCEPT ![b] = r]
  BY DEF AddPre
<1>. HIDE DEF r
<1>. QED BY <1>3, <1>4 DEF Graph, Succs

\* Recording a successor adds that one edge.
LEMMA AddEdgeAddsEdge ==
  ASSUME NEW g \in Graph, NEW a \in Blocks, NEW b \in Blocks
  PROVE  /\ AddEdge(g, a, b) \in Graph
         /\ \A c \in Blocks \ {a} : Succs(AddEdge(g, a, b), c) = Succs(g, c)
         /\ Succs(AddEdge(g, a, b), a) = Succs(g, a) \union {b}
<1> DEFINE r == [g[a] EXCEPT !.succ = Append(g[a].succ, b)]
<1>1. g[a] \in BlockRecord
  BY DEF Graph
<1>2. g[a].succ \in Seq(Blocks)
  BY <1>1 DEF BlockRecord
<1>3. Append(g[a].succ, b) \in Seq(Blocks)
  BY <1>2
<1>4. r \in BlockRecord /\ r.succ = Append(g[a].succ, b)
  BY <1>1, <1>3 DEF BlockRecord
<1>5. AddEdge(g, a, b) = [g EXCEPT ![a] = r]
  BY DEF AddEdge
<1>. HIDE DEF r
<1>6. /\ AddEdge(g, a, b) \in Graph
      /\ AddEdge(g, a, b)[a].succ = Append(g[a].succ, b)
      /\ \A c \in Blocks \ {a} : AddEdge(g, a, b)[c] = g[c]
  BY <1>4, <1>5 DEF Graph
<1>7. Succs(AddEdge(g, a, b), a) = Succs(g, a) \union {b}
  <2>1. \A h : h[a].succ = Append(g[a].succ, b) => Succs(h, a) = Succs(g, a) \union {b}
    BY <1>2, SuccsOfAppend
  <2>. QED BY <1>6, <2>1
<1>8. \A c \in Blocks \ {a} : Succs(AddEdge(g, a, b), c) = Succs(g, c)
  BY <1>6 DEF Succs
<1>. QED BY <1>6, <1>7, <1>8

\* An unconditional branch adds the edge to its target.
LEMMA CreateBrAddsEdge ==
  ASSUME NEW g \in Graph, NEW b \in Blocks, NEW t \in Blocks
  PROVE  /\ CreateBr(g, b, t) \in Graph
         /\ \A c \in Blocks \ {b} : Succs(CreateBr(g, b, t), c) = Succs(g, c)
         /\ Succs(CreateBr(g, b, t), b) = Succs(g, b) \union {t}
<1> DEFINE p == AddPre(g, b, t)
           e == AddEdge(p, b, t)
<1>1. p \in Graph /\ \A c \in Blocks : Succs(p, c) = Succs(g, c)
  BY AddPreKeepsEdges
<1>. HIDE DEF p
<1>2. /\ e \in Graph
      /\ \A c \in Blocks \ {b} : Succs(e, c) = Succs(p, c)
      /\ Succs(e, b) = Succs(p, b) \union {t}
  BY <1>1, AddEdgeAddsEdge
<1>3. /\ Emit(e, b, "br") \in Graph
      /\ \A c \in Blocks : Succs(Emit(e, b, "br"), c) = Succs(e, c)
  BY <1>2, EmitKeepsEdges
<1>4. CreateBr(g, b, t) = Emit(e, b, "br")
  BY DEF CreateBr, p
<1>. HIDE DEF e
<1>. QED BY <1>1, <1>2, <1>3, <1>4

\* A conditional branch adds the edges to its two targets.
LEMMA CreateCondBrAddsEdges ==
  ASSUME NEW g \in Graph, NEW b \in Blocks, NEW t \in Blocks, NEW f \in Blocks
  PROVE  /\ CreateCondBr(g, b, t, f) \in Graph
         /\ \A c \in Blocks \ {b} : Succs(CreateCondBr(g, b, t, f), c) = Succs(g, c)
         /\ Succs(CreateCondBr(g, b, t, f), b) = Succs(g, b) \union {t, f}
<1> DEFINE p1 == AddPre(g, b, t)
           p2 == AddPre(p1, b, f)
           e1 == AddEdge(p2, b, f)
           e2 == AddEdge(e1, b, t)
<1>1. p1 \in Graph /\ \A c \in Blocks : Succs(p1, c) = Succs(g, c)
  BY AddPreKeepsEdges
<1>. HIDE DEF p1
<1>2. p2 \in Graph /\ \A c \in Blocks : Succs(p2, c) = Succs(p1, c)
  BY <1>1, AddPreKeepsEdges
<1>. HIDE DEF p2
<1>3. /\ e1 \in Graph
      /\ \A c \in Blocks \ {b} : Succs(e1, c) = Succs(p2, c)
      /\ Succs(e1, b) = Succs(p2, b) \union {f}
  BY <1>2, AddEdgeAddsEdge
<1>. HIDE DEF e1
<1>4. /\ e2 \in Graph
      /\ \A c \in Blocks \ {b} : Succs(e2, c) = Succs(e1, c)
      /\ Succs(e2, b) = Succs(e1, b) \union {t}
  BY <1>3, AddEdgeAddsEdge
<1>5. /\ Emit(e2, b, "br") \in Graph
      /\ \A c \in Blocks : Succs(Emit(e2, b, "br"), c) = Succs(e2, c)
  BY <1>4, EmitKeepsEdges
<1>6. CreateCondBr(g, b, t, f) = Emit(e2, b, "br")
  BY DEF CreateCondBr, p1, p2, e1
<1>. HIDE DEF e2
<1>. QED BY <1>1, <1>2, <1>3, <1>4, <1>5, <1>6

\* Zero or more plain instructions leave every edge alone.
LEMMA MaybeOpKeepsEdges ==
  ASSUME NEW g \in Graph, NEW b \in Blocks, NEW h \in MaybeOp(g, b)
  PROVE  /\ h \in Graph
         /\ \A a \in Blocks : Succs(h, a) = Succs(g, a)
  BY EmitKeepsEdges DEF MaybeOp

(***************************************************************************)
(* Reachability: the blocks C of a graph of n blocks are reachable.        *)
(***************************************************************************)
EdgesOf(g, n) == {e \in (1 .. n) \X (1 .. n) : e[2] \in Succs(g, e[1])}
Reaches(g, n, C) == AllReachableFrom(Entry, C, 1 .. n, EdgesOf(g, n))

\* What is reachable stays reachable when edges and blocks are added.
LEMMA ReachesKept ==
  ASSUME NEW g, NEW h, NEW n \in Blocks, NEW m \in Blocks, n <= m,
         \A a \in 1 .. n : Succs(g, a) \subseteq Succs(h, a),
         NEW C \in SUBSET (1 .. n), Reaches(g, n, C)
  PROVE  Reaches(h, m, C)
<1> SUFFICES ASSUME NEW S \in SUBSET (1 .. m), Entry \in S, Closed(S, EdgesOf(h, m))
             PROVE  C \subseteq S
  BY DEF Reaches, AllReachableFrom
<1> DEFINE T == S \intersect (1 .. n)
<1>1. T \in SUBSET (1 .. n) /\ Entry \in T
  BY BoundsAssumption DEF Entry, Blocks
<1>2. Closed(T, EdgesOf(g, n))
  <2> SUFFICES ASSUME NEW a \in 1 .. n, NEW b \in 1 .. n, b \in Succs(g, a), a \in T
               PROVE  b \in T
    BY DEF Closed, EdgesOf
  <2>1. a \in 1 .. m /\ b \in 1 .. m /\ b \in Succs(h, a)
    BY BoundsAssumption DEF Blocks
  <2>2. <<a, b>> \in EdgesOf(h, m)
    BY <2>1 DEF EdgesOf
  <2>. QED BY <2>2 DEF Closed
<1>. HIDE DEF T
<1>3. C \subseteq T
  BY <1>1, <1>2 DEF Reaches, AllReachableFrom
<1>. QED BY <1>3 DEF T

\* A successor of a reachable block is reachable.
LEMMA ReachesSuccessor ==
  ASSUME NEW g, NEW n \in Blocks, NEW C \in SUBSET (1 .. n),
         NEW c \in C, NEW d \in 1 .. n, d \in Succs(g, c), Reaches(g, n, C)
  PROVE  Reaches(g, n, C \union {d})
<1> SUFFICES ASSUME NEW S \in SUBSET (1 .. n), Entry \in S, Closed(S, EdgesOf(g, n))
             PROVE  C \union {d} \subseteq S
  BY DEF Reaches, AllReachableFrom
<1>1. C \subseteq S
  BY DEF Reaches, AllReachableFrom
<1>2. <<c, d>> \in EdgesOf(g, n)
  BY DEF EdgesOf
<1>. QED BY <1>1, <1>2 DEF Closed

(***************************************************************************)
(* The call stack: which blocks a frame holds, and that a while under its  *)
(* condition can only be the innermost frame.                              *)
(***************************************************************************)
FrameOK(f, n) ==
  /\ f.kind \in {"ifTrue", "whileBody", "whileCond"} => f.retBB \in 1 .. n
  /\ f.kind = "elseTrue" => f.falseBB \in 1 .. n
  /\ f.kind = "elseFalse" => f.curTrueBB \in 1 .. n
  /\ f.kind = "whileCond" => f.loopBB \in 1 .. n
  /\ f.kind \in {"whileCond", "whileBody"} => f.conditionBB \in 1 .. n

FramesOK(fs, p, n) ==
  \A i \in 1 .. Len(fs) :
    /\ FrameOK(fs[i], n)
    /\ fs[i].kind = "whileCond" => i = Len(fs) /\ p = "expr"

PendingOf(fs) ==
  IF fs # <<>> /\ Last(fs).kind = "whileCond"
  THEN {Last(fs).loopBB, Last(fs).retBB} ELSE {}

\* A frame keeps holding existing blocks when blocks are added.
LEMMA FrameOKGrows ==
  ASSUME NEW f \in FrameRecord, NEW n \in Nat, NEW m \in Nat, n <= m, FrameOK(f, n)
  PROVE  FrameOK(f, m)
  BY DEF FrameOK

\* The innermost frame is one of the frames.
LEMMA TopFrame ==
  ASSUME NEW fs \in Seq(FrameRecord), NEW p, NEW n \in Nat, FramesOK(fs, p, n), fs # <<>>
  PROVE  /\ Last(fs) \in FrameRecord
         /\ FrameOK(Last(fs), n)
         /\ Last(fs).kind = "whileCond" => p = "expr"
<1>1. Len(fs) \in 1 .. Len(fs) /\ Last(fs) = fs[Len(fs)]
  BY DEF Last
<1>. QED BY <1>1 DEF FramesOK

\* No block is pending unless an expression is being visited.
LEMMA NothingPending ==
  ASSUME NEW fs \in Seq(FrameRecord), NEW p, NEW n \in Nat, FramesOK(fs, p, n), p # "expr"
  PROVE  PendingOf(fs) = {}
  BY TopFrame DEF PendingOf

\* Leaving the stack alone.
LEMMA SameFrames ==
  ASSUME NEW fs \in Seq(FrameRecord), NEW p, NEW q, NEW n \in Nat, NEW m \in Nat,
         n <= m, FramesOK(fs, p, n), p # "expr" \/ p = q
  PROVE  FramesOK(fs, q, m)
  BY FrameOKGrows DEF FramesOK

\* A visit method calls accept on a child.
LEMMA PushFrame ==
  ASSUME NEW fs \in Seq(FrameRecord), NEW f \in FrameRecord, NEW p, NEW q,
         NEW n \in Nat, NEW m \in Nat, n <= m,
         FramesOK(fs, p, n), p # "expr", FrameOK(f, m), f.kind = "whileCond" => q = "expr"
  PROVE  /\ Append(fs, f) \in Seq(FrameRecord)
         /\ FramesOK(Append(fs, f), q, m)
         /\ Append(fs, f) # <<>>
         /\ Last(Append(fs, f)) = f
<1> DEFINE t == Append(fs, f)
<1>1. /\ t \in Seq(FrameRecord) /\ t # <<>>
      /\ Len(t) = Len(fs) + 1 /\ Len(fs) \in Nat
      /\ \A i \in 1 .. Len(fs) : t[i] = fs[i] /\ fs[i] \in FrameRecord
      /\ t[Len(t)] = f
  OBVIOUS
<1>. HIDE DEF t
<1>2. ASSUME NEW i \in 1 .. Len(t)
      PROVE  FrameOK(t[i], m) /\ (t[i].kind = "whileCond" => i = Len(t) /\ q = "expr")
  <2>1. CASE i = Len(t)
    BY <2>1, <1>1
  <2>2. CASE i \in 1 .. Len(fs)
    BY <2>2, <1>1, FrameOKGrows DEF FramesOK
  <2>. QED BY <2>1, <2>2, <1>1
<1>3. FramesOK(t, q, m)
  BY <1>2 DEF FramesOK
<1>4. Last(t) = f
  BY <1>1 DEF Last
<1>. QED BY <1>1, <1>3, <1>4 DEF t

\* A visit method returns to its caller, which is not waiting for a condition.
LEMMA PopFrame ==
  ASSUME NEW fs \in Seq(FrameRecord), NEW p, NEW q, NEW n \in Nat, NEW m \in Nat,
         n <= m, FramesOK(fs, p, n), fs # <<>>
  PROVE  /\ Front(fs) \in Seq(FrameRecord)
         /\ FramesOK(Front(fs), q, m)
         /\ PendingOf(Front(fs)) = {}
<1> DEFINE t == Front(fs)
<1>1. /\ t \in Seq(FrameRecord)
      /\ Len(t) = Len(fs) - 1 /\ Len(fs) \in Nat
      /\ \A i \in 1 .. Len(t) : t[i] = fs[i] /\ fs[i] \in FrameRecord
  <2>1. /\ Len(fs) \in Nat \ {0} /\ Len(fs) - 1 \in 0 .. Len(fs)
        /\ \A i \in 1 .. Len(fs) : fs[i] \in FrameRecord
    OBVIOUS
  <2>2. t = SubSeq(fs, 1, Len(fs) - 1)
    BY DEF Front
  <2>3. \A i \in 1 .. Len(fs) - 1 : i \in 1 .. Len(fs)
    BY <2>1
  <2>. HIDE DEF t
  <2>4. t = [i \in 1 .. Len(fs) - 1 |-> fs[i]]
    BY <2>1, <2>2
  <2>5. t \in Seq(FrameRecord) /\ Len(t) = Len(fs) - 1
    BY <2>1, <2>3, <2>4
  <2>. QED BY <2>1, <2>3, <2>4, <2>5
<1>. HIDE DEF t
<1>2. ASSUME NEW i \in 1 .. Len(t)
      PROVE  FrameOK(t[i], m) /\ t[i].kind # "whileCond"
  <2>1. i \in 1 .. Len(fs) /\ i # Len(fs)
    BY <1>1
  <2>. QED BY <2>1, <1>1, FrameOKGrows DEF FramesOK
<1>3. FramesOK(t, q, m)
  BY <1>2 DEF FramesOK
<1>4. PendingOf(t) = {}
  <2>1. CASE t # <<>>
    <3>1. Len(t) \in 1 .. Len(t) /\ Last(t) = t[Len(t)]
      BY <2>1, <1>1 DEF Last
    <3>. QED BY <3>1, <1>2 DEF PendingOf
  <2>. QED BY <2>1 DEF PendingOf
<1>. QED BY <1>1, <1>3, <1>4 DEF t

\* A visit method goes on to its next child.
LEMMA ReplaceFrame ==
  ASSUME NEW fs \in Seq(FrameRecord), NEW f \in FrameRecord, NEW p, NEW q,
         NEW n \in Nat, NEW m \in Nat, n <= m, fs # <<>>,
         FramesOK(fs, p, n), FrameOK(f, m), f.kind # "whileCond"
  PROVE  /\ Append(Front(fs), f) \in Seq(FrameRecord)
         /\ FramesOK(Append(Front(fs), f), q, m)
         /\ Append(Front(fs), f) # <<>>
         /\ PendingOf(Append(Front(fs), f)) = {}
<1>1. Front(fs) \in Seq(FrameRecord) /\ FramesOK(Front(fs), "stmt", n)
  <2>1. n <= n
    OBVIOUS
  <2>. QED BY <2>1, PopFrame
<1>2. /\ Append(Front(fs), f) \in Seq(FrameRecord)
      /\ FramesOK(Append(Front(fs), f), q, m)
      /\ Append(Front(fs), f) # <<>>
      /\ Last(Append(Front(fs), f)) = f
  <2>1. "stmt" # "expr"
    OBVIOUS
  <2>. QED BY <1>1, <2>1, PushFrame
<1>. QED BY <1>2 DEF PendingOf

(***************************************************************************)
(* The inductive invariant.                                                *)
(***************************************************************************)
Good(g, n, b, fs, p) ==
  /\ g \in Graph
  /\ n \in Blocks
  /\ b \in 1 .. n
  /\ fs \in Seq(FrameRecord)
  /\ p \in {"stmt", "expr", "done", "end"}
  /\ FramesOK(fs, p, n)
  /\ p \in {"stmt", "expr"} => fs # <<>>
  /\ b \notin PendingOf(fs)
  /\ Reaches(g, n, (1 .. n) \ PendingOf(fs))

IInv == Good(bbs, nb, BB_, frames, pc) /\ work \in 0 .. MaxWork

\* The inductive invariant is stronger than the two properties.
LEMMA IInvImplies == IInv => TypeOK /\ AllReachable
  BY DEF IInv, Good, TypeOK, Graph, AllReachable, Reaches, PendingOf, Pending,
         Top, Edges, EdgesOf, Created

\* What the action lemmas use of Good.
LEMMA GoodTypes ==
  ASSUME Good(bbs, nb, BB_, frames, pc)
  PROVE  /\ nb \in Nat /\ nb \in Blocks /\ nb <= nb /\ 1 .. nb \subseteq Blocks
         /\ BB_ \in Blocks /\ BB_ \in 1 .. nb
         /\ bbs \in Graph
         /\ frames \in Seq(FrameRecord)
         /\ FramesOK(frames, pc, nb)
         /\ (1 .. nb) \ PendingOf(frames) \in SUBSET (1 .. nb)
         /\ BB_ \in (1 .. nb) \ PendingOf(frames)
         /\ pc # "expr" => PendingOf(frames) = {}
<1>1. nb \in Nat /\ nb \in Blocks /\ nb <= nb /\ 1 .. nb \subseteq Blocks
  BY BoundsAssumption DEF Good, Blocks
<1>2. pc # "expr" => PendingOf(frames) = {}
  BY <1>1, NothingPending DEF Good
<1>. QED BY <1>1, <1>2 DEF Good

\* A step that changes at most the instructions of existing blocks.
LEMMA SameEdges ==
  ASSUME NEW g, NEW h, NEW n \in Blocks, NEW C \in SUBSET (1 .. n), Reaches(g, n, C),
         \A a \in Blocks : Succs(h, a) = Succs(g, a)
  PROVE  Reaches(h, n, C)
<1>1. n \in Nat /\ n <= n /\ 1 .. n \subseteq Blocks
  BY BoundsAssumption DEF Blocks
<1>. QED BY <1>1, ReachesKept

\* The empty function, with its entry block, satisfies the invariant.
LEMMA InitGood == Init => IInv
<1> SUFFICES ASSUME Init PROVE IInv
  OBVIOUS
<1> DEFINE g0 == [b \in Blocks |-> NoBlock]
           g1 == Create(g0, Entry, "entry")
<1>1. Entry \in Blocks /\ 1 \in Blocks /\ 1 .. 1 = {Entry}
  BY BoundsAssumption DEF Entry, Blocks
<1>2. g0 \in Graph
  <2>1. <<>> \in Seq({"op", "br", "ret"}) /\ <<>> \in Seq(Blocks) /\ "none" \in Labels
    BY DEF Labels, FixedLabels
  <2>. QED BY <2>1 DEF Graph, NoBlock, BlockRecord
<1>. HIDE DEF g0
<1>3. g1 \in Graph
  BY <1>1, <1>2, CreateKeepsEdges DEF Labels, FixedLabels
<1>4. PICK g \in MaybeOp(g1, Entry) : bbs = g
  BY DEF Init, g0
<1>. HIDE DEF g1
<1>5. bbs \in Graph
  BY <1>1, <1>3, <1>4, MaybeOpKeepsEdges
<1>6. Frame("list") \in FrameRecord /\ Frame("list").kind = "list"
  BY DEF Frame, FrameRecord, MaybeBB, FrameKinds
<1>. DEFINE f == Frame("list")
<1>. HIDE DEF f
<1>7. /\ <<f>> \in Seq(FrameRecord) /\ Len(<<f>>) = 1 /\ <<f>>[1] = f /\ <<f>> # <<>>
      /\ Last(<<f>>) = f
  BY <1>6 DEF Last, f
<1>8. FramesOK(<<f>>, "done", 1) /\ PendingOf(<<f>>) = {}
  BY <1>6, <1>7 DEF FramesOK, FrameOK, PendingOf, f
<1>9. Reaches(bbs, 1, 1 .. 1)
  BY <1>1 DEF Reaches, AllReachableFrom
<1>. QED
  BY <1>1, <1>5, <1>7, <1>8, <1>9, BoundsAssumption DEF Init, IInv, Good, f, Entry

(***************************************************************************)
(* Each action preserves Good.                                             *)
(***************************************************************************)
NextGood == Good(bbs', nb', BB_', frames', pc')

\* Steps that leave the stack alone and add no edge and no block.
LEMMA KeepFramesGood ==
  ASSUME Good(bbs, nb, BB_, frames, pc), bbs' \in Graph, nb' = nb, BB_' = BB_,
         \A a \in Blocks : Succs(bbs', a) = Succs(bbs, a),
         frames' = frames, pc # "expr",
         pc' \in {"stmt", "done", "end"}, pc' = "stmt" => frames # <<>>
  PROVE  NextGood
<1>1. FramesOK(frames, pc', nb)
  BY GoodTypes, SameFrames
<1>2. Reaches(bbs', nb, (1 .. nb) \ PendingOf(frames))
  BY GoodTypes, SameEdges DEF Good
<1>. QED BY <1>1, <1>2, GoodTypes DEF NextGood, Good

\* Steps that call accept on an expression or on a statement list.
LEMMA PushGood ==
  ASSUME Good(bbs, nb, BB_, frames, pc), bbs' \in Graph, nb' = nb, BB_' = BB_,
         \A a \in Blocks : Succs(bbs', a) = Succs(bbs, a),
         pc # "expr", NEW kind \in FrameKinds,
         kind \notin {"ifTrue", "elseTrue", "elseFalse", "whileCond", "whileBody"},
         frames' = Push(Frame(kind)), pc' \in {"expr", "done"}
  PROVE  NextGood
<1> DEFINE f == Frame(kind)
<1>1. f \in FrameRecord /\ f.kind = kind
  BY DEF Frame, FrameRecord, MaybeBB
<1>2. FrameOK(f, nb)
  BY <1>1 DEF FrameOK
<1>. HIDE DEF f
<1>3. frames' = Append(frames, f)
  BY DEF Push, f
<1>4. /\ frames' \in Seq(FrameRecord) /\ FramesOK(frames', pc', nb)
      /\ frames' # <<>> /\ Last(frames') = f
  BY <1>1, <1>2, <1>3, GoodTypes, PushFrame
<1>5. PendingOf(frames') = {} /\ PendingOf(frames) = {}
  BY <1>1, <1>4, GoodTypes DEF PendingOf
<1>6. Reaches(bbs', nb, (1 .. nb) \ PendingOf(frames))
  BY GoodTypes, SameEdges DEF Good
<1>. QED BY <1>4, <1>5, <1>6, GoodTypes DEF NextGood, Good

\* Steps that return to the caller and keep the insertion point; nothing was
\* pending, or the frame left is not that of a while under its condition.
LEMMA PopGood ==
  ASSUME Good(bbs, nb, BB_, frames, pc), bbs' \in Graph, nb' = nb, BB_' = BB_,
         \A a \in Blocks : Succs(bbs', a) = Succs(bbs, a),
         frames # <<>>, Last(frames).kind # "whileCond",
         frames' = Pop, pc' = "done"
  PROVE  NextGood
<1>1. /\ frames' \in Seq(FrameRecord) /\ FramesOK(frames', pc', nb)
      /\ PendingOf(frames') = {}
  BY GoodTypes, PopFrame DEF Pop
<1>2. PendingOf(frames) = {}
  BY DEF PendingOf
<1>3. Reaches(bbs', nb, (1 .. nb) \ PendingOf(frames))
  BY GoodTypes, SameEdges DEF Good
<1>. QED BY <1>1, <1>2, <1>3, GoodTypes DEF NextGood, Good

\* Steps that leave the graph alone apart from instructions: a statement
\* without control flow, the begin and end of a list, the end of the function.
LEMMA PlainStepsGood ==
  ASSUME Good(bbs, nb, BB_, frames, pc),
         \/ VisitEmpty \/ VisitExpressionStmt \/ VisitCompoundStmt
         \/ VisitSelectionStmt \/ VisitReturnStmt
         \/ FinishExpressionStmt \/ FinishReturn
         \/ NextStatement \/ EndCompoundStmt \/ FinishFunction
  PROVE  NextGood
<1>1. /\ bbs \in Graph /\ BB_ \in Blocks
      /\ \A g \in MaybeOp(bbs, BB_) :
           g \in Graph /\ \A a \in Blocks : Succs(g, a) = Succs(bbs, a)
  BY GoodTypes, MaybeOpKeepsEdges
<1>2. \A g \in Graph : /\ Emit(g, BB_, "ret") \in Graph
                       /\ \A a \in Blocks : Succs(Emit(g, BB_, "ret"), a) = Succs(g, a)
  BY <1>1, EmitKeepsEdges
<1>3. CASE VisitEmpty
  BY <1>1, <1>3, KeepFramesGood DEF VisitEmpty
<1>4. CASE VisitExpressionStmt
  BY <1>1, <1>4, PushGood DEF VisitExpressionStmt, Visit, FrameKinds
<1>5. CASE VisitCompoundStmt
  BY <1>1, <1>5, PushGood DEF VisitCompoundStmt, Visit, FrameKinds
<1>6. CASE VisitSelectionStmt
  BY <1>1, <1>6, PushGood DEF VisitSelectionStmt, Visit, FrameKinds
<1>7. CASE VisitReturnStmt
  <2>1. CASE bbs' = Emit(bbs, BB_, "ret") /\ pc' = "done" /\ UNCHANGED frames
    BY <1>1, <1>2, <1>7, <2>1, KeepFramesGood DEF VisitReturnStmt, Visit
  <2>2. CASE frames' = Push(Frame("return")) /\ pc' = "expr" /\ UNCHANGED bbs
    BY <1>1, <1>7, <2>2, PushGood DEF VisitReturnStmt, Visit, FrameKinds
  <2>. QED BY <1>7, <2>1, <2>2 DEF VisitReturnStmt
<1>8. CASE FinishExpressionStmt
  <2>1. frames # <<>>
    BY <1>8 DEF Good, FinishExpressionStmt, ExprVisited
  <2>. QED
    BY <1>1, <1>8, <2>1, PopGood DEF FinishExpressionStmt, ExprVisited, Top
<1>9. CASE FinishReturn
  <2>1. frames # <<>>
    BY <1>9 DEF Good, FinishReturn, ExprVisited
  <2>2. bbs' \in Graph /\ \A a \in Blocks : Succs(bbs', a) = Succs(bbs, a)
    BY <1>1, <1>2, <1>9 DEF FinishReturn
  <2>. QED
    BY <1>9, <2>1, <2>2, PopGood DEF FinishReturn, ExprVisited, Top
<1>10. CASE NextStatement
  BY <1>1, <1>10, KeepFramesGood DEF NextStatement, StmtVisited
<1>11. CASE EndCompoundStmt
  BY <1>1, <1>11, PopGood DEF EndCompoundStmt, StmtVisited, Top
<1>12. CASE FinishFunction
  BY <1>1, <1>2, <1>12, KeepFramesGood DEF FinishFunction
<1>. QED
  BY <1>3, <1>4, <1>5, <1>6, <1>7, <1>8, <1>9, <1>10, <1>11, <1>12

\* A while creates its three blocks and reaches only the first.
LEMMA VisitIterationStmtGood ==
  ASSUME Good(bbs, nb, BB_, frames, pc), VisitIterationStmt
  PROVE  NextGood
<1> DEFINE c == nb + 1
           l == nb + 2
           r == nb + 3
           g1 == Create(bbs, c, "condition")
           g2 == Create(g1, l, "loop")
           g3 == Create(g2, r, "ret")
           f == [Frame("whileCond") EXCEPT !.conditionBB = c, !.loopBB = l, !.retBB = r]
<1>1. /\ nb + 3 <= MaxBlocks /\ nb' = nb + 3 /\ bbs' = CreateBr(g3, BB_, c)
      /\ BB_' = c /\ frames' = Append(frames, f) /\ pc = "stmt" /\ pc' = "expr"
  BY DEF VisitIterationStmt, Visit, Push
<1>2. /\ nb \in Nat /\ BB_ \in Blocks /\ BB_ \in 1 .. nb /\ bbs \in Graph
      /\ c \in Blocks /\ l \in Blocks /\ r \in Blocks /\ PendingOf(frames) = {}
      /\ 1 .. nb \subseteq Blocks /\ c # BB_ /\ l # BB_ /\ r # BB_
  BY <1>1, GoodTypes, BoundsAssumption DEF Blocks
<1>3. f \in FrameRecord /\ f.kind = "whileCond" /\ f.conditionBB = c /\ f.loopBB = l /\ f.retBB = r
  BY <1>2 DEF Frame, FrameRecord, MaybeBB, FrameKinds
<1>4. FrameOK(f, nb + 3)
  BY <1>2, <1>3 DEF FrameOK
<1>. HIDE DEF f
<1>5. /\ frames' \in Seq(FrameRecord) /\ FramesOK(frames', pc', nb + 3)
      /\ frames' # <<>> /\ Last(frames') = f
  <2>1. nb + 3 \in Nat /\ nb <= nb + 3
    BY <1>2
  <2>. QED BY <1>1, <1>3, <1>4, <2>1, GoodTypes, PushFrame
<1>6. PendingOf(frames') = {l, r}
  BY <1>3, <1>5 DEF PendingOf
<1>. HIDE DEF c, l, r
<1>7. g1 \in Graph /\ \A a \in Blocks \ {c} : Succs(g1, a) = Succs(bbs, a)
  BY <1>2, CreateKeepsEdges DEF Labels, FixedLabels
<1>. HIDE DEF g1
<1>8. g2 \in Graph /\ \A a \in Blocks \ {l} : Succs(g2, a) = Succs(g1, a)
  BY <1>2, <1>7, CreateKeepsEdges DEF Labels, FixedLabels
<1>. HIDE DEF g2
<1>9. g3 \in Graph /\ \A a \in Blocks \ {r} : Succs(g3, a) = Succs(g2, a)
  BY <1>2, <1>8, CreateKeepsEdges DEF Labels, FixedLabels
<1>. HIDE DEF g3
<1>10. /\ bbs' \in Graph
       /\ \A a \in Blocks \ {BB_} : Succs(bbs', a) = Succs(g3, a)
       /\ Succs(bbs', BB_) = Succs(g3, BB_) \union {c}
  <2>1. bbs' = CreateBr(g3, BB_, c)
    BY <1>1 DEF c
  <2>2. /\ CreateBr(g3, BB_, c) \in Graph
        /\ \A a \in Blocks \ {BB_} : Succs(CreateBr(g3, BB_, c), a) = Succs(g3, a)
        /\ Succs(CreateBr(g3, BB_, c), BB_) = Succs(g3, BB_) \union {c}
    <3>1. g3 \in Graph /\ BB_ \in Blocks /\ c \in Blocks
      BY <1>2, <1>9
    <3>. QED BY <3>1, CreateBrAddsEdge
  <2>. QED BY <2>1, <2>2
<1>11. \A a \in 1 .. nb : Succs(bbs, a) \subseteq Succs(bbs', a)
  <2>1. \A a \in 1 .. nb : a \in Blocks /\ a \notin {c, l, r}
    BY <1>2 DEF c, l, r
  <2>. QED BY <2>1, <1>7, <1>8, <1>9, <1>10
<1>12. nb + 3 \in Blocks /\ nb <= nb + 3
  BY <1>2 DEF r
<1>13. Reaches(bbs', nb + 3, 1 .. nb)
  <2>1. Reaches(bbs, nb, 1 .. nb)
    BY <1>2 DEF Good
  <2>. QED BY <2>1, <1>11, <1>12, GoodTypes, ReachesKept
<1>14. Reaches(bbs', nb + 3, (1 .. nb) \union {c})
  <2>1. /\ 1 .. nb \in SUBSET (1 .. nb + 3) /\ c \in 1 .. nb + 3
        /\ c \in Succs(bbs', BB_)
    BY <1>2, <1>10 DEF c
  <2>. QED BY <1>2, <1>12, <1>13, <2>1, ReachesSuccessor
<1>15. (1 .. nb + 3) \ {l, r} = (1 .. nb) \union {c} /\ c \in 1 .. nb + 3 /\ c \notin {l, r}
  BY <1>2 DEF c, l, r
<1>. QED BY <1>1, <1>5, <1>6, <1>10, <1>12, <1>14, <1>15 DEF NextGood, Good

\* Two blocks are created and both become targets of a conditional branch:
\* the common part of if, if-else and of the test of an array index.
LEMMA TwoWayBranch ==
  ASSUME NEW g \in Graph, NEW n \in Nat, n + 2 <= MaxBlocks, NEW C \in SUBSET (1 .. n), NEW b \in C,
         NEW name1 \in Labels, NEW name2 \in Labels, Reaches(g, n, C),
         NEW h, h = CreateCondBr(Create(Create(Emit(g, b, "op"), n + 1, name1),
                                        n + 2, name2), b, n + 1, n + 2)
  PROVE  /\ h \in Graph
         /\ Reaches(h, n + 2, C \union {n + 1, n + 2})
         /\ \A a \in 1 .. n : Succs(g, a) \subseteq Succs(h, a)
         /\ Succs(h, b) = Succs(g, b) \union {n + 1, n + 2}
<1> DEFINE t == n + 1
           f == n + 2
           g0 == Emit(g, b, "op")
           g1 == Create(g0, t, name1)
           g2 == Create(g1, f, name2)
<1>1. /\ n \in Blocks /\ t \in Blocks /\ f \in Blocks /\ b \in Blocks
      /\ t # b /\ f # b /\ n <= f /\ t \in 1 .. f /\ f \in 1 .. f
      /\ \A a \in 1 .. n : a \in Blocks /\ a # t /\ a # f
      /\ C \in SUBSET (1 .. f)
  BY BoundsAssumption DEF Blocks
<1>. HIDE DEF t, f
<1>2. g0 \in Graph /\ \A a \in Blocks : Succs(g0, a) = Succs(g, a)
  BY <1>1, EmitKeepsEdges
<1>. HIDE DEF g0
<1>3. g1 \in Graph /\ \A a \in Blocks \ {t} : Succs(g1, a) = Succs(g0, a)
  BY <1>1, <1>2, CreateKeepsEdges
<1>. HIDE DEF g1
<1>4. g2 \in Graph /\ \A a \in Blocks \ {f} : Succs(g2, a) = Succs(g1, a)
  BY <1>1, <1>3, CreateKeepsEdges
<1>. HIDE DEF g2
<1>5. h = CreateCondBr(g2, b, t, f)
  BY DEF g0, g1, g2, t, f
<1>6. /\ h \in Graph
      /\ \A a \in Blocks \ {b} : Succs(h, a) = Succs(g2, a)
      /\ Succs(h, b) = Succs(g2, b) \union {t, f}
  <2>1. b \in Blocks /\ t \in Blocks /\ f \in Blocks
    BY <1>1
  <2>. QED BY <1>4, <1>5, <2>1, CreateCondBrAddsEdges, SMTT(30)
<1>7. Succs(h, b) = Succs(g, b) \union {t, f}
  BY <1>1, <1>2, <1>3, <1>4, <1>6
<1>8. \A a \in 1 .. n : Succs(g, a) \subseteq Succs(h, a)
  BY <1>1, <1>2, <1>3, <1>4, <1>6
<1>9. Reaches(h, f, C)
  BY <1>1, <1>8, ReachesKept
<1>10. Reaches(h, f, C \union {t})
  <2>1. t \in Succs(h, b)
    BY <1>7
  <2>. QED BY <1>1, <1>9, <2>1, ReachesSuccessor
<1>11. Reaches(h, f, (C \union {t}) \union {f})
  <2>1. f \in Succs(h, b) /\ b \in C \union {t}
        /\ C \union {t} \in SUBSET (1 .. f)
    BY <1>1, <1>7
  <2>. QED BY <1>1, <1>10, <2>1, ReachesSuccessor
<1>12. Reaches(h, f, C \union {t, f})
  <2>1. (C \union {t}) \union {f} = C \union {t, f}
    OBVIOUS
  <2>. QED BY <1>11, <2>1
<1>. QED BY <1>6, <1>7, <1>8, <1>12 DEF t, f

\* if (e) s after e.
LEMMA BranchIfGood ==
  ASSUME Good(bbs, nb, BB_, frames, pc), BranchIf
  PROVE  NextGood
<1> DEFINE f == [Frame("ifTrue") EXCEPT !.retBB = nb + 2]
<1>1. /\ nb + 2 <= MaxBlocks /\ nb' = nb + 2 /\ BB_' = nb + 1
      /\ frames' = Append(Front(frames), f) /\ pc' = "stmt" /\ pc = "expr"
      /\ bbs' = CreateCondBr(Create(Create(Emit(bbs, BB_, "op"), nb + 1, "true"),
                                    nb + 2, "ret"), BB_, nb + 1, nb + 2)
      /\ Last(frames).kind = "ifCond" /\ frames # <<>>
  BY DEF BranchIf, ExprVisited, Top, Replace, Good
<1>2. /\ nb \in Nat /\ BB_ \in 1 .. nb /\ bbs \in Graph /\ nb + 2 \in Blocks
      /\ nb + 2 \in Nat /\ nb <= nb + 2 /\ nb + 1 \in 1 .. nb + 2
      /\ {"true", "ret"} \subseteq Labels
  BY <1>1, GoodTypes, BoundsAssumption DEF Blocks, Labels, FixedLabels
<1>3. PendingOf(frames) = {}
  BY <1>1 DEF PendingOf
<1>4. bbs' \in Graph /\ Reaches(bbs', nb + 2, 1 .. (nb + 2))
  <2>1. Reaches(bbs, nb, 1 .. nb)
    BY <1>3 DEF Good
  <2>2. "true" \in Labels /\ "ret" \in Labels
    BY <1>2
  <2>3. bbs' \in Graph /\ Reaches(bbs', nb + 2, (1 .. nb) \union {nb + 1, nb + 2})
    BY <1>1, <1>2, <2>1, <2>2, TwoWayBranch
  <2>4. (1 .. nb) \union {nb + 1, nb + 2} = 1 .. (nb + 2)
    BY <1>2
  <2>. QED BY <2>3, <2>4
<1>5. f \in FrameRecord /\ f.kind = "ifTrue" /\ f.retBB = nb + 2
  BY <1>2 DEF Frame, FrameRecord, MaybeBB, FrameKinds
<1>6. FrameOK(f, nb + 2) /\ f.kind # "whileCond"
  BY <1>2, <1>5 DEF FrameOK
<1>. HIDE DEF f
<1>7. /\ frames' \in Seq(FrameRecord) /\ FramesOK(frames', pc', nb + 2)
      /\ frames' # <<>> /\ PendingOf(frames') = {}
  BY <1>1, <1>2, <1>5, <1>6, GoodTypes, ReplaceFrame
<1>. QED BY <1>1, <1>2, <1>4, <1>7 DEF NextGood, Good

\* if (e) s1 else s2 after e.
LEMMA BranchIfElseGood ==
  ASSUME Good(bbs, nb, BB_, frames, pc), BranchIfElse
  PROVE  NextGood
<1> DEFINE f == [Frame("elseTrue") EXCEPT !.falseBB = nb + 2]
<1>1. /\ nb + 2 <= MaxBlocks /\ nb' = nb + 2 /\ BB_' = nb + 1
      /\ frames' = Append(Front(frames), f) /\ pc' = "stmt" /\ pc = "expr"
      /\ bbs' = CreateCondBr(Create(Create(Emit(bbs, BB_, "op"), nb + 1, "true"),
                                    nb + 2, "false"), BB_, nb + 1, nb + 2)
      /\ Last(frames).kind = "ifElseCond" /\ frames # <<>>
  BY DEF BranchIfElse, ExprVisited, Top, Replace, Good
<1>2. /\ nb \in Nat /\ BB_ \in 1 .. nb /\ bbs \in Graph /\ nb + 2 \in Blocks
      /\ nb + 2 \in Nat /\ nb <= nb + 2 /\ nb + 1 \in 1 .. nb + 2
      /\ {"true", "false"} \subseteq Labels
  BY <1>1, GoodTypes, BoundsAssumption DEF Blocks, Labels, FixedLabels
<1>3. PendingOf(frames) = {}
  BY <1>1 DEF PendingOf
<1>4. bbs' \in Graph /\ Reaches(bbs', nb + 2, 1 .. (nb + 2))
  <2>1. Reaches(bbs, nb, 1 .. nb)
    BY <1>3 DEF Good
  <2>2. "true" \in Labels /\ "false" \in Labels
    BY <1>2
  <2>3. bbs' \in Graph /\ Reaches(bbs', nb + 2, (1 .. nb) \union {nb + 1, nb + 2})
    BY <1>1, <1>2, <2>1, <2>2, TwoWayBranch
  <2>4. (1 .. nb) \union {nb + 1, nb + 2} = 1 .. (nb + 2)
    BY <1>2
  <2>. QED BY <2>3, <2>4
<1>5. f \in FrameRecord /\ f.kind = "elseTrue" /\ f.falseBB = nb + 2
  BY <1>2 DEF Frame, FrameRecord, MaybeBB, FrameKinds
<1>6. FrameOK(f, nb + 2) /\ f.kind # "whileCond"
  BY <1>2, <1>5 DEF FrameOK
<1>. HIDE DEF f
<1>7. /\ frames' \in Seq(FrameRecord) /\ FramesOK(frames', pc', nb + 2)
      /\ frames' # <<>> /\ PendingOf(frames') = {}
  BY <1>1, <1>2, <1>5, <1>6, GoodTypes, ReplaceFrame
<1>. QED BY <1>1, <1>2, <1>4, <1>7 DEF NextGood, Good

\* The graph after n + 1 and n + 2 are made the targets of a branch in b.
TwoWay(g, n, b, name1, name2) ==
  CreateCondBr(Create(Create(Emit(g, b, "op"), n + 1, name1), n + 2, name2), b, n + 1, n + 2)

\* What an array access does, with the names of its two blocks.
IndexTested(failName, passName) ==
  /\ failName # "condition" /\ passName # "condition"
  /\ nb + 2 <= MaxBlocks /\ nb' = nb + 2 /\ BB_' = nb + 2
  /\ pc = "expr" /\ pc' = "expr" /\ frames' = frames
  /\ bbs' = Emit(CreateBr(Emit(TwoWay(bbs, nb, BB_, failName, passName), nb + 1, "op"),
                          nb + 1, nb + 2), nb + 2, "op")

\* The names made from an array's are labels, and none of the fixed ones.
LEMMA IndexTest ==
  ASSUME VisitVarIndexed
  PROVE  \E failName \in Labels, passName \in Labels : IndexTested(failName, passName)
<1>1. PICK id \in ArrayNames :
         /\ nb + 2 <= MaxBlocks /\ nb' = nb + 2 /\ BB_' = nb + 2
         /\ pc = "expr" /\ pc' = pc /\ frames' = frames
         /\ bbs' = Emit(CreateBr(Emit(TwoWay(bbs, nb, BB_, FailLabel(id), PassLabel(id)),
                                      nb + 1, "op"), nb + 1, nb + 2), nb + 2, "op")
  BY DEF VisitVarIndexed, TwoWay
<1>2. FailLabel(id) \in Labels /\ PassLabel(id) \in Labels
  BY DEF Labels
<1>3. FailLabel(id) # "condition" /\ PassLabel(id) # "condition"
  BY LabelsAssumption DEF FixedLabels
<1>4. IndexTested(FailLabel(id), PassLabel(id))
  BY <1>1, <1>3 DEF IndexTested
<1>. QED BY <1>2, <1>4

\* The index test of an array access, in whatever statement it occurs.
LEMMA VisitVarIndexedGood ==
  ASSUME Good(bbs, nb, BB_, frames, pc), VisitVarIndexed
  PROVE  NextGood
<1>0. PICK failName \in Labels, passName \in Labels : IndexTested(failName, passName)
  BY IndexTest
<1> DEFINE fail == nb + 1
           pass == nb + 2
           C == (1 .. nb) \ PendingOf(frames)
           tested == TwoWay(bbs, nb, BB_, failName, passName)
           called == Emit(tested, fail, "op")
           failed == CreateBr(called, fail, pass)
<1>1. /\ nb + 2 <= MaxBlocks /\ nb' = nb + 2 /\ BB_' = pass /\ pc = "expr" /\ pc' = pc
      /\ frames' = frames /\ bbs' = Emit(failed, pass, "op")
  BY <1>0 DEF IndexTested
<1>2. /\ nb \in Nat /\ BB_ \in C /\ bbs \in Graph /\ fail \in Blocks /\ pass \in Blocks
      /\ C \in SUBSET (1 .. nb) /\ nb <= pass /\ pass \in 1 .. pass /\ pass \in Nat
      /\ frames \in Seq(FrameRecord) /\ FramesOK(frames, pc, nb)
  BY <1>1, GoodTypes, BoundsAssumption DEF Blocks
<1>3. failName \in Labels /\ passName \in Labels
  OBVIOUS
<1>4. tested \in Graph /\ Reaches(tested, pass, C \union {fail, pass})
  <2>1. Reaches(bbs, nb, C)
    BY DEF Good
  <2>. HIDE DEF C
  <2>. QED BY <1>1, <1>2, <1>3, <2>1, TwoWayBranch DEF TwoWay
<1>5. PendingOf(frames) \subseteq 1 .. nb
  BY <1>2, TopFrame DEF PendingOf, FrameOK
<1>6. C \union {fail, pass} = (1 .. pass) \ PendingOf(frames) /\ pass \notin PendingOf(frames)
  BY <1>2, <1>5
<1>7. FramesOK(frames, pc, pass)
  BY <1>2, SameFrames
<1>. HIDE DEF tested, fail, pass, C
<1>8. called \in Graph /\ \A a \in Blocks : Succs(called, a) = Succs(tested, a)
  BY <1>2, <1>4, EmitKeepsEdges
<1>. HIDE DEF called
<1>9. /\ failed \in Graph
      /\ \A a \in Blocks : Succs(called, a) \subseteq Succs(failed, a)
  <2>1. /\ failed \in Graph
        /\ \A a \in Blocks \ {fail} : Succs(failed, a) = Succs(called, a)
        /\ Succs(failed, fail) = Succs(called, fail) \union {pass}
    BY <1>2, <1>8, CreateBrAddsEdge
  <2>. QED BY <2>1
<1>. HIDE DEF failed
<1>10. /\ bbs' \in Graph
       /\ \A a \in Blocks : Succs(bbs', a) = Succs(failed, a)
  <2>1. bbs' = Emit(failed, pass, "op")
    BY <1>1 DEF pass
  <2>. QED BY <1>2, <1>9, <2>1, EmitKeepsEdges
<1>11. Reaches(bbs', pass, C \union {fail, pass})
  <2>1. \A a \in 1 .. pass : a \in Blocks
    BY <1>2, BoundsAssumption DEF Blocks
  <2>2. \A a \in 1 .. pass : Succs(tested, a) \subseteq Succs(bbs', a)
    BY <2>1, <1>8, <1>9, <1>10
  <2>3. pass <= pass /\ C \union {fail, pass} \in SUBSET (1 .. pass)
    BY <1>2, <1>6
  <2>. QED BY <1>2, <1>4, <2>2, <2>3, ReachesKept
<1>12. nb' = pass /\ BB_' = pass
  BY <1>1 DEF pass
<1>. QED BY <1>1, <1>2, <1>6, <1>7, <1>10, <1>11, <1>12 DEF NextGood, Good

\* The condition of a while is done: its two pending blocks become targets.
LEMMA BranchWhileGood ==
  ASSUME Good(bbs, nb, BB_, frames, pc), BranchWhile
  PROVE  NextGood
<1> DEFINE top == Last(frames)
           l == top.loopBB
           r == top.retBB
           g == Emit(bbs, BB_, "op")
           f == [Frame("whileBody") EXCEPT !.conditionBB = top.conditionBB, !.retBB = r]
           C == (1 .. nb) \ {l, r}
<1>1. /\ nb' = nb /\ BB_' = l /\ pc = "expr" /\ pc' = "stmt" /\ top.kind = "whileCond"
      /\ frames' = Append(Front(frames), f) /\ bbs' = CreateCondBr(g, BB_, l, r)
      /\ frames # <<>>
  BY DEF BranchWhile, ExprVisited, Top, Replace, Good
<1>2. PendingOf(frames) = {l, r}
  BY <1>1 DEF PendingOf
<1>3. top \in FrameRecord /\ FrameOK(top, nb)
  BY <1>1, GoodTypes, TopFrame
<1>4. /\ nb \in Nat /\ nb \in Blocks /\ BB_ \in Blocks /\ BB_ \in C /\ bbs \in Graph
      /\ l \in 1 .. nb /\ r \in 1 .. nb /\ top.conditionBB \in 1 .. nb
      /\ l \in Blocks /\ r \in Blocks /\ top.conditionBB \in Blocks
      /\ 1 .. nb \subseteq Blocks /\ nb <= nb
  BY <1>1, <1>2, <1>3, GoodTypes DEF FrameOK
<1>5. f \in FrameRecord /\ f.kind = "whileBody" /\ f.conditionBB = top.conditionBB /\ f.retBB = r
  BY <1>4 DEF Frame, FrameRecord, MaybeBB, FrameKinds
<1>6. FrameOK(f, nb) /\ f.kind # "whileCond"
  BY <1>4, <1>5 DEF FrameOK
<1>. HIDE DEF f
<1>7. /\ frames' \in Seq(FrameRecord) /\ FramesOK(frames', pc', nb)
      /\ frames' # <<>> /\ PendingOf(frames') = {}
  BY <1>1, <1>4, <1>5, <1>6, GoodTypes, ReplaceFrame
<1>. HIDE DEF l, r, C
<1>8. g \in Graph /\ \A a \in Blocks : Succs(g, a) = Succs(bbs, a)
  BY <1>4, EmitKeepsEdges
<1>. HIDE DEF g
<1>9. /\ bbs' \in Graph
      /\ \A a \in Blocks \ {BB_} : Succs(bbs', a) = Succs(g, a)
      /\ Succs(bbs', BB_) = Succs(g, BB_) \union {l, r}
  <2>1. bbs' = CreateCondBr(g, BB_, l, r)
    BY <1>1 DEF g, l, r
  <2>2. BB_ \in Blocks /\ l \in Blocks /\ r \in Blocks
    BY <1>4
  <2>. QED BY <1>8, <2>1, <2>2, CreateCondBrAddsEdges
<1>10. Reaches(bbs', nb, C)
  <2>1. Reaches(bbs, nb, C)
    BY <1>2 DEF Good, C
  <2>2. \A a \in 1 .. nb : Succs(bbs, a) \subseteq Succs(bbs', a)
    BY <1>4, <1>8, <1>9
  <2>3. C \in SUBSET (1 .. nb)
    BY DEF C
  <2>. QED BY <1>4, <2>1, <2>2, <2>3, ReachesKept
<1>11. Reaches(bbs', nb, C \union {l})
  <2>1. l \in Succs(bbs', BB_) /\ C \in SUBSET (1 .. nb)
    BY <1>9 DEF C
  <2>. QED BY <1>4, <1>10, <2>1, ReachesSuccessor
<1>12. Reaches(bbs', nb, (C \union {l}) \union {r})
  <2>1. r \in Succs(bbs', BB_) /\ C \union {l} \in SUBSET (1 .. nb) /\ BB_ \in C \union {l}
    BY <1>4, <1>9 DEF C
  <2>. QED BY <1>4, <1>11, <2>1, ReachesSuccessor
<1>13. (C \union {l}) \union {r} = (1 .. nb) \ PendingOf(frames')
  BY <1>4, <1>7 DEF C
<1>14. nb' = nb /\ BB_' = l /\ pc' = "stmt"
  BY <1>1 DEF l
<1>. QED BY <1>4, <1>7, <1>9, <1>12, <1>13, <1>14 DEF NextGood, Good

\* Steps that join: perhaps a branch to an existing block, then a new
\* insertion point among the existing blocks, in the caller's frame.
LEMMA JoinGood ==
  ASSUME Good(bbs, nb, BB_, frames, pc), frames # <<>>, Last(frames).kind # "whileCond",
         NEW x \in 1 .. nb, bbs' = bbs \/ bbs' = CreateBr(bbs, BB_, x),
         nb' = nb, BB_' \in 1 .. nb, frames' = Pop, pc' = "done"
  PROVE  NextGood
<1>1. /\ frames' \in Seq(FrameRecord) /\ FramesOK(frames', pc', nb)
      /\ PendingOf(frames') = {} /\ PendingOf(frames) = {}
  BY GoodTypes, PopFrame DEF Pop, PendingOf
<1>2. x \in Blocks /\ BB_ \in Blocks /\ bbs \in Graph /\ nb \in Blocks
  BY GoodTypes
<1>3. bbs' \in Graph /\ \A a \in Blocks : Succs(bbs, a) \subseteq Succs(bbs', a)
  <2>1. CASE bbs' = bbs
    BY <1>2, <2>1
  <2>2. CASE bbs' = CreateBr(bbs, BB_, x)
    <3>1. /\ CreateBr(bbs, BB_, x) \in Graph
          /\ \A a \in Blocks \ {BB_} : Succs(CreateBr(bbs, BB_, x), a) = Succs(bbs, a)
          /\ Succs(CreateBr(bbs, BB_, x), BB_) = Succs(bbs, BB_) \union {x}
      BY <1>2, CreateBrAddsEdge
    <3>. QED BY <2>2, <3>1
  <2>. QED BY <2>1, <2>2
<1>4. Reaches(bbs', nb, 1 .. nb)
  <2>1. Reaches(bbs, nb, 1 .. nb)
    BY <1>1 DEF Good
  <2>2. \A a \in 1 .. nb : Succs(bbs, a) \subseteq Succs(bbs', a)
    BY <1>3, GoodTypes
  <2>3. nb <= nb /\ 1 .. nb \in SUBSET (1 .. nb)
    BY GoodTypes
  <2>. QED BY <1>2, <2>1, <2>2, <2>3, ReachesKept
<1>. QED BY <1>1, <1>2, <1>3, <1>4 DEF NextGood, Good

\* The join after if.
LEMMA FinishIfGood ==
  ASSUME Good(bbs, nb, BB_, frames, pc), FinishIf
  PROVE  NextGood
<1>1. frames # <<>> /\ Last(frames).kind = "ifTrue" /\ nb' = nb /\ pc' = "done"
  BY DEF FinishIf, StmtVisited, Top
<1>2. Last(frames).retBB \in 1 .. nb
  BY <1>1, GoodTypes, TopFrame DEF FrameOK
<1>3. bbs' = bbs \/ bbs' = CreateBr(bbs, BB_, Last(frames).retBB)
  BY DEF FinishIf, Top
<1>4. BB_' \in 1 .. nb /\ frames' = Pop
  BY <1>2 DEF FinishIf, Top
<1>. QED BY <1>1, <1>2, <1>3, <1>4, JoinGood

\* The back branch of a while.
LEMMA FinishWhileGood ==
  ASSUME Good(bbs, nb, BB_, frames, pc), FinishWhile
  PROVE  NextGood
<1>1. frames # <<>> /\ Last(frames).kind = "whileBody" /\ nb' = nb /\ pc' = "done"
  BY DEF FinishWhile, StmtVisited, Top
<1>2. Last(frames).conditionBB \in 1 .. nb /\ Last(frames).retBB \in 1 .. nb
  BY <1>1, GoodTypes, TopFrame DEF FrameOK
<1>3. bbs' = bbs \/ bbs' = CreateBr(bbs, BB_, Last(frames).conditionBB)
  BY DEF FinishWhile, Top
<1>4. BB_' \in 1 .. nb /\ frames' = Pop
  BY <1>2 DEF FinishWhile, Top
<1>. QED BY <1>1, <1>2, <1>3, <1>4, JoinGood

\* From the true branch of an if-else to the false one.
LEMMA StartElseGood ==
  ASSUME Good(bbs, nb, BB_, frames, pc), StartElse
  PROVE  NextGood
<1> DEFINE f == [Frame("elseFalse") EXCEPT !.curTrueBB = BB_]
<1>1. /\ frames # <<>> /\ Last(frames).kind = "elseTrue" /\ bbs' = bbs /\ nb' = nb
      /\ BB_' = Last(frames).falseBB /\ pc' = "stmt" /\ frames' = Append(Front(frames), f)
  BY DEF StartElse, StmtVisited, Top, Replace
<1>2. Last(frames).falseBB \in 1 .. nb
  BY <1>1, GoodTypes, TopFrame DEF FrameOK
<1>3. f \in FrameRecord /\ f.kind = "elseFalse" /\ f.curTrueBB = BB_
  BY GoodTypes DEF Frame, FrameRecord, MaybeBB, FrameKinds
<1>4. FrameOK(f, nb) /\ f.kind # "whileCond"
  BY <1>3, GoodTypes DEF FrameOK
<1>. HIDE DEF f
<1>5. /\ frames' \in Seq(FrameRecord) /\ FramesOK(frames', pc', nb)
      /\ frames' # <<>> /\ PendingOf(frames') = {}
  BY <1>1, <1>3, <1>4, GoodTypes, ReplaceFrame
<1>6. PendingOf(frames) = {}
  BY <1>1 DEF PendingOf
<1>. QED BY <1>1, <1>2, <1>5, <1>6 DEF NextGood, Good

\* The join of an if-else: a new block, reached from both branches.
LEMMA FinishIfElseGood ==
  ASSUME Good(bbs, nb, BB_, frames, pc), FinishIfElse
  PROVE  NextGood
<1> DEFINE curTrue == Last(frames).curTrueBB
           ret == nb + 1
           g == Create(bbs, ret, "ret")
           h == CreateBr(g, curTrue, ret)
<1>1. /\ frames # <<>> /\ Last(frames).kind = "elseFalse" /\ pc = "done" /\ pc' = "done"
      /\ BB_' = BB_ /\ frames' = Pop
      /\ \/ bbs' = bbs /\ nb' = nb
         \/ ret <= MaxBlocks /\ nb' = ret /\ bbs' = CreateBr(h, BB_, ret)
  BY DEF FinishIfElse, StmtVisited, Top
<1>2. CASE bbs' = bbs /\ nb' = nb
  BY <1>1, <1>2, GoodTypes, JoinGood
<1>3. CASE ret <= MaxBlocks /\ nb' = ret /\ bbs' = CreateBr(h, BB_, ret)
  <2>1. /\ nb \in Nat /\ nb \in Blocks /\ ret \in Blocks /\ ret \in Nat /\ nb <= ret
        /\ BB_ \in Blocks /\ BB_ \in 1 .. nb /\ BB_ \in 1 .. ret /\ bbs \in Graph
        /\ ret \in 1 .. ret /\ 1 .. nb \in SUBSET (1 .. ret)
        /\ 1 .. ret = (1 .. nb) \union {ret}
        /\ \A a \in 1 .. nb : a \in Blocks \ {ret}
    BY <1>3, GoodTypes, BoundsAssumption DEF Blocks
  <2>2. curTrue \in 1 .. nb /\ curTrue \in Blocks
    BY <1>1, <2>1, GoodTypes, TopFrame DEF FrameOK
  <2>3. /\ frames' \in Seq(FrameRecord) /\ FramesOK(frames', pc', ret)
        /\ PendingOf(frames') = {} /\ PendingOf(frames) = {}
    BY <1>1, <2>1, GoodTypes, PopFrame DEF Pop, PendingOf
  <2>. HIDE DEF curTrue, ret
  <2>4. g \in Graph /\ \A a \in Blocks \ {ret} : Succs(g, a) = Succs(bbs, a)
    BY <2>1, CreateKeepsEdges DEF Labels, FixedLabels
  <2>. HIDE DEF g
  <2>5. /\ h \in Graph
        /\ \A a \in Blocks \ {curTrue} : Succs(h, a) = Succs(g, a)
        /\ Succs(h, curTrue) = Succs(g, curTrue) \union {ret}
    <3>1. curTrue \in Blocks /\ ret \in Blocks
      BY <2>1, <2>2
    <3>. QED BY <2>4, <3>1, CreateBrAddsEdge
  <2>. HIDE DEF h
  <2>6. /\ bbs' \in Graph
        /\ \A a \in Blocks \ {BB_} : Succs(bbs', a) = Succs(h, a)
        /\ Succs(bbs', BB_) = Succs(h, BB_) \union {ret}
    <3>1. BB_ \in Blocks /\ ret \in Blocks
      BY <2>1
    <3>2. bbs' = CreateBr(h, BB_, ret)
      BY <1>3 DEF h, g, ret, curTrue
    <3>. QED BY <2>5, <3>1, <3>2, CreateBrAddsEdge
  <2>7. Reaches(bbs', ret, 1 .. nb)
    <3>1. Reaches(bbs, nb, 1 .. nb)
      BY <2>3 DEF Good
    <3>2. \A a \in 1 .. nb : Succs(bbs, a) \subseteq Succs(bbs', a)
      BY <2>1, <2>4, <2>5, <2>6
    <3>3. 1 .. nb \in SUBSET (1 .. nb)
      OBVIOUS
    <3>. QED BY <2>1, <3>1, <3>2, <3>3, ReachesKept
  <2>8. Reaches(bbs', ret, (1 .. nb) \union {ret})
    <3>1. ret \in Succs(bbs', BB_)
      BY <2>6
    <3>. QED BY <2>1, <2>7, <3>1, ReachesSuccessor
  <2>9. nb' = ret
    BY <1>3 DEF ret
  <2>. QED BY <1>1, <2>1, <2>3, <2>6, <2>8, <2>9 DEF NextGood, Good
<1>. QED BY <1>1, <1>2, <1>3

(***************************************************************************)
(* The theorems.                                                           *)
(***************************************************************************)
\* The bound on the work is kept.
LEMMA WorkBounded ==
  ASSUME work \in 0 .. MaxWork, Next
  PROVE  work' \in 0 .. MaxWork
  BY BoundsAssumption DEF Next, Visit, VisitEmpty, VisitExpressionStmt, VisitCompoundStmt,
     VisitSelectionStmt, VisitIterationStmt, VisitReturnStmt, VisitVarIndexed,
     FinishExpressionStmt, FinishReturn, BranchIf, BranchIfElse, BranchWhile,
     NextStatement, EndCompoundStmt, FinishIf, StartElse, FinishIfElse, FinishWhile,
     FinishFunction

\* Every step preserves the inductive invariant.
LEMMA NextPreserves ==
  ASSUME IInv, [Next]_vars
  PROVE  IInv'
<1>1. CASE UNCHANGED vars
  BY <1>1 DEF vars, IInv, Good
<1>2. CASE Next
  <2>1. NextGood
    BY <1>2, PlainStepsGood, VisitIterationStmtGood, VisitVarIndexedGood,
       BranchIfGood, BranchIfElseGood, BranchWhileGood, FinishIfGood,
       StartElseGood, FinishIfElseGood, FinishWhileGood DEF Next, IInv
  <2>2. work' \in 0 .. MaxWork
    BY <1>2, WorkBounded DEF IInv
  <2>. QED BY <2>1, <2>2 DEF IInv, NextGood
<1>. QED BY <1>1, <1>2

\* The visitor's state always has its type: the insertion point is an
\* existing block and every frame holds blocks of the function.
THEOREM TypeCorrect == Spec => []TypeOK
<1>1. IInv => TypeOK
  BY IInvImplies
<1>. QED BY <1>1, InitGood, NextPreserves, PTL DEF Spec

\* Whatever the program, every block created is reachable from the entry
\* along the recorded edges (but for a while under its condition): what
\* Dominators takes for granted of the graphs the builder gives it.
THEOREM BlocksReachable == Spec => []AllReachable
<1>1. IInv => AllReachable
  BY IInvImplies
<1>. QED BY <1>1, InitGood, NextPreserves, PTL DEF Spec

(***************************************************************************)
(* The graph: what is true of the lists of a function of n blocks.         *)
(***************************************************************************)
Lists(g, n) ==
  /\ \A a, b \in Blocks : a \in Range(g[b].pre) <=> b \in Range(g[a].succ)
  /\ \A b \in Blocks : IsInjective(g[b].pre) /\ IsInjective(g[b].succ)
  /\ \A b \in Blocks : b > n => g[b].pre = <<>> /\ g[b].succ = <<>>
  /\ \A b \in Blocks : g[b].label = "condition" => Len(g[b].pre) <= 2
  /\ g[Entry].pre = <<>>

(***************************************************************************)
(* The call stack.  Holds(f) are the blocks made by f's method that it     *)
(* will branch to or move the insertion point to.  Safe(g, f, y): the      *)
(* insertion point may come to y while f is on the stack.                  *)
(***************************************************************************)
Holds(f) ==
  CASE f.kind = "ifTrue" -> {f.retBB}
    [] f.kind = "elseTrue" -> {f.falseBB}
    [] f.kind = "whileCond" -> {f.conditionBB, f.loopBB, f.retBB}
    [] f.kind = "whileBody" -> {f.conditionBB, f.retBB}
    [] OTHER -> {}

Safe(g, f, y) ==
  /\ f.kind = "ifTrue" => y \notin Range(g[f.retBB].pre)
  /\ f.kind \in {"whileCond", "whileBody"} => y \notin Range(g[f.conditionBB].pre)
  /\ f.kind = "elseTrue" => y # f.falseBB
  /\ f.kind = "elseFalse" => y # f.curTrueBB

Own(g, f) ==
  /\ f.kind = "ifTrue" => g[f.retBB].label # "condition" /\ f.retBB # Entry
  /\ f.kind \in {"whileCond", "whileBody"} =>
       f.conditionBB # Entry /\ Len(g[f.conditionBB].pre) <= 1
  /\ f.kind = "whileCond" =>
       /\ f.loopBB # f.retBB /\ f.conditionBB \notin {f.loopBB, f.retBB}
       /\ f.loopBB \notin Range(g[f.conditionBB].pre)
       /\ \A x \in {f.loopBB, f.retBB} :
            g[x].pre = <<>> /\ g[x].label # "condition" /\ x # Entry

\* The blocks Y are none that a frame holds, and safe for each.
Apart(g, fs, Y) ==
  \A i \in 1 .. Len(fs) : \A y \in Y : Safe(g, fs[i], y) /\ y \notin Holds(fs[i])

StackOK(g, fs, b) ==
  /\ \A i \in 1 .. Len(fs) : Own(g, fs[i]) /\ Safe(g, fs[i], b)
  /\ \A i, j \in 1 .. Len(fs) : i < j =>
       \A y \in Holds(fs[j]) : Safe(g, fs[i], y) /\ y \notin Holds(fs[i])

\* The inductive invariant.
EdgesInv == IInv /\ Lists(bbs, nb) /\ StackOK(bbs, frames, BB_)

(***************************************************************************)
(* Lists.                                                                  *)
(***************************************************************************)
\* A list with one more element: still without repetitions if that is new.
LEMMA AppendList ==
  ASSUME NEW s \in Seq(Blocks), NEW x \in Blocks
  PROVE  /\ Append(s, x) \in Seq(Blocks)
         /\ Len(Append(s, x)) = Len(s) + 1
         /\ Range(Append(s, x)) = Range(s) \union {x}
         /\ IsInjective(s) /\ x \notin Range(s) => IsInjective(Append(s, x))
<1> DEFINE t == Append(s, x)
<1>1. /\ t \in Seq(Blocks) /\ Len(s) \in Nat /\ Len(t) = Len(s) + 1
      /\ \A i \in 1 .. Len(s) : t[i] = s[i]
      /\ t[Len(t)] = x
      /\ DOMAIN t = 1 .. Len(t) /\ DOMAIN s = 1 .. Len(s)
  OBVIOUS
<1>. HIDE DEF t
<1>2. Range(s) = {s[i] : i \in 1 .. Len(s)} /\ Range(t) = {t[i] : i \in 1 .. Len(t)}
  BY <1>1 DEF Range
<1>3. \A i \in 1 .. Len(t) : i \in 1 .. Len(s) \/ i = Len(t)
  BY <1>1
<1>4. Range(t) = Range(s) \union {x}
  BY <1>1, <1>2, <1>3
<1>5. ASSUME IsInjective(s), x \notin Range(s)
      PROVE  IsInjective(t)
  <2> SUFFICES ASSUME NEW i \in 1 .. Len(t), NEW j \in 1 .. Len(t), t[i] = t[j]
               PROVE  i = j
    BY <1>1 DEF IsInjective
  <2>1. CASE i \in 1 .. Len(s) /\ j \in 1 .. Len(s)
    BY <1>1, <1>5, <2>1 DEF IsInjective
  <2>2. CASE i = Len(t) /\ j \in 1 .. Len(s)
    BY <1>1, <1>2, <1>5, <2>2
  <2>3. CASE i \in 1 .. Len(s) /\ j = Len(t)
    BY <1>1, <1>2, <1>5, <2>3
  <2>. QED BY <1>3, <2>1, <2>2, <2>3
<1>. QED BY <1>1, <1>4, <1>5 DEF t

\* The empty list.
LEMMA EmptyList ==
  <<>> \in Seq(Blocks) /\ Range(<<>>) = {} /\ IsInjective(<<>>) /\ Len(<<>>) = 0
  BY DEF Range, IsInjective

\* The lists and the label of a block of a graph.
LEMMA BlockTypes ==
  ASSUME NEW g \in Graph, NEW b \in Blocks
  PROVE  g[b].pre \in Seq(Blocks) /\ g[b].succ \in Seq(Blocks) /\ g[b].label \in Labels
  BY DEF Graph, BlockRecord

(***************************************************************************)
(* Steps on a graph.                                                       *)
(***************************************************************************)
\* g and h differ in instructions only.
SameLists(g, h) ==
  \A x \in Blocks : h[x].pre = g[x].pre /\ h[x].succ = g[x].succ /\ h[x].label = g[x].label

\* h is g with one more edge.
Linked(g, h, a, b) ==
  \A x \in Blocks :
    /\ h[x].label = g[x].label
    /\ h[x].pre = IF x = b THEN Append(g[x].pre, a) ELSE g[x].pre
    /\ h[x].succ = IF x = a THEN Append(g[x].succ, b) ELSE g[x].succ

\* h is g with block b created.
Added(g, h, b, name) ==
  /\ \A x \in Blocks \ {b} :
       h[x].pre = g[x].pre /\ h[x].succ = g[x].succ /\ h[x].label = g[x].label
  /\ h[b].pre = <<>> /\ h[b].succ = <<>> /\ h[b].label = name

\* An instruction that is not a branch.
LEMMA EmitLists ==
  ASSUME NEW g \in Graph, NEW b \in Blocks, NEW i \in {"op", "br", "ret"}
  PROVE  Emit(g, b, i) \in Graph /\ SameLists(g, Emit(g, b, i))
<1> DEFINE code == AddInstruction(g[b].code, i)
           r == [g[b] EXCEPT !.code = code]
<1>1. g[b] \in BlockRecord /\ Emit(g, b, i) = [g EXCEPT ![b] = r]
  BY DEF Graph, Emit
<1>2. r.pre = g[b].pre /\ r.succ = g[b].succ /\ r.label = g[b].label
  BY <1>1 DEF BlockRecord
<1>. HIDE DEF r
<1>. QED BY <1>1, <1>2, EmitKeepsEdges DEF SameLists, Graph

\* Zero or more instructions that do not end the block.
LEMMA MaybeOpLists ==
  ASSUME NEW g \in Graph, NEW b \in Blocks, NEW h \in MaybeOp(g, b)
  PROVE  h \in Graph /\ SameLists(g, h)
<1>1. h = g \/ h = Emit(g, b, "op")
  BY DEF MaybeOp
<1>2. SameLists(g, g)
  BY DEF SameLists
<1>. QED BY <1>1, <1>2, EmitLists

\* A new block.
LEMMA CreateLists ==
  ASSUME NEW g \in Graph, NEW b \in Blocks, NEW name \in Labels
  PROVE  Create(g, b, name) \in Graph /\ Added(g, Create(g, b, name), b, name)
<1> DEFINE r == [NoBlock EXCEPT !.label = name]
<1>1. r = [label |-> name, code |-> <<>>, pre |-> <<>>, succ |-> <<>>]
  BY DEF NoBlock
<1>2. r.pre = <<>> /\ r.succ = <<>> /\ r.label = name /\ Create(g, b, name) = [g EXCEPT ![b] = r]
  BY <1>1 DEF Create
<1>. HIDE DEF r
<1>. QED BY <1>2, CreateKeepsEdges DEF Added, Graph

\* The two halves of an edge, recorded one after the other.
LEMMA EdgeLists ==
  ASSUME NEW g \in Graph, NEW a \in Blocks, NEW b \in Blocks
  PROVE  /\ AddPre(g, a, b) \in Graph
         /\ \A x \in Blocks :
              /\ AddPre(g, a, b)[x].label = g[x].label
              /\ AddPre(g, a, b)[x].succ = g[x].succ
              /\ AddPre(g, a, b)[x].pre = IF x = b THEN Append(g[x].pre, a) ELSE g[x].pre
         /\ AddEdge(g, a, b) \in Graph
         /\ \A x \in Blocks :
              /\ AddEdge(g, a, b)[x].label = g[x].label
              /\ AddEdge(g, a, b)[x].pre = g[x].pre
              /\ AddEdge(g, a, b)[x].succ = IF x = a THEN Append(g[x].succ, b) ELSE g[x].succ
<1> DEFINE p == [g[b] EXCEPT !.pre = Append(g[b].pre, a)]
           s == [g[a] EXCEPT !.succ = Append(g[a].succ, b)]
<1>1. g[a] \in BlockRecord /\ g[b] \in BlockRecord
  BY DEF Graph
<1>2. /\ p.label = g[b].label /\ p.succ = g[b].succ /\ p.pre = Append(g[b].pre, a)
      /\ s.label = g[a].label /\ s.pre = g[a].pre /\ s.succ = Append(g[a].succ, b)
  BY <1>1 DEF BlockRecord
<1>3. AddPre(g, a, b) = [g EXCEPT ![b] = p] /\ AddEdge(g, a, b) = [g EXCEPT ![a] = s]
  BY DEF AddPre, AddEdge
<1>. HIDE DEF p, s
<1>4. AddPre(g, a, b) \in Graph /\ AddEdge(g, a, b) \in Graph
  BY AddPreKeepsEdges, AddEdgeAddsEdge
<1>. QED BY <1>2, <1>3, <1>4 DEF Graph

\* An unconditional branch.
LEMMA CreateBrLinks ==
  ASSUME NEW g \in Graph, NEW b \in Blocks, NEW t \in Blocks
  PROVE  CreateBr(g, b, t) \in Graph /\ Linked(g, CreateBr(g, b, t), b, t)
<1> DEFINE p == AddPre(g, b, t)
           e == AddEdge(p, b, t)
<1>1. /\ p \in Graph
      /\ \A x \in Blocks : /\ p[x].label = g[x].label /\ p[x].succ = g[x].succ
                           /\ p[x].pre = IF x = t THEN Append(g[x].pre, b) ELSE g[x].pre
  BY EdgeLists
<1>. HIDE DEF p
<1>2. /\ e \in Graph
      /\ \A x \in Blocks : /\ e[x].label = p[x].label /\ e[x].pre = p[x].pre
                           /\ e[x].succ = IF x = b THEN Append(p[x].succ, t) ELSE p[x].succ
  BY <1>1, EdgeLists
<1>3. CreateBr(g, b, t) = Emit(e, b, "br")
  BY DEF CreateBr, p
<1>. HIDE DEF e
<1>4. CreateBr(g, b, t) \in Graph /\ SameLists(e, CreateBr(g, b, t))
  BY <1>2, <1>3, EmitLists
<1>. QED BY <1>1, <1>2, <1>4 DEF Linked, SameLists

\* A conditional branch is an edge to the false block and one to the true block.
LEMMA CreateCondBrLinks ==
  ASSUME NEW g \in Graph, NEW b \in Blocks, NEW t \in Blocks, NEW f \in Blocks, t # f
  PROVE  /\ CreateCondBr(g, b, t, f) \in Graph
         /\ \E e \in Graph : Linked(g, e, b, f) /\ Linked(e, CreateCondBr(g, b, t, f), b, t)
<1> DEFINE p1 == AddPre(g, b, t)
           p2 == AddPre(p1, b, f)
           e1 == AddEdge(p2, b, f)
           e2 == AddEdge(e1, b, t)
           h == CreateCondBr(g, b, t, f)
           q == AddPre(g, b, f)
           e == AddEdge(q, b, f)
<1>0. h = Emit(e2, b, "br")
  BY DEF CreateCondBr
<1>1. /\ p1 \in Graph
      /\ \A x \in Blocks : /\ p1[x].label = g[x].label /\ p1[x].succ = g[x].succ
                           /\ p1[x].pre = IF x = t THEN Append(g[x].pre, b) ELSE g[x].pre
  BY EdgeLists
<1>. HIDE DEF p1
<1>2. /\ p2 \in Graph
      /\ \A x \in Blocks : /\ p2[x].label = p1[x].label /\ p2[x].succ = p1[x].succ
                           /\ p2[x].pre = IF x = f THEN Append(p1[x].pre, b) ELSE p1[x].pre
  BY <1>1, EdgeLists
<1>. HIDE DEF p2
<1>3. /\ e1 \in Graph
      /\ \A x \in Blocks : /\ e1[x].label = p2[x].label /\ e1[x].pre = p2[x].pre
                           /\ e1[x].succ = IF x = b THEN Append(p2[x].succ, f) ELSE p2[x].succ
  BY <1>2, EdgeLists
<1>. HIDE DEF e1
<1>4. /\ e2 \in Graph
      /\ \A x \in Blocks : /\ e2[x].label = e1[x].label /\ e2[x].pre = e1[x].pre
                           /\ e2[x].succ = IF x = b THEN Append(e1[x].succ, t) ELSE e1[x].succ
  BY <1>3, EdgeLists
<1>. HIDE DEF e2
<1>5. h \in Graph /\ SameLists(e2, h)
  BY <1>0, <1>4, EmitLists
<1>6. /\ q \in Graph
      /\ \A x \in Blocks : /\ q[x].label = g[x].label /\ q[x].succ = g[x].succ
                           /\ q[x].pre = IF x = f THEN Append(g[x].pre, b) ELSE g[x].pre
  BY EdgeLists
<1>. HIDE DEF q, h
<1>7. /\ e \in Graph
      /\ \A x \in Blocks : /\ e[x].label = q[x].label /\ e[x].pre = q[x].pre
                           /\ e[x].succ = IF x = b THEN Append(q[x].succ, f) ELSE q[x].succ
  BY <1>6, EdgeLists
<1>. HIDE DEF e
<1>8. Linked(g, e, b, f)
  BY <1>6, <1>7 DEF Linked
<1>9. Linked(e, h, b, t)
  <2> SUFFICES ASSUME NEW x \in Blocks
               PROVE  /\ h[x].label = e[x].label
                      /\ h[x].pre = IF x = t THEN Append(e[x].pre, b) ELSE e[x].pre
                      /\ h[x].succ = IF x = b THEN Append(e[x].succ, t) ELSE e[x].succ
    BY DEF Linked
  <2>1. h[x].label = e[x].label
    BY <1>1, <1>2, <1>3, <1>4, <1>5, <1>6, <1>7 DEF SameLists
  <2>2. h[x].pre = IF x = t THEN Append(e[x].pre, b) ELSE e[x].pre
    BY <1>1, <1>2, <1>3, <1>4, <1>5, <1>6, <1>7 DEF SameLists
  <2>3. h[x].succ = IF x = b THEN Append(e[x].succ, t) ELSE e[x].succ
    BY <1>1, <1>2, <1>3, <1>4, <1>5, <1>6, <1>7 DEF SameLists
  <2>. QED BY <2>1, <2>2, <2>3
<1>. QED BY <1>5, <1>7, <1>8, <1>9 DEF h

(***************************************************************************)
(* Such steps keep Lists.                                                  *)
(***************************************************************************)
\* A predecessor is a block that exists.
LEMMA PredsCreated ==
  ASSUME NEW g \in Graph, NEW n \in Nat, Lists(g, n), NEW b \in Blocks, NEW a \in Range(g[b].pre)
  PROVE  a \in 1 .. n /\ a \in Blocks
<1>1. a \in Blocks
  BY BlockTypes DEF Range
<1>2. b \in Range(g[a].succ)
  BY <1>1 DEF Lists
<1>3. g[a].succ # <<>>
  BY <1>2, EmptyList
<1>. QED BY <1>1, <1>3, BoundsAssumption DEF Lists, Blocks

LEMMA SameKeepsLists ==
  ASSUME NEW g, NEW h, NEW n, Lists(g, n), SameLists(g, h), Entry \in Blocks
  PROVE  Lists(h, n)
  BY DEF Lists, SameLists

LEMMA AddKeepsLists ==
  ASSUME NEW g, NEW h, NEW n \in Nat, NEW name, Lists(g, n), n + 1 \in Blocks,
         Added(g, h, n + 1, name), Entry \in Blocks
  PROVE  Lists(h, n + 1)
<1>1. g[n + 1].pre = <<>> /\ g[n + 1].succ = <<>>
  BY DEF Lists
<1>2. \A x \in Blocks : h[x].pre = g[x].pre /\ h[x].succ = g[x].succ
  BY <1>1 DEF Added
<1>3. \A x \in Blocks : h[x].label = "condition" => Len(h[x].pre) <= 2
  <2> SUFFICES ASSUME NEW x \in Blocks, h[x].label = "condition" PROVE Len(h[x].pre) <= 2
    OBVIOUS
  <2>1. CASE x = n + 1
    BY <1>1, <1>2, <2>1, EmptyList
  <2>2. CASE x # n + 1
    BY <2>2 DEF Added, Lists
  <2>. QED BY <2>1, <2>2
<1>4. \A b \in Blocks : b > n + 1 => b > n
  BY BoundsAssumption DEF Blocks
<1>. QED BY <1>2, <1>3, <1>4 DEF Lists

LEMMA LinkKeepsLists ==
  ASSUME NEW g \in Graph, NEW h, NEW n \in Nat, NEW a \in Blocks, NEW b \in Blocks,
         a <= n, b <= n, Lists(g, n), Linked(g, h, a, b), a \notin Range(g[b].pre),
         b # Entry, g[b].label = "condition" => Len(g[b].pre) <= 1, Entry \in Blocks
  PROVE  Lists(h, n)
<1>1. \A x \in Blocks : g[x].pre \in Seq(Blocks) /\ g[x].succ \in Seq(Blocks)
  BY BlockTypes
<1>2. b \notin Range(g[a].succ)
  BY DEF Lists
<1>3. /\ Range(h[b].pre) = Range(g[b].pre) \union {a} /\ IsInjective(h[b].pre)
      /\ Len(h[b].pre) = Len(g[b].pre) + 1
  <2>1. h[b].pre = Append(g[b].pre, a) /\ IsInjective(g[b].pre)
    BY DEF Linked, Lists
  <2>. QED BY <1>1, <2>1, AppendList
<1>4. Range(h[a].succ) = Range(g[a].succ) \union {b} /\ IsInjective(h[a].succ)
  <2>1. h[a].succ = Append(g[a].succ, b) /\ IsInjective(g[a].succ)
    BY DEF Linked, Lists
  <2>. QED BY <1>1, <1>2, <2>1, AppendList
<1>5. /\ \A x \in Blocks \ {b} : h[x].pre = g[x].pre
      /\ \A x \in Blocks \ {a} : h[x].succ = g[x].succ
      /\ \A x \in Blocks : h[x].label = g[x].label
  BY DEF Linked
<1>6. \A x, y \in Blocks : x \in Range(h[y].pre) <=> y \in Range(h[x].succ)
  <2> SUFFICES ASSUME NEW x \in Blocks, NEW y \in Blocks
               PROVE  x \in Range(h[y].pre) <=> y \in Range(h[x].succ)
    OBVIOUS
  <2>1. x \in Range(h[y].pre) <=> x \in Range(g[y].pre) \/ (x = a /\ y = b)
    BY <1>3, <1>5
  <2>2. y \in Range(h[x].succ) <=> y \in Range(g[x].succ) \/ (x = a /\ y = b)
    BY <1>4, <1>5
  <2>3. x \in Range(g[y].pre) <=> y \in Range(g[x].succ)
    BY DEF Lists
  <2>. QED BY <2>1, <2>2, <2>3
<1>7. \A x \in Blocks : IsInjective(h[x].pre) /\ IsInjective(h[x].succ)
  BY <1>3, <1>4, <1>5 DEF Lists
<1>8. \A x \in Blocks : x > n => h[x].pre = <<>> /\ h[x].succ = <<>>
  <2>1. \A x \in Blocks : x > n => x # a /\ x # b
    BY BoundsAssumption DEF Blocks
  <2>. QED BY <1>5, <2>1 DEF Lists
<1>9. \A x \in Blocks : h[x].label = "condition" => Len(h[x].pre) <= 2
  <2> SUFFICES ASSUME NEW x \in Blocks, h[x].label = "condition" PROVE Len(h[x].pre) <= 2
    OBVIOUS
  <2>1. CASE x = b
    <3>1. Len(g[b].pre) \in Nat /\ Len(g[b].pre) <= 1
      BY <1>1, <1>5, <2>1
    <3>. QED BY <1>3, <2>1, <3>1
  <2>2. CASE x # b
    BY <1>5, <2>2 DEF Lists
  <2>. QED BY <2>1, <2>2
<1>10. h[Entry].pre = <<>>
  BY <1>5 DEF Lists
<1>. QED BY <1>6, <1>7, <1>8, <1>9, <1>10 DEF Lists

(***************************************************************************)
(* Steps on the call stack.                                                *)
(***************************************************************************)
\* All but the innermost frame, as a sequence.
LEMMA FrontOf ==
  ASSUME NEW fs \in Seq(FrameRecord), fs # <<>>
  PROVE  /\ Front(fs) \in Seq(FrameRecord)
         /\ Len(fs) \in Nat \ {0} /\ Len(Front(fs)) = Len(fs) - 1
         /\ \A i \in 1 .. Len(Front(fs)) : Front(fs)[i] = fs[i] /\ i \in 1 .. Len(fs) /\ i < Len(fs)
         /\ Last(fs) = fs[Len(fs)] /\ Last(fs) \in FrameRecord
<1>1. /\ Len(fs) \in Nat \ {0} /\ Len(fs) - 1 \in 0 .. Len(fs)
      /\ \A i \in 1 .. Len(fs) : fs[i] \in FrameRecord
  OBVIOUS
<1>2. Front(fs) = SubSeq(fs, 1, Len(fs) - 1)
  BY DEF Front
<1>3. \A i \in 1 .. Len(fs) - 1 : i \in 1 .. Len(fs) /\ i < Len(fs)
  BY <1>1
<1>4. Front(fs) = [i \in 1 .. Len(fs) - 1 |-> fs[i]]
  BY <1>1, <1>2
<1>5. Front(fs) \in Seq(FrameRecord) /\ Len(Front(fs)) = Len(fs) - 1
  BY <1>1, <1>3, <1>4
<1>6. Last(fs) = fs[Len(fs)] /\ Len(fs) \in 1 .. Len(fs)
  BY <1>1 DEF Last
<1>. QED BY <1>1, <1>3, <1>4, <1>5, <1>6

\* What the innermost frame holds is apart from the frames below it.
LEMMA Rest ==
  ASSUME NEW g, NEW fs \in Seq(FrameRecord), fs # <<>>, NEW b, StackOK(g, fs, b)
  PROVE  /\ StackOK(g, Front(fs), b)
         /\ Apart(g, Front(fs), Holds(Last(fs)))
         /\ Own(g, Last(fs)) /\ Safe(g, Last(fs), b)
<1> DEFINE t == Front(fs)
<1>1. /\ Len(fs) \in Nat \ {0} /\ Len(t) = Len(fs) - 1 /\ Len(fs) \in 1 .. Len(fs)
      /\ \A i \in 1 .. Len(t) : t[i] = fs[i] /\ i \in 1 .. Len(fs) /\ i < Len(fs)
      /\ Last(fs) = fs[Len(fs)]
  BY FrontOf
<1>. HIDE DEF t
<1>2. StackOK(g, t, b)
  BY <1>1 DEF StackOK
<1>3. Apart(g, t, Holds(Last(fs)))
  BY <1>1 DEF StackOK, Apart
<1>4. Own(g, Last(fs)) /\ Safe(g, Last(fs), b)
  BY <1>1 DEF StackOK
<1>. QED BY <1>2, <1>3, <1>4 DEF t

\* The insertion point moves.
LEMMA Move ==
  ASSUME NEW g, NEW fs, NEW b, NEW c, NEW Y, StackOK(g, fs, b), Apart(g, fs, Y), c \in Y
  PROVE  StackOK(g, fs, c)
  BY DEF StackOK, Apart

\* A frame on top.
LEMMA Onto ==
  ASSUME NEW g, NEW fs \in Seq(FrameRecord), NEW f \in FrameRecord, NEW b, StackOK(g, fs, b),
         Own(g, f), Safe(g, f, b), Apart(g, fs, Holds(f))
  PROVE  StackOK(g, Append(fs, f), b)
<1> DEFINE t == Append(fs, f)
<1>1. /\ Len(fs) \in Nat /\ Len(t) = Len(fs) + 1 /\ t[Len(t)] = f
      /\ \A i \in 1 .. Len(fs) : t[i] = fs[i]
      /\ \A i \in 1 .. Len(t) : i \in 1 .. Len(fs) \/ i = Len(t)
  OBVIOUS
<1>. HIDE DEF t
<1>2. \A i \in 1 .. Len(t) : Own(g, t[i]) /\ Safe(g, t[i], b)
  BY <1>1 DEF StackOK
<1>3. ASSUME NEW i \in 1 .. Len(t), NEW j \in 1 .. Len(t), i < j, NEW y \in Holds(t[j])
      PROVE  Safe(g, t[i], y) /\ y \notin Holds(t[i])
  <2>1. i \in 1 .. Len(fs) /\ t[i] = fs[i]
    BY <1>1, <1>3
  <2>2. CASE j = Len(t)
    BY <1>1, <1>3, <2>1, <2>2 DEF Apart
  <2>3. CASE j \in 1 .. Len(fs)
    BY <1>1, <1>3, <2>1, <2>3 DEF StackOK
  <2>. QED BY <1>1, <2>2, <2>3
<1>. QED BY <1>2, <1>3 DEF StackOK, t

\* A frame that holds nothing.
LEMMA Plain ==
  ASSUME NEW g, NEW fs \in Seq(FrameRecord), NEW f \in FrameRecord, NEW b, StackOK(g, fs, b),
         f.kind \notin {"ifTrue", "elseTrue", "elseFalse", "whileCond", "whileBody"}
  PROVE  StackOK(g, Append(fs, f), b)
<1>1. Holds(f) = {} /\ Own(g, f) /\ Safe(g, f, b)
  BY DEF Holds, Own, Safe
<1>2. Apart(g, fs, Holds(f))
  BY <1>1 DEF Apart
<1>. QED BY <1>1, <1>2, Onto

\* The graph changes, but not the predecessors of what the frames hold.
LEMMA Quiet ==
  ASSUME NEW g, NEW h, NEW fs \in Seq(FrameRecord), NEW b, NEW Y,
         \A i \in 1 .. Len(fs) : \A x \in Holds(fs[i]) :
            h[x].pre = g[x].pre /\ h[x].label = g[x].label
  PROVE  /\ StackOK(g, fs, b) => StackOK(h, fs, b)
         /\ Apart(g, fs, Y) => Apart(h, fs, Y)
<1>1. ASSUME NEW i \in 1 .. Len(fs)
      PROVE  /\ Own(g, fs[i]) => Own(h, fs[i])
             /\ \A y : Safe(g, fs[i], y) => Safe(h, fs[i], y)
  <2> DEFINE f == fs[i]
  <2>1. f.kind = "ifTrue" => f.retBB \in Holds(f)
    BY DEF Holds
  <2>2. f.kind \in {"whileCond", "whileBody"} => f.conditionBB \in Holds(f)
    BY DEF Holds
  <2>3. f.kind = "whileCond" => f.loopBB \in Holds(f) /\ f.retBB \in Holds(f)
    BY DEF Holds
  <2>4. \A x \in Holds(f) : h[x].pre = g[x].pre /\ h[x].label = g[x].label
    BY <1>1
  <2>. HIDE DEF f
  <2>5. \A y : Safe(g, f, y) => Safe(h, f, y)
    BY <2>1, <2>2, <2>4 DEF Safe
  <2>6. Own(g, f) => Own(h, f)
    BY <2>1, <2>2, <2>3, <2>4 DEF Own
  <2>. QED BY <2>5, <2>6 DEF f
<1>2. Apart(g, fs, Y) => Apart(h, fs, Y)
  BY <1>1 DEF Apart
<1>3. StackOK(g, fs, b) => StackOK(h, fs, b)
  BY <1>1 DEF StackOK
<1>. QED BY <1>2, <1>3

\* The frames hold existing blocks.
LEMMA HoldsCreated ==
  ASSUME NEW n, NEW fs, NEW p, FramesOK(fs, p, n), NEW i \in 1 .. Len(fs)
  PROVE  Holds(fs[i]) \subseteq 1 .. n
<1> DEFINE f == fs[i]
<1>1. FrameOK(f, n)
  BY DEF FramesOK
<1>. HIDE DEF f
<1>2. Holds(f) \subseteq 1 .. n
  BY <1>1 DEF FrameOK, Holds
<1>. QED BY <1>2 DEF f

\* A block that does not exist yet is apart from the frames.
LEMMA Fresh ==
  ASSUME NEW g \in Graph, NEW n \in Nat, 1 .. n \subseteq Blocks, Lists(g, n),
         NEW fs, NEW p, FramesOK(fs, p, n), NEW Y, \A y \in Y : y \notin 1 .. n
  PROVE  Apart(g, fs, Y)
<1> SUFFICES ASSUME NEW i \in 1 .. Len(fs), NEW y \in Y
             PROVE  Safe(g, fs[i], y) /\ y \notin Holds(fs[i])
  BY DEF Apart
<1> DEFINE f == fs[i]
<1>1. FrameOK(f, n)
  BY DEF FramesOK
<1>2. Holds(f) \subseteq 1 .. n
  BY HoldsCreated
<1>. HIDE DEF f
<1>3. \A x \in 1 .. n : Range(g[x].pre) \subseteq 1 .. n
  BY PredsCreated
<1>4. Safe(g, f, y)
  BY <1>1, <1>3 DEF FrameOK, Safe
<1>. QED BY <1>2, <1>4 DEF f

(***************************************************************************)
(* Each action preserves Lists and StackOK.                                *)
(***************************************************************************)
Edged == Lists(bbs, nb) /\ StackOK(bbs, frames, BB_)
NextEdged == Lists(bbs', nb') /\ StackOK(bbs', frames', BB_')

\* What the action lemmas use of Good.
LEMMA EdgeTypes ==
  ASSUME Good(bbs, nb, BB_, frames, pc)
  PROVE  /\ nb \in Nat /\ 1 .. nb \subseteq Blocks /\ nb \in Blocks
         /\ \A x \in 1 .. nb : x <= nb /\ x \in Blocks
         /\ BB_ \in Blocks /\ BB_ \in 1 .. nb
         /\ bbs \in Graph /\ frames \in Seq(FrameRecord) /\ FramesOK(frames, pc, nb)
         /\ Entry \in Blocks /\ Entry = 1
<1>1. Entry \in Blocks /\ Entry = 1
  BY BoundsAssumption DEF Entry, Blocks
<1>. QED BY <1>1, GoodTypes

\* The frames are left alone, popped, or get one that holds nothing.
LEMMA PlainFrames ==
  ASSUME Good(bbs, nb, BB_, frames, pc), Edged, nb' = nb, BB_' = BB_, bbs' \in Graph,
         SameLists(bbs, bbs'),
         \/ frames' = frames
         \/ frames # <<>> /\ frames' = Front(frames)
         \/ \E kind \in {"list", "exprStmt", "ifCond", "ifElseCond", "return"} :
              frames' = Append(frames, Frame(kind))
  PROVE  NextEdged
<1>1. frames \in Seq(FrameRecord) /\ Entry \in Blocks
  BY EdgeTypes
<1>2. Lists(bbs', nb')
  BY <1>1, SameKeepsLists DEF Edged
<1>3. StackOK(bbs', frames, BB_)
  <2>1. \A i \in 1 .. Len(frames) : Holds(frames[i]) \subseteq Blocks
    BY EdgeTypes, HoldsCreated
  <2>2. \A i \in 1 .. Len(frames) : \A x \in Holds(frames[i]) :
          bbs'[x].pre = bbs[x].pre /\ bbs'[x].label = bbs[x].label
    BY <2>1 DEF SameLists
  <2>. QED BY <1>1, <2>2, Quiet DEF Edged
<1>4. StackOK(bbs', frames', BB_)
  <2>1. CASE frames # <<>> /\ frames' = Front(frames)
    BY <1>1, <1>3, <2>1, Rest
  <2>2. CASE \E kind \in {"list", "exprStmt", "ifCond", "ifElseCond", "return"} :
               frames' = Append(frames, Frame(kind))
    <3>1. PICK kind \in {"list", "exprStmt", "ifCond", "ifElseCond", "return"} :
            frames' = Append(frames, Frame(kind))
      BY <2>2
    <3>2. Frame(kind) \in FrameRecord /\ Frame(kind).kind = kind
      BY DEF Frame, FrameRecord, FrameKinds, MaybeBB
    <3>. QED BY <1>1, <1>3, <3>1, <3>2, Plain
  <2>. QED BY <1>3, <2>1, <2>2
<1>. QED BY <1>2, <1>4 DEF NextEdged

\* Steps that make no block and no edge.
LEMMA PlainSteps ==
  ASSUME Good(bbs, nb, BB_, frames, pc),
         \/ VisitEmpty \/ VisitExpressionStmt \/ VisitCompoundStmt
         \/ VisitSelectionStmt \/ VisitReturnStmt
         \/ FinishExpressionStmt \/ FinishReturn
         \/ NextStatement \/ EndCompoundStmt \/ FinishFunction
  PROVE  /\ nb' = nb /\ BB_' = BB_ /\ bbs' \in Graph /\ SameLists(bbs, bbs')
         /\ \/ frames' = frames
            \/ frames # <<>> /\ frames' = Front(frames)
            \/ \E kind \in {"list", "exprStmt", "ifCond", "ifElseCond", "return"} :
                 frames' = Append(frames, Frame(kind))
<1>1. bbs \in Graph /\ BB_ \in Blocks /\ (pc = "expr" => frames # <<>>)
  BY EdgeTypes DEF Good
<1>2. \A g \in MaybeOp(bbs, BB_) : g \in Graph /\ SameLists(bbs, g)
  BY <1>1, MaybeOpLists
<1>3. \A g \in Graph : Emit(g, BB_, "ret") \in Graph /\ SameLists(g, Emit(g, BB_, "ret"))
  BY <1>1, EmitLists
<1>4. SameLists(bbs, bbs)
  BY DEF SameLists
<1>5. CASE VisitEmpty
  BY <1>1, <1>4, <1>5 DEF VisitEmpty
<1>6. CASE VisitExpressionStmt
  BY <1>1, <1>4, <1>6 DEF VisitExpressionStmt, Push
<1>7. CASE VisitCompoundStmt
  BY <1>2, <1>7 DEF VisitCompoundStmt, Push
<1>8. CASE VisitSelectionStmt
  BY <1>1, <1>4, <1>8 DEF VisitSelectionStmt, Push
<1>9. CASE VisitReturnStmt
  <2>1. CASE bbs' = Emit(bbs, BB_, "ret") /\ UNCHANGED frames
    BY <1>1, <1>3, <1>9, <2>1 DEF VisitReturnStmt
  <2>2. CASE frames' = Push(Frame("return")) /\ UNCHANGED bbs
    BY <1>1, <1>4, <1>9, <2>2 DEF VisitReturnStmt, Push
  <2>. QED BY <1>9, <2>1, <2>2 DEF VisitReturnStmt
<1>10. CASE FinishExpressionStmt
  BY <1>1, <1>2, <1>10 DEF FinishExpressionStmt, ExprVisited, Pop
<1>11. CASE FinishReturn
  <2>1. PICK g \in MaybeOp(bbs, BB_) : bbs' = Emit(g, BB_, "ret")
    BY <1>11 DEF FinishReturn
  <2>2. bbs' \in Graph /\ SameLists(bbs, bbs')
    BY <1>2, <1>3, <2>1 DEF SameLists
  <2>. QED BY <1>1, <1>11, <2>2 DEF FinishReturn, ExprVisited, Pop
<1>12. CASE NextStatement
  BY <1>1, <1>4, <1>12 DEF NextStatement
<1>13. CASE EndCompoundStmt
  BY <1>1, <1>4, <1>13 DEF EndCompoundStmt, StmtVisited, Pop
<1>14. CASE FinishFunction
  <2>1. bbs' \in Graph /\ SameLists(bbs, bbs')
    BY <1>1, <1>3, <1>4, <1>14 DEF FinishFunction
  <2>. QED BY <1>14, <2>1 DEF FinishFunction
<1>. QED BY <1>5, <1>6, <1>7, <1>8, <1>9, <1>10, <1>11, <1>12, <1>13, <1>14

LEMMA PlainStepsEdged ==
  ASSUME Good(bbs, nb, BB_, frames, pc), Edged,
         \/ VisitEmpty \/ VisitExpressionStmt \/ VisitCompoundStmt
         \/ VisitSelectionStmt \/ VisitReturnStmt
         \/ FinishExpressionStmt \/ FinishReturn
         \/ NextStatement \/ EndCompoundStmt \/ FinishFunction
  PROVE  NextEdged
  BY PlainSteps, PlainFrames

\* Two new blocks become the targets of a conditional branch.
LEMMA TwoWayLists ==
  ASSUME NEW g \in Graph, NEW n \in Nat, n + 2 <= MaxBlocks, NEW b \in 1 .. n, Lists(g, n),
         NEW name1 \in Labels, NEW name2 \in Labels, name1 # "condition", name2 # "condition",
         NEW h, h = TwoWay(g, n, b, name1, name2)
  PROVE  /\ h \in Graph /\ Lists(h, n + 2)
         /\ \A x \in 1 .. n : h[x].pre = g[x].pre /\ h[x].label = g[x].label
         /\ h[n + 1].label = name1 /\ h[n + 2].label = name2
         /\ n + 1 \notin Range(h[n + 2].pre)
<1> DEFINE t == n + 1
           f == n + 2
           g0 == Emit(g, b, "op")
           g1 == Create(g0, t, name1)
           g2 == Create(g1, f, name2)
<1>1. /\ t \in Blocks /\ f \in Blocks /\ b \in Blocks /\ t # b /\ f # b /\ t # f
      /\ t <= f /\ b <= f /\ f <= f /\ t \in Nat /\ f \in Nat /\ f = t + 1 /\ t = n + 1
      /\ Entry \in Blocks /\ t # Entry /\ f # Entry
      /\ \A x \in 1 .. n : x \in Blocks /\ x # t /\ x # f
  BY BoundsAssumption DEF Blocks, Entry
<1>. HIDE DEF t, f
<1>2. g0 \in Graph /\ SameLists(g, g0) /\ Lists(g0, n)
  BY <1>1, EmitLists, SameKeepsLists
<1>. HIDE DEF g0
<1>3. g1 \in Graph /\ Added(g0, g1, t, name1)
  BY <1>1, <1>2, CreateLists
<1>. HIDE DEF g1
<1>4. Lists(g1, t)
  BY <1>1, <1>2, <1>3, AddKeepsLists
<1>5. g2 \in Graph /\ Added(g1, g2, f, name2)
  BY <1>1, <1>3, CreateLists
<1>. HIDE DEF g2
<1>6. Lists(g2, f)
  BY <1>1, <1>3, <1>4, <1>5, AddKeepsLists
<1>7. h = CreateCondBr(g2, b, t, f)
  BY DEF TwoWay, g0, g1, g2, t, f
<1>8. h \in Graph /\ \E e \in Graph : Linked(g2, e, b, f) /\ Linked(e, h, b, t)
  BY <1>1, <1>5, <1>7, CreateCondBrLinks
<1>9. PICK e \in Graph : Linked(g2, e, b, f) /\ Linked(e, h, b, t)
  BY <1>8
<1>10. g2[f].pre = <<>> /\ g2[f].label = name2 /\ g2[t].pre = <<>> /\ g2[t].label = name1
  BY <1>1, <1>3, <1>5 DEF Added
<1>11. Lists(e, f)
  BY <1>1, <1>5, <1>6, <1>9, <1>10, EmptyList, LinkKeepsLists
<1>12. /\ e[t].pre = <<>> /\ e[t].label = name1 /\ e[f].label = name2
       /\ e[f].pre = Append(<<>>, b)
  BY <1>1, <1>9, <1>10, ZenonT(30) DEF Linked
<1>13. Lists(h, f)
  BY <1>1, <1>9, <1>11, <1>12, EmptyList, LinkKeepsLists
<1>14. /\ h[t].pre = Append(<<>>, b) /\ h[f].pre = Append(<<>>, b)
       /\ h[t].label = name1 /\ h[f].label = name2
  BY <1>1, <1>9, <1>12, ZenonT(30) DEF Linked
<1>15. t \notin Range(h[f].pre)
  <2>1. Range(Append(<<>>, b)) = {b}
    BY <1>1, EmptyList, AppendList, ZenonT(30)
  <2>. QED BY <1>1, <1>14, <2>1
<1>16. \A x \in 1 .. n : h[x].pre = g[x].pre /\ h[x].label = g[x].label
  BY <1>1, <1>2, <1>3, <1>5, <1>9 DEF SameLists, Added, Linked
<1>. QED BY <1>8, <1>13, <1>14, <1>15, <1>16 DEF t, f

\* The blocks of the function keep their predecessors, new ones are made: the
\* stack is as good as before, and the new blocks are apart from it.
LEMMA NewBlocks ==
  ASSUME NEW g \in Graph, NEW n \in Nat, 1 .. n \subseteq Blocks, Lists(g, n),
         NEW fs \in Seq(FrameRecord), NEW p, FramesOK(fs, p, n),
         NEW h, \A x \in 1 .. n : h[x].pre = g[x].pre /\ h[x].label = g[x].label
  PROVE  /\ \A b : StackOK(g, fs, b) => StackOK(h, fs, b)
         /\ \A Y : (\A y \in Y : y \notin 1 .. n) => Apart(h, fs, Y)
<1>1. \A Y : (\A y \in Y : y \notin 1 .. n) => Apart(g, fs, Y)
  BY Fresh
<1>2. \A i \in 1 .. Len(fs) : Holds(fs[i]) \subseteq 1 .. n
  BY HoldsCreated
<1>3. \A i \in 1 .. Len(fs) : \A x \in Holds(fs[i]) :
        h[x].pre = g[x].pre /\ h[x].label = g[x].label
  BY <1>2
<1>4. \A Y : Apart(g, fs, Y) => Apart(h, fs, Y)
  BY <1>3, Quiet
<1>5. \A b : StackOK(g, fs, b) => StackOK(h, fs, b)
  BY <1>3, Quiet
<1>. QED BY <1>1, <1>4, <1>5

\* The index test of an array access.
LEMMA VisitVarIndexedEdged ==
  ASSUME Good(bbs, nb, BB_, frames, pc), Edged, VisitVarIndexed
  PROVE  NextEdged
<1>0. PICK failName \in Labels, passName \in Labels : IndexTested(failName, passName)
  BY IndexTest
<1>n. failName # "condition" /\ passName # "condition"
  BY <1>0 DEF IndexTested
<1> DEFINE fail == nb + 1
           pass == nb + 2
           tested == TwoWay(bbs, nb, BB_, failName, passName)
           called == Emit(tested, fail, "op")
           failed == CreateBr(called, fail, pass)
<1>1. /\ nb + 2 <= MaxBlocks /\ nb' = pass /\ BB_' = pass
      /\ frames' = frames /\ bbs' = Emit(failed, pass, "op")
  BY <1>0 DEF IndexTested
<1>2. /\ fail \in Blocks /\ pass \in Blocks /\ pass \in Nat /\ fail <= pass /\ pass <= pass
      /\ fail # pass /\ pass # Entry /\ fail \notin 1 .. nb /\ pass \notin 1 .. nb
      /\ fail # BB_
  BY <1>1, EdgeTypes, BoundsAssumption DEF Blocks
<1>3. /\ tested \in Graph /\ Lists(tested, pass)
      /\ \A x \in 1 .. nb : tested[x].pre = bbs[x].pre /\ tested[x].label = bbs[x].label
      /\ tested[pass].label = passName
      /\ fail \notin Range(tested[pass].pre)
  <2>1. failName \in Labels /\ passName \in Labels
    OBVIOUS
  <2>2. bbs \in Graph /\ nb \in Nat /\ BB_ \in 1 .. nb /\ Lists(bbs, nb)
    BY EdgeTypes DEF Edged
  <2>3. failName # "condition" /\ passName # "condition"
    BY <1>0 DEF IndexTested
  <2>4. tested = TwoWay(bbs, nb, BB_, failName, passName) /\ nb + 2 <= MaxBlocks
    BY <1>1
  <2>. HIDE DEF tested
  <2>. QED BY <2>1, <2>2, <2>3, <2>4, TwoWayLists
<1>. HIDE DEF tested, fail, pass
<1>4. called \in Graph /\ SameLists(tested, called) /\ Lists(called, pass)
  BY <1>2, <1>3, EdgeTypes, EmitLists, SameKeepsLists
<1>. HIDE DEF called
<1>5. failed \in Graph /\ Linked(called, failed, fail, pass)
  BY <1>2, <1>4, CreateBrLinks
<1>6. Lists(failed, pass)
  <2>1. fail \notin Range(called[pass].pre) /\ called[pass].label # "condition"
    BY <1>n, <1>2, <1>3, <1>4 DEF SameLists
  <2>. QED BY <1>2, <1>4, <1>5, <2>1, EdgeTypes, LinkKeepsLists
<1>. HIDE DEF failed
<1>7. bbs' \in Graph /\ SameLists(failed, bbs') /\ Lists(bbs', pass)
  BY <1>1, <1>2, <1>5, <1>6, EdgeTypes, EmitLists, SameKeepsLists
<1>8. \A x \in 1 .. nb : bbs'[x].pre = bbs[x].pre /\ bbs'[x].label = bbs[x].label
  <2>1. \A x \in 1 .. nb : x \in Blocks /\ x # pass
    BY <1>2, EdgeTypes
  <2>. QED BY <1>3, <1>4, <1>5, <1>7, <2>1 DEF SameLists, Linked
<1>9. StackOK(bbs', frames, pass)
  <2>1. \A y \in {pass} : y \notin 1 .. nb
    BY <1>2
  <2>2. /\ Lists(bbs, nb) /\ StackOK(bbs, frames, BB_)
        /\ frames \in Seq(FrameRecord) /\ FramesOK(frames, pc, nb)
    BY EdgeTypes DEF Edged
  <2>3. Apart(bbs', frames, {pass}) /\ StackOK(bbs', frames, BB_)
    BY <1>8, <2>1, <2>2, EdgeTypes, NewBlocks
  <2>. QED BY <2>3, Move
<1>. QED BY <1>1, <1>7, <1>9 DEF NextEdged

\* The frames below the innermost one, and what that one holds.
LEMMA Below ==
  ASSUME Good(bbs, nb, BB_, frames, pc), Edged, frames # <<>>
  PROVE  /\ Front(frames) \in Seq(FrameRecord)
         /\ FramesOK(Front(frames), "stmt", nb)
         /\ StackOK(bbs, Front(frames), BB_)
         /\ Apart(bbs, Front(frames), Holds(Last(frames)))
         /\ Own(bbs, Last(frames)) /\ Safe(bbs, Last(frames), BB_)
         /\ Last(frames) \in FrameRecord /\ FrameOK(Last(frames), nb)
<1>1. Front(frames) \in Seq(FrameRecord) /\ FramesOK(Front(frames), "stmt", nb)
  BY EdgeTypes, GoodTypes, PopFrame
<1>2. Last(frames) \in FrameRecord /\ FrameOK(Last(frames), nb)
  BY EdgeTypes, TopFrame
<1>. QED BY <1>1, <1>2, EdgeTypes, Rest DEF Edged

\* if (e) s after e: no block that will be left for the join leads to it yet.
LEMMA BranchIfEdged ==
  ASSUME Good(bbs, nb, BB_, frames, pc), Edged, BranchIf
  PROVE  NextEdged
<1> DEFINE t == nb + 1
           r == nb + 2
           f == [Frame("ifTrue") EXCEPT !.retBB = r]
<1>1. /\ r <= MaxBlocks /\ nb' = r /\ BB_' = t /\ frames' = Append(Front(frames), f)
      /\ frames # <<>> /\ bbs' = TwoWay(bbs, nb, BB_, "true", "ret")
  BY DEF BranchIf, ExprVisited, Top, Replace, Good, TwoWay
<1>2. /\ bbs' \in Graph /\ Lists(bbs', r)
      /\ \A x \in 1 .. nb : bbs'[x].pre = bbs[x].pre /\ bbs'[x].label = bbs[x].label
      /\ bbs'[r].label = "ret" /\ t \notin Range(bbs'[r].pre)
  <2>1. bbs \in Graph /\ nb \in Nat /\ BB_ \in 1 .. nb /\ Lists(bbs, nb)
    BY EdgeTypes DEF Edged
  <2>2. /\ "true" \in Labels /\ "ret" \in Labels
        /\ "true" # "condition" /\ "ret" # "condition"
    BY DEF Labels, FixedLabels
  <2>. QED BY <1>1, <2>1, <2>2, TwoWayLists
<1>3. t \notin 1 .. nb /\ r \notin 1 .. nb /\ r # Entry /\ r \in Blocks
  BY <1>1, EdgeTypes DEF Blocks
<1>4. f \in FrameRecord /\ f.kind = "ifTrue" /\ f.retBB = r
  BY <1>3 DEF Frame, FrameRecord, MaybeBB, FrameKinds
<1>. HIDE DEF f, t, r
<1>5. Holds(f) = {r} /\ Own(bbs', f) /\ Safe(bbs', f, t)
  BY <1>2, <1>3, <1>4 DEF Holds, Own, Safe
<1>6. /\ StackOK(bbs', Front(frames), BB_)
      /\ Apart(bbs', Front(frames), {t}) /\ Apart(bbs', Front(frames), Holds(f))
  <2>1. \A y \in {t} : y \notin 1 .. nb
    BY <1>3
  <2>2. \A y \in Holds(f) : y \notin 1 .. nb
    BY <1>3, <1>5
  <2>3. /\ Lists(bbs, nb) /\ bbs \in Graph /\ nb \in Nat /\ 1 .. nb \subseteq Blocks
        /\ Front(frames) \in Seq(FrameRecord) /\ FramesOK(Front(frames), "stmt", nb)
        /\ StackOK(bbs, Front(frames), BB_)
    BY <1>1, EdgeTypes, Below DEF Edged
  <2>4. StackOK(bbs', Front(frames), BB_)
    BY <1>2, <2>3, NewBlocks
  <2>5. \A Y : (\A y \in Y : y \notin 1 .. nb) => Apart(bbs', Front(frames), Y)
    BY <1>2, <2>3, NewBlocks
  <2>6. Apart(bbs', Front(frames), {t})
    BY <2>1, <2>5
  <2>7. Apart(bbs', Front(frames), Holds(f))
    BY <2>2, <2>5
  <2>. QED BY <2>4, <2>6, <2>7
<1>7. StackOK(bbs', Front(frames), t)
  BY <1>6, Move
<1>8. StackOK(bbs', frames', BB_')
  BY <1>1, <1>4, <1>5, <1>6, <1>7, Below, Onto
<1>. QED BY <1>1, <1>2, <1>8 DEF NextEdged

\* if (e) s1 else s2 after e: the false block is left for the second branch.
LEMMA BranchIfElseEdged ==
  ASSUME Good(bbs, nb, BB_, frames, pc), Edged, BranchIfElse
  PROVE  NextEdged
<1> DEFINE t == nb + 1
           r == nb + 2
           f == [Frame("elseTrue") EXCEPT !.falseBB = r]
<1>1. /\ r <= MaxBlocks /\ nb' = r /\ BB_' = t /\ frames' = Append(Front(frames), f)
      /\ frames # <<>> /\ bbs' = TwoWay(bbs, nb, BB_, "true", "false")
  BY DEF BranchIfElse, ExprVisited, Top, Replace, Good, TwoWay
<1>2. /\ bbs' \in Graph /\ Lists(bbs', r)
      /\ \A x \in 1 .. nb : bbs'[x].pre = bbs[x].pre /\ bbs'[x].label = bbs[x].label
  <2>1. bbs \in Graph /\ nb \in Nat /\ BB_ \in 1 .. nb /\ Lists(bbs, nb)
    BY EdgeTypes DEF Edged
  <2>2. /\ "true" \in Labels /\ "false" \in Labels
        /\ "true" # "condition" /\ "false" # "condition"
    BY DEF Labels, FixedLabels
  <2>. QED BY <1>1, <2>1, <2>2, TwoWayLists
<1>3. t \notin 1 .. nb /\ r \notin 1 .. nb /\ r # t /\ r \in Blocks
  BY <1>1, EdgeTypes DEF Blocks
<1>4. f \in FrameRecord /\ f.kind = "elseTrue" /\ f.falseBB = r
  BY <1>3 DEF Frame, FrameRecord, MaybeBB, FrameKinds
<1>. HIDE DEF f, t, r
<1>5. Holds(f) = {r} /\ Own(bbs', f) /\ Safe(bbs', f, t)
  BY <1>3, <1>4 DEF Holds, Own, Safe
<1>6. /\ StackOK(bbs', Front(frames), BB_)
      /\ Apart(bbs', Front(frames), {t}) /\ Apart(bbs', Front(frames), Holds(f))
  <2>1. \A y \in {t} : y \notin 1 .. nb
    BY <1>3
  <2>2. \A y \in Holds(f) : y \notin 1 .. nb
    BY <1>3, <1>5
  <2>3. /\ Lists(bbs, nb) /\ bbs \in Graph /\ nb \in Nat /\ 1 .. nb \subseteq Blocks
        /\ Front(frames) \in Seq(FrameRecord) /\ FramesOK(Front(frames), "stmt", nb)
        /\ StackOK(bbs, Front(frames), BB_)
    BY <1>1, EdgeTypes, Below DEF Edged
  <2>4. StackOK(bbs', Front(frames), BB_)
    BY <1>2, <2>3, NewBlocks
  <2>5. \A Y : (\A y \in Y : y \notin 1 .. nb) => Apart(bbs', Front(frames), Y)
    BY <1>2, <2>3, NewBlocks
  <2>6. Apart(bbs', Front(frames), {t})
    BY <2>1, <2>5
  <2>7. Apart(bbs', Front(frames), Holds(f))
    BY <2>2, <2>5
  <2>. QED BY <2>4, <2>6, <2>7
<1>7. StackOK(bbs', Front(frames), t)
  BY <1>6, Move
<1>8. StackOK(bbs', frames', BB_')
  BY <1>1, <1>4, <1>5, <1>6, <1>7, Below, Onto
<1>. QED BY <1>1, <1>2, <1>8 DEF NextEdged

\* while: the condition block has one predecessor, the block before it; the
\* other two have none.
LEMMA VisitIterationStmtEdged ==
  ASSUME Good(bbs, nb, BB_, frames, pc), Edged, VisitIterationStmt
  PROVE  NextEdged
<1> DEFINE c == nb + 1
           l == nb + 2
           r == nb + 3
           g1 == Create(bbs, c, "condition")
           g2 == Create(g1, l, "loop")
           g3 == Create(g2, r, "ret")
           f == [Frame("whileCond") EXCEPT !.conditionBB = c, !.loopBB = l, !.retBB = r]
<1>1. /\ r <= MaxBlocks /\ nb' = r /\ bbs' = CreateBr(g3, BB_, c)
      /\ BB_' = c /\ frames' = Append(frames, f)
  BY DEF VisitIterationStmt, Visit, Push
<1>2. /\ c \in Blocks /\ l \in Blocks /\ r \in Blocks /\ c # l /\ c # r /\ l # r
      /\ c # BB_ /\ l # BB_ /\ c # Entry /\ l # Entry /\ r # Entry
      /\ c \notin 1 .. nb /\ l \notin 1 .. nb /\ r \notin 1 .. nb
      /\ c = nb + 1 /\ l = c + 1 /\ r = l + 1 /\ c \in Nat /\ l \in Nat /\ r \in Nat
      /\ c <= r /\ BB_ <= r /\ \A x \in 1 .. nb : x # c /\ x # l /\ x # r
  BY <1>1, EdgeTypes, BoundsAssumption, SMTT(30) DEF Blocks
<1>3. /\ f \in FrameRecord /\ f.kind = "whileCond"
      /\ f.conditionBB = c /\ f.loopBB = l /\ f.retBB = r
  BY <1>2 DEF Frame, FrameRecord, MaybeBB, FrameKinds
<1>. HIDE DEF f, c, l, r
<1>4. g1 \in Graph /\ Added(bbs, g1, c, "condition")
  BY <1>2, EdgeTypes, CreateLists DEF Labels, FixedLabels
<1>. HIDE DEF g1
<1>5. g2 \in Graph /\ Added(g1, g2, l, "loop")
  BY <1>2, <1>4, CreateLists DEF Labels, FixedLabels
<1>. HIDE DEF g2
<1>6. g3 \in Graph /\ Added(g2, g3, r, "ret")
  BY <1>2, <1>5, CreateLists DEF Labels, FixedLabels
<1>. HIDE DEF g3
<1>7. Lists(g3, r)
  <2>1. Lists(g1, c)
    BY <1>2, <1>4, EdgeTypes, AddKeepsLists DEF Edged
  <2>2. Lists(g2, l)
    BY <1>2, <1>5, <2>1, EdgeTypes, AddKeepsLists
  <2>. QED BY <1>2, <1>6, <2>2, EdgeTypes, AddKeepsLists
<1>8. bbs' \in Graph /\ Linked(g3, bbs', BB_, c)
  BY <1>1, <1>2, <1>6, EdgeTypes, CreateBrLinks
<1>9. /\ g3[c].pre = <<>> /\ g3[l].pre = <<>> /\ g3[r].pre = <<>>
      /\ g3[l].label = "loop" /\ g3[r].label = "ret"
  BY <1>2, <1>4, <1>5, <1>6 DEF Added
<1>10. Lists(bbs', r)
  BY <1>2, <1>6, <1>7, <1>8, <1>9, EdgeTypes, EmptyList, LinkKeepsLists
<1>11. /\ bbs'[c].pre = Append(<<>>, BB_) /\ bbs'[l].pre = <<>> /\ bbs'[r].pre = <<>>
       /\ bbs'[l].label = "loop" /\ bbs'[r].label = "ret"
  BY <1>2, <1>8, <1>9 DEF Linked
<1>12. Len(bbs'[c].pre) = 1 /\ c \notin Range(bbs'[c].pre) /\ l \notin Range(bbs'[c].pre)
  <2>1. BB_ \in Blocks /\ Len(Append(<<>>, BB_)) = 1
    BY EdgeTypes
  <2>2. Range(Append(<<>>, BB_)) = {BB_}
    BY <2>1, EmptyList, AppendList
  <2>. QED BY <1>2, <1>11, <2>1, <2>2
<1>13. Holds(f) = {c, l, r} /\ Own(bbs', f) /\ Safe(bbs', f, c)
  BY <1>2, <1>3, <1>11, <1>12 DEF Holds, Own, Safe
<1>14. \A x \in 1 .. nb : bbs'[x].pre = bbs[x].pre /\ bbs'[x].label = bbs[x].label
  <2>1. \A x \in 1 .. nb : x \in Blocks /\ x # c /\ x # l /\ x # r
    BY <1>2, EdgeTypes
  <2>. QED BY <1>4, <1>5, <1>6, <1>8, <2>1 DEF Added, Linked
<1>15. StackOK(bbs', frames, BB_) /\ Apart(bbs', frames, Holds(f))
  <2>1. \A y \in Holds(f) : y \notin 1 .. nb
    BY <1>2, <1>13
  <2>. QED BY <1>14, <2>1, EdgeTypes, NewBlocks DEF Edged
<1>16. StackOK(bbs', frames, c)
  BY <1>13, <1>15, Move
<1>17. StackOK(bbs', frames', BB_')
  BY <1>1, <1>3, <1>13, <1>15, <1>16, EdgeTypes, Onto
<1>. QED BY <1>1, <1>10, <1>17 DEF NextEdged

\* Edges to blocks apart from the frames leave those as they were.
LEMMA EdgesApart ==
  ASSUME NEW g, NEW h, NEW fs \in Seq(FrameRecord), NEW X, Apart(g, fs, X),
         NEW p, NEW n, FramesOK(fs, p, n), 1 .. n \subseteq Blocks,
         \A x \in Blocks \ X : h[x].pre = g[x].pre /\ h[x].label = g[x].label
  PROVE  /\ \A b : StackOK(g, fs, b) => StackOK(h, fs, b)
         /\ \A Y : Apart(g, fs, Y) => Apart(h, fs, Y)
<1>1. \A i \in 1 .. Len(fs) : Holds(fs[i]) \subseteq 1 .. n
  BY HoldsCreated
<1>2. \A i \in 1 .. Len(fs) : \A x \in Holds(fs[i]) : x \in Blocks \ X
  BY <1>1 DEF Apart
<1>3. \A i \in 1 .. Len(fs) : \A x \in Holds(fs[i]) :
        h[x].pre = g[x].pre /\ h[x].label = g[x].label
  BY <1>2
<1>4. \A Y : Apart(g, fs, Y) => Apart(h, fs, Y)
  BY <1>3, Quiet
<1>5. \A b : StackOK(g, fs, b) => StackOK(h, fs, b)
  BY <1>3, Quiet
<1>. QED BY <1>4, <1>5

\* The condition of a while is done: its blocks get their first predecessor.
LEMMA BranchWhileEdged ==
  ASSUME Good(bbs, nb, BB_, frames, pc), Edged, BranchWhile
  PROVE  NextEdged
<1> DEFINE top == Last(frames)
           rest == Front(frames)
           c == top.conditionBB
           l == top.loopBB
           r == top.retBB
           g == Emit(bbs, BB_, "op")
           f == [Frame("whileBody") EXCEPT !.conditionBB = c, !.retBB = r]
<1>1. /\ nb' = nb /\ BB_' = l /\ top.kind = "whileCond" /\ frames # <<>>
      /\ frames' = Append(rest, f) /\ bbs' = CreateCondBr(g, BB_, l, r)
  BY DEF BranchWhile, ExprVisited, Top, Replace, Good
<1>2. /\ rest \in Seq(FrameRecord) /\ FramesOK(rest, "stmt", nb) /\ StackOK(bbs, rest, BB_)
      /\ Apart(bbs, rest, Holds(top)) /\ Own(bbs, top) /\ FrameOK(top, nb)
  BY <1>1, Below
<1>. HIDE DEF rest, top
<1>3. /\ Holds(top) = {c, l, r}
      /\ c \in 1 .. nb /\ l \in 1 .. nb /\ r \in 1 .. nb
      /\ l # r /\ c # l /\ c # r /\ c # Entry /\ l # Entry /\ r # Entry
      /\ Len(bbs[c].pre) <= 1 /\ l \notin Range(bbs[c].pre)
      /\ bbs[l].pre = <<>> /\ bbs[r].pre = <<>>
      /\ bbs[l].label # "condition" /\ bbs[r].label # "condition"
  BY <1>1, <1>2 DEF Holds, Own, FrameOK
<1>4. /\ c \in Blocks /\ l \in Blocks /\ r \in Blocks /\ l <= nb /\ r <= nb /\ BB_ <= nb
      /\ nb \in Nat /\ 1 .. nb \subseteq Blocks /\ BB_ \in Blocks /\ bbs \in Graph /\ Entry \in Blocks
  BY <1>3, EdgeTypes
<1>5. f \in FrameRecord /\ f.kind = "whileBody" /\ f.conditionBB = c /\ f.retBB = r
  BY <1>4 DEF Frame, FrameRecord, MaybeBB, FrameKinds
<1>. HIDE DEF f, c, l, r
<1>6. g \in Graph /\ SameLists(bbs, g) /\ Lists(g, nb)
  BY <1>4, EmitLists, SameKeepsLists DEF Edged
<1>. HIDE DEF g
<1>7. bbs' \in Graph /\ \E e \in Graph : Linked(g, e, BB_, r) /\ Linked(e, bbs', BB_, l)
  BY <1>1, <1>3, <1>4, <1>6, CreateCondBrLinks
<1>8. PICK e \in Graph : Linked(g, e, BB_, r) /\ Linked(e, bbs', BB_, l)
  BY <1>7
<1>9. g[l].pre = <<>> /\ g[r].pre = <<>> /\ g[l].label # "condition" /\ g[r].label # "condition"
  BY <1>3, <1>4, <1>6 DEF SameLists
<1>10. Lists(e, nb)
  BY <1>3, <1>4, <1>6, <1>8, <1>9, EmptyList, LinkKeepsLists
<1>11. e[l].pre = <<>> /\ e[l].label # "condition"
  BY <1>3, <1>4, <1>8, <1>9 DEF Linked
<1>12. Lists(bbs', nb)
  BY <1>3, <1>4, <1>8, <1>10, <1>11, EmptyList, LinkKeepsLists
<1>13. \A x \in Blocks \ {l, r} : bbs'[x].pre = bbs[x].pre /\ bbs'[x].label = bbs[x].label
  BY <1>6, <1>8 DEF SameLists, Linked
<1>14. Holds(f) = {c, r} /\ Own(bbs', f) /\ Safe(bbs', f, l)
  BY <1>3, <1>4, <1>5, <1>13 DEF Holds, Own, Safe
<1>15. /\ \A b : StackOK(bbs, rest, b) => StackOK(bbs', rest, b)
       /\ \A Y : Apart(bbs, rest, Y) => Apart(bbs', rest, Y)
  <2>1. \A x \in Blocks \ Holds(top) : bbs'[x].pre = bbs[x].pre /\ bbs'[x].label = bbs[x].label
    BY <1>3, <1>13
  <2>. QED BY <1>2, <1>4, <2>1, EdgesApart
<1>16. StackOK(bbs', rest, BB_) /\ Apart(bbs', rest, Holds(top))
  BY <1>2, <1>15
<1>17. StackOK(bbs', rest, l)
  <2>1. l \in Holds(top)
    BY <1>3
  <2>. QED BY <1>16, <2>1, Move
<1>18. Apart(bbs', rest, Holds(f))
  BY <1>3, <1>14, <1>16 DEF Apart
<1>19. StackOK(bbs', Append(rest, f), l)
  BY <1>2, <1>5, <1>14, <1>17, <1>18, Onto
<1>. QED BY <1>1, <1>12, <1>19 DEF NextEdged, l

\* Steps that join: perhaps a branch to a block the innermost frame holds,
\* which the insertion block does not lead to yet.
LEMMA JoinEdged ==
  ASSUME Good(bbs, nb, BB_, frames, pc), Edged, frames # <<>>,
         NEW x \in Holds(Last(frames)), NEW y \in Holds(Last(frames)),
         x # Entry, BB_ \notin Range(bbs[x].pre),
         bbs[x].label = "condition" => Len(bbs[x].pre) <= 1,
         bbs' = bbs \/ bbs' = CreateBr(bbs, BB_, x), nb' = nb, BB_' = y, frames' = Pop
  PROVE  NextEdged
<1> DEFINE rest == Front(frames)
           H == Holds(Last(frames))
<1>1. /\ rest \in Seq(FrameRecord) /\ FramesOK(rest, "stmt", nb) /\ StackOK(bbs, rest, BB_)
      /\ Apart(bbs, rest, H) /\ FrameOK(Last(frames), nb)
  BY Below
<1>2. H \subseteq 1 .. nb
  BY <1>1 DEF Holds, FrameOK
<1>3. /\ x \in Blocks /\ x <= nb /\ BB_ \in Blocks /\ BB_ <= nb /\ nb \in Nat
      /\ bbs \in Graph /\ Entry \in Blocks /\ 1 .. nb \subseteq Blocks
  BY <1>2, EdgeTypes
<1>. HIDE DEF rest, H
<1>4. /\ Lists(bbs', nb)
      /\ \A z \in Blocks \ H : bbs'[z].pre = bbs[z].pre /\ bbs'[z].label = bbs[z].label
  <2>1. CASE bbs' = bbs
    BY <2>1 DEF Edged
  <2>2. CASE bbs' = CreateBr(bbs, BB_, x)
    <3>1. Linked(bbs, bbs', BB_, x)
      BY <1>3, <2>2, CreateBrLinks
    <3>2. Lists(bbs', nb)
      BY <1>3, <3>1, LinkKeepsLists DEF Edged
    <3>. QED BY <3>1, <3>2 DEF Linked, H
  <2>. QED BY <2>1, <2>2
<1>5. /\ \A b : StackOK(bbs, rest, b) => StackOK(bbs', rest, b)
      /\ \A Y : Apart(bbs, rest, Y) => Apart(bbs', rest, Y)
  BY <1>1, <1>3, <1>4, EdgesApart
<1>6. StackOK(bbs', rest, BB_) /\ Apart(bbs', rest, H)
  BY <1>1, <1>5
<1>7. StackOK(bbs', rest, y)
  BY <1>6, Move DEF H
<1>. QED BY <1>4, <1>7 DEF NextEdged, rest, Pop

\* The join after if.
LEMMA FinishIfEdged ==
  ASSUME Good(bbs, nb, BB_, frames, pc), Edged, FinishIf
  PROVE  NextEdged
<1>1. /\ frames # <<>> /\ Last(frames).kind = "ifTrue" /\ nb' = nb
      /\ bbs' = bbs \/ bbs' = CreateBr(bbs, BB_, Last(frames).retBB)
      /\ BB_' = Last(frames).retBB /\ frames' = Pop
  BY DEF FinishIf, StmtVisited, Top
<1>2. Own(bbs, Last(frames)) /\ Safe(bbs, Last(frames), BB_)
  BY <1>1, Below
<1>3. /\ Last(frames).retBB \in Holds(Last(frames)) /\ Last(frames).retBB # Entry
      /\ BB_ \notin Range(bbs[Last(frames).retBB].pre)
      /\ bbs[Last(frames).retBB].label # "condition"
  BY <1>1, <1>2 DEF Own, Safe, Holds
<1>. QED BY <1>1, <1>3, JoinEdged

\* The back branch of a while is the second edge to its condition.
LEMMA FinishWhileEdged ==
  ASSUME Good(bbs, nb, BB_, frames, pc), Edged, FinishWhile
  PROVE  NextEdged
<1>1. /\ frames # <<>> /\ Last(frames).kind = "whileBody" /\ nb' = nb
      /\ bbs' = bbs \/ bbs' = CreateBr(bbs, BB_, Last(frames).conditionBB)
      /\ BB_' = Last(frames).retBB /\ frames' = Pop
  BY DEF FinishWhile, StmtVisited, Top
<1>2. Own(bbs, Last(frames)) /\ Safe(bbs, Last(frames), BB_)
  BY <1>1, Below
<1>3. /\ Last(frames).retBB \in Holds(Last(frames))
      /\ Last(frames).conditionBB \in Holds(Last(frames)) /\ Last(frames).conditionBB # Entry
      /\ BB_ \notin Range(bbs[Last(frames).conditionBB].pre)
      /\ Len(bbs[Last(frames).conditionBB].pre) <= 1
  BY <1>1, <1>2 DEF Own, Safe, Holds
<1>. QED BY <1>1, <1>3, JoinEdged

\* The first branch did not end in the block of the second.
LEMMA StartElseEdged ==
  ASSUME Good(bbs, nb, BB_, frames, pc), Edged, StartElse
  PROVE  NextEdged
<1> DEFINE f == [Frame("elseFalse") EXCEPT !.curTrueBB = BB_]
           x == Last(frames).falseBB
<1>1. /\ frames # <<>> /\ Last(frames).kind = "elseTrue" /\ bbs' = bbs /\ nb' = nb
      /\ BB_' = x /\ frames' = Append(Front(frames), f)
  BY DEF StartElse, StmtVisited, Top, Replace
<1>2. /\ Front(frames) \in Seq(FrameRecord) /\ StackOK(bbs, Front(frames), BB_)
      /\ Apart(bbs, Front(frames), Holds(Last(frames))) /\ Safe(bbs, Last(frames), BB_)
  BY <1>1, Below
<1>3. x \in Holds(Last(frames)) /\ BB_ # x
  BY <1>1, <1>2 DEF Holds, Safe
<1>4. f \in FrameRecord /\ f.kind = "elseFalse" /\ f.curTrueBB = BB_
  BY EdgeTypes DEF Frame, FrameRecord, MaybeBB, FrameKinds
<1>. HIDE DEF f, x
<1>5. Holds(f) = {} /\ Own(bbs, f) /\ Safe(bbs, f, x)
  BY <1>3, <1>4 DEF Holds, Own, Safe
<1>6. Apart(bbs, Front(frames), Holds(f))
  BY <1>5 DEF Apart
<1>7. StackOK(bbs, Front(frames), x)
  BY <1>2, <1>3, Move
<1>8. StackOK(bbs, Append(Front(frames), f), x)
  BY <1>2, <1>4, <1>5, <1>6, <1>7, Onto
<1>. QED BY <1>1, <1>8 DEF NextEdged, Edged

\* The join of an if-else: a new block, with an edge from each branch.
LEMMA FinishIfElseEdged ==
  ASSUME Good(bbs, nb, BB_, frames, pc), Edged, FinishIfElse
  PROVE  NextEdged
<1> DEFINE curTrue == Last(frames).curTrueBB
           rest == Front(frames)
           ret == nb + 1
           g == Create(bbs, ret, "ret")
           h == CreateBr(g, curTrue, ret)
<1>1. /\ frames # <<>> /\ Last(frames).kind = "elseFalse" /\ BB_' = BB_ /\ frames' = rest
      /\ \/ bbs' = bbs /\ nb' = nb
         \/ ret <= MaxBlocks /\ nb' = ret /\ bbs' = CreateBr(h, BB_, ret)
  BY DEF FinishIfElse, StmtVisited, Top, Pop
<1>2. /\ rest \in Seq(FrameRecord) /\ FramesOK(rest, "stmt", nb) /\ StackOK(bbs, rest, BB_)
      /\ curTrue \in 1 .. nb /\ BB_ # curTrue
  BY <1>1, Below DEF FrameOK, Safe
<1>3. CASE bbs' = bbs /\ nb' = nb
  BY <1>1, <1>2, <1>3 DEF NextEdged, Edged
<1>4. CASE ret <= MaxBlocks /\ nb' = ret /\ bbs' = CreateBr(h, BB_, ret)
  <2>1. /\ ret \in Blocks /\ ret \in Nat /\ ret = nb + 1 /\ ret # Entry /\ Entry \in Blocks
        /\ curTrue \in Blocks /\ BB_ \in Blocks /\ curTrue <= ret /\ BB_ <= ret /\ ret <= ret
        /\ curTrue # ret /\ bbs \in Graph /\ nb \in Nat /\ 1 .. nb \subseteq Blocks
        /\ \A x \in 1 .. nb : x \in Blocks /\ x # ret
        /\ \A y \in {} : y \notin 1 .. nb
    BY <1>2, <1>4, EdgeTypes, BoundsAssumption DEF Blocks
  <2>. HIDE DEF curTrue, ret, rest
  <2>2. g \in Graph /\ Added(bbs, g, ret, "ret")
    BY <2>1, CreateLists DEF Labels, FixedLabels
  <2>. HIDE DEF g
  <2>3. Lists(g, ret) /\ g[ret].pre = <<>> /\ g[ret].label # "condition"
    BY <2>1, <2>2, AddKeepsLists DEF Edged, Added
  <2>4. h \in Graph /\ Linked(g, h, curTrue, ret)
    BY <2>1, <2>2, CreateBrLinks
  <2>. HIDE DEF h
  <2>5. Lists(h, ret)
    BY <2>1, <2>2, <2>3, <2>4, EmptyList, LinkKeepsLists
  <2>6. BB_ \notin Range(h[ret].pre) /\ h[ret].label # "condition"
    <3>1. Range(Append(<<>>, curTrue)) = {curTrue}
      BY <2>1, EmptyList, AppendList
    <3>2. h[ret].pre = Append(<<>>, curTrue) /\ h[ret].label = g[ret].label
      BY <2>1, <2>3, <2>4 DEF Linked
    <3>. QED BY <1>2, <2>3, <3>1, <3>2
  <2>7. Linked(h, bbs', BB_, ret)
    <3>1. bbs' = CreateBr(h, BB_, ret)
      BY <1>4 DEF h, g, ret, curTrue
    <3>. QED BY <2>1, <2>4, <3>1, CreateBrLinks
  <2>8. Lists(bbs', ret)
    BY <2>1, <2>4, <2>5, <2>6, <2>7, LinkKeepsLists
  <2>9. \A x \in 1 .. nb : bbs'[x].pre = bbs[x].pre /\ bbs'[x].label = bbs[x].label
    BY <2>1, <2>2, <2>4, <2>7 DEF Added, Linked
  <2>10. StackOK(bbs', rest, BB_)
    BY <1>2, <2>1, <2>9, NewBlocks DEF Edged
  <2>11. nb' = ret /\ BB_' = BB_ /\ frames' = rest
    BY <1>1, <1>4 DEF ret, rest
  <2>. QED BY <2>8, <2>10, <2>11 DEF NextEdged
<1>. QED BY <1>1, <1>3, <1>4

(***************************************************************************)
(* The theorems.                                                           *)
(***************************************************************************)
\* The empty function has no edges and its one frame holds nothing.
LEMMA InitEdged == Init => EdgesInv
<1> SUFFICES ASSUME Init PROVE EdgesInv
  OBVIOUS
<1> DEFINE g0 == [b \in Blocks |-> NoBlock]
           g1 == Create(g0, Entry, "entry")
<1>1. IInv /\ Entry \in Blocks /\ nb = 1 /\ Entry = 1
  BY InitGood, BoundsAssumption DEF Init, Entry, Blocks
<1>2. g0 \in Graph /\ \A b \in Blocks : g0[b].pre = <<>> /\ g0[b].succ = <<>> /\ g0[b].label = "none"
  <2>1. <<>> \in Seq({"op", "br", "ret"}) /\ <<>> \in Seq(Blocks) /\ "none" \in Labels
    BY DEF Labels, FixedLabels
  <2>. QED BY <2>1 DEF Graph, NoBlock, BlockRecord
<1>. HIDE DEF g0
<1>3. g1 \in Graph /\ Added(g0, g1, Entry, "entry")
  BY <1>1, <1>2, CreateLists DEF Labels, FixedLabels
<1>4. PICK g \in MaybeOp(g1, Entry) : bbs = g
  BY DEF Init, g0
<1>. HIDE DEF g1
<1>5. SameLists(g1, bbs)
  BY <1>1, <1>3, <1>4, MaybeOpLists
<1>6. \A b \in Blocks : bbs[b].pre = <<>> /\ bbs[b].succ = <<>> /\ bbs[b].label # "condition"
  BY <1>1, <1>2, <1>3, <1>5 DEF Added, SameLists
<1>7. Lists(bbs, nb)
  BY <1>1, <1>6, EmptyList DEF Lists
<1>8. StackOK(bbs, frames, BB_)
  <2>1. Frame("list") \in FrameRecord /\ Frame("list").kind = "list"
    BY DEF Frame, FrameRecord, MaybeBB, FrameKinds
  <2>. DEFINE f == Frame("list")
  <2>. HIDE DEF f
  <2>2. <<f>> \in Seq(FrameRecord) /\ Len(<<f>>) = 1 /\ <<f>>[1] = f
    BY <2>1 DEF f
  <2>3. Holds(f) = {} /\ Own(bbs, f) /\ Safe(bbs, f, BB_)
    BY <2>1 DEF Holds, Own, Safe, f
  <2>4. frames = <<f>>
    BY DEF Init, f
  <2>. QED BY <2>2, <2>3, <2>4 DEF StackOK
<1>. QED BY <1>1, <1>7, <1>8 DEF EdgesInv

\* Every step preserves the inductive invariant.
LEMMA NextKeepsEdges ==
  ASSUME EdgesInv, [Next]_vars
  PROVE  EdgesInv'
<1>1. IInv'
  BY NextPreserves DEF EdgesInv
<1>2. CASE UNCHANGED vars
  BY <1>1, <1>2 DEF vars, EdgesInv, StackOK, Lists
<1>3. CASE Next
  <2>1. Good(bbs, nb, BB_, frames, pc) /\ Edged
    BY DEF EdgesInv, IInv, Edged
  <2>2. NextEdged
    BY <1>3, <2>1, PlainStepsEdged, VisitIterationStmtEdged, VisitVarIndexedEdged,
       BranchIfEdged, BranchIfElseEdged, BranchWhileEdged, FinishIfEdged,
       StartElseEdged, FinishIfElseEdged, FinishWhileEdged DEF Next
  <2>. QED BY <1>1, <2>2 DEF EdgesInv, NextEdged
<1>. QED BY <1>2, <1>3

\* The inductive invariant is stronger than the two properties.
LEMMA EdgesInvImplies == EdgesInv => EdgesMirrored /\ LoopHeaderPreds
<1> SUFFICES ASSUME EdgesInv PROVE EdgesMirrored /\ LoopHeaderPreds
  OBVIOUS
<1>1. Lists(bbs, nb) /\ Good(bbs, nb, BB_, frames, pc)
  BY DEF EdgesInv, IInv
<1>2. Created \subseteq Blocks /\ bbs \in Graph /\ nb \in Nat /\ Created = 1 .. nb
  BY <1>1, EdgeTypes DEF Created
<1>3. \A b \in Created : Succs(bbs, b) \subseteq Created
  <2> SUFFICES ASSUME NEW b \in Created, NEW a \in Range(bbs[b].succ) PROVE a \in Created
    BY DEF Succs
  <2>1. a \in Blocks
    BY <1>2, BlockTypes DEF Range
  <2>2. b \in Range(bbs[a].pre)
    BY <1>1, <1>2, <2>1 DEF Lists
  <2>3. bbs[a].pre # <<>>
    BY <2>2, EmptyList
  <2>. QED BY <1>1, <1>2, <2>1, <2>3, BoundsAssumption DEF Lists, Blocks
<1>4. EdgesMirrored
  BY <1>1, <1>2, <1>3 DEF EdgesMirrored, Lists, Succs
<1>5. LoopHeaderPreds
  BY <1>1, <1>2 DEF LoopHeaderPreds, Lists
<1>. QED BY <1>4, <1>5

\* Whatever the program, pre_bbs_ and succ_bbs_ describe the same edges and
\* record none twice: the first thing Dominators and LoopSearch take for
\* granted of the graphs the builder gives them.
THEOREM ListsMirrorEachOther == Spec => []EdgesMirrored
<1>. QED BY InitEdged, NextKeepsEdges, EdgesInvImplies, PTL DEF Spec

\* Whatever the program, no branch leads to the entry block, and a condition
\* block has no predecessors but the block before the loop and the one at the
\* end of its body.
THEOREM EntryAndHeaders == Spec => []LoopHeaderPreds
<1>. QED BY InitEdged, NextKeepsEdges, EdgesInvImplies, PTL DEF Spec

(***************************************************************************)
(* The hand-over to the passes.                                            *)
(***************************************************************************)
\* The function as a pass sees it: its blocks with their two lists.
Function == [succ |-> [b \in Created |-> bbs[b].succ],
             pre |-> [b \in Created |-> bbs[b].pre]]

\* The function is finished only when every visit method has returned.
LEMMA FinishedIsPopped ==
  ASSUME EdgesInv, pc = "end" => frames = <<>>, [Next]_vars
  PROVE  (pc = "end" => frames = <<>>)'
<1>1. CASE UNCHANGED vars
  BY <1>1 DEF vars
<1>2. CASE FinishFunction
  BY <1>2 DEF FinishFunction
<1>3. CASE Next /\ ~FinishFunction
  <2>1. pc' # "end"
    BY <1>3 DEF Next, VisitEmpty, VisitExpressionStmt, VisitCompoundStmt,
       VisitSelectionStmt, VisitIterationStmt, VisitReturnStmt, VisitVarIndexed,
       FinishExpressionStmt, FinishReturn, BranchIf, BranchIfElse, BranchWhile,
       NextStatement, EndCompoundStmt, FinishIf, StartElse, FinishIfElse,
       FinishWhile, ExprVisited, StmtVisited, Visit
  <2>. QED BY <2>1
<1>. QED BY <1>1, <1>2, <1>3

\* A sequence is one over any set that has its elements.
LEMMA SeqOver ==
  ASSUME NEW S, NEW T, NEW s \in Seq(S), Range(s) \subseteq T
  PROVE  s \in Seq(T)
<1>1. Len(s) \in Nat /\ s \in [1 .. Len(s) -> S] /\ DOMAIN s = 1 .. Len(s)
  OBVIOUS
<1>2. \A i \in 1 .. Len(s) : s[i] \in T
  BY <1>1 DEF Range
<1>3. s \in [1 .. Len(s) -> T]
  BY <1>1, <1>2
<1>. QED BY <1>1, <1>3, SeqDef

\* A finished function is one that Dominators is defined on.
LEMMA FinishedFunctionGraph ==
  ASSUME EdgesInv, frames = <<>>
  PROVE  FunctionGraph(Function, Created, Entry)
<1>1. Lists(bbs, nb) /\ Good(bbs, nb, BB_, frames, pc) /\ AllReachable
  BY IInvImplies DEF EdgesInv, IInv
<1>2. /\ Created \subseteq Blocks /\ Created = 1 .. nb /\ nb \in Nat
      /\ bbs \in Graph /\ Entry \in Created
  BY <1>1, EdgeTypes DEF Created
<1>3. EdgesMirrored
  BY EdgesInvImplies
<1>4. ASSUME NEW b \in Created
      PROVE  bbs[b].succ \in Seq(Created) /\ bbs[b].pre \in Seq(Created)
  <2>1. bbs[b].succ \in Seq(Blocks) /\ bbs[b].pre \in Seq(Blocks)
    BY <1>2, BlockTypes
  <2>2. Range(bbs[b].succ) \subseteq Created
    BY <1>3 DEF EdgesMirrored, Succs
  <2>3. Range(bbs[b].pre) \subseteq Created
    <3> SUFFICES ASSUME NEW a \in Range(bbs[b].pre) PROVE a \in Created
      OBVIOUS
    <3>1. a \in Blocks
      BY <2>1 DEF Range
    <3>2. b \in Range(bbs[a].succ)
      BY <1>1, <1>2, <3>1 DEF Lists
    <3>3. bbs[a].succ # <<>>
      BY <3>2, EmptyList
    <3>. QED BY <1>1, <1>2, <3>1, <3>3, BoundsAssumption DEF Lists, Blocks
  <2>. QED BY <2>1, <2>2, <2>3, SeqOver
<1>5. AllReachableFrom(Entry, Created, Created, Edges)
  <2>1. Created \ Pending = Created
    BY DEF Pending
  <2>. QED BY <1>1, <2>1 DEF AllReachable
<1>6. Edges = {e \in Created \X Created : e[2] \in Range(Function.succ[e[1]])}
  BY DEF Edges, Succs, Function
<1>7. \A a, b \in Created : a \in Range(Function.pre[b]) <=> b \in Range(Function.succ[a])
  BY <1>3 DEF EdgesMirrored, Succs, Function
<1>8. Function.pre[Entry] = <<>>
  BY <1>1, <1>2 DEF Lists, Function
<1>9. Function.succ \in [Created -> Seq(Created)] /\ Function.pre \in [Created -> Seq(Created)]
  BY <1>4 DEF Function
<1>. QED BY <1>5, <1>6, <1>7, <1>8, <1>9 DEF FunctionGraph

\* Every function the builder finishes meets the assumption GraphsAssumption
\* under which Dominators is proved not to abort: the pass, which checks
\* nothing about its input, is only given graphs it is right on.
THEOREM BuiltFunctionsSuitDominators ==
  Spec => [](pc = "end" => FunctionGraph(Function, Created, Entry))
<1>1. Init => (pc = "end" => frames = <<>>)
  BY DEF Init
<1>2. EdgesInv /\ (pc = "end" => frames = <<>>)
        => (pc = "end" => FunctionGraph(Function, Created, Entry))
  BY FinishedFunctionGraph
<1>. QED BY <1>1, <1>2, InitEdged, NextKeepsEdges, FinishedIsPopped, PTL DEF Spec

(***************************************************************************)
(* Loops.  A graph is known by its edges E, its condition blocks C and the *)
(* number n of its blocks.                                                 *)
(***************************************************************************)
Arcs(g) == {e \in Blocks \X Blocks : e[2] \in Succs(g, e[1])}
Conds(g, n) == {x \in 1 .. n : g[x].label = "condition"}

\* The branches back to the condition of a while.
Back(E, C) == {e \in E : e[2] \in C /\ e[2] <= e[1]}

\* No edge lies on a cycle: the end of none leads back to its start.
Sorted(E, n) ==
  \A e \in E : \E S \in SUBSET (1 .. n) : Closed(S, E) /\ e[2] \in S /\ e[1] \notin S

\* The blocks S are entered at h only.
OneEntry(S, h, E) == \A e \in E : e[2] \in S /\ e[2] # h => e[1] \in S

\* The blocks frame f will branch to, and all it knows of: the first branch of an
\* if-else will be joined.
Targets(f) ==
  CASE f.kind = "ifTrue" -> {f.retBB}
    [] f.kind = "whileCond" -> {f.loopBB, f.retBB}
    [] OTHER -> {}
Mine(f) == Holds(f) \union (IF f.kind = "elseFalse" THEN {f.curTrueBB} ELSE {})

\* The loop of a while whose frame is f: its condition block and what was made
\* since, save the block that follows.
Loop(f) == f.kind \in {"whileCond", "whileBody"}
Body(f, n) == (f.conditionBB .. n) \ {f.retBB}

\* A branch may come from block x while f is on the stack.
Inside(f, n, x) == x \notin Targets(f) /\ (Loop(f) => x \in Body(f, n))

Within(fs, n, x) == \A i \in 1 .. Len(fs) : Inside(fs[i], n, x)

FrameLoops(E, C, n, b, f) ==
  /\ Inside(f, n, b)
  /\ \A e \in E : e[1] \notin Targets(f)
  /\ Loop(f) => /\ f.conditionBB \in C /\ f.conditionBB # Entry /\ f.retBB = f.conditionBB + 2
                /\ OneEntry(Body(f, n), f.conditionBB, E)
  /\ f.kind = "whileCond" => f.loopBB = f.conditionBB + 1

\* Frame u is above f.
Nested(f, u, n) ==
  /\ \A x \in Mine(u) : Inside(f, n, x)
  /\ Loop(u) => \A x \in Mine(f) : x < u.conditionBB

FramesLooped(E, C, n, b, fs) ==
  /\ \A i \in 1 .. Len(fs) : FrameLoops(E, C, n, b, fs[i])
  /\ \A i, j \in 1 .. Len(fs) : i < j => Nested(fs[i], fs[j], n)

\* A back branch e: its loop is entered at the condition, and no frame holds
\* another block of it.
Held(fs) == UNION {Holds(fs[i]) : i \in 1 .. Len(fs)}
Sealed(E, n, fs, e) ==
  \E S \in SUBSET (1 .. n) :
    /\ e[1] \in S /\ Entry \notin S /\ OneEntry(S, e[2], E)
    /\ \A x \in Held(fs) : x \in S => x = e[2]
Seals(E, C, n, fs) == \A e \in Back(E, C) : Sealed(E, n, fs, e)

Looped(E, C, n, b, fs) ==
  Sorted(E \ Back(E, C), n) /\ Seals(E, C, n, fs) /\ FramesLooped(E, C, n, b, fs)

LoopsInv == EdgesInv /\ Looped(Arcs(bbs), Conds(bbs, nb), nb, BB_, frames)

(***************************************************************************)
(* Edges in order.                                                         *)
(***************************************************************************)
\* An edge to a block that no edge leaves.
LEMMA SortedAdd ==
  ASSUME NEW n, NEW E, Sorted(E, n), NEW a, NEW d \in 1 .. n, a # d, \A e \in E : e[1] # d
  PROVE  Sorted(E \union {<<a, d>>}, n)
<1> DEFINE F == E \union {<<a, d>>}
<1>1. ASSUME NEW e \in F PROVE \E S \in SUBSET (1 .. n) : Closed(S, F) /\ e[2] \in S /\ e[1] \notin S
  <2>1. CASE e = <<a, d>>
    <3>1. Closed({d}, F)
      BY DEF Closed
    <3>. QED BY <2>1, <3>1
  <2>2. CASE e \in E
    <3>1. PICK S \in SUBSET (1 .. n) : Closed(S, E) /\ e[2] \in S /\ e[1] \notin S
      BY <2>2 DEF Sorted
    <3>2. Closed(S \union {d}, F)
      BY <3>1 DEF Closed
    <3>3. S \union {d} \in SUBSET (1 .. n) /\ e[2] \in S \union {d} /\ e[1] \notin S \union {d}
      BY <2>2, <3>1
    <3>. QED BY <3>2, <3>3
  <2>. QED BY <2>1, <2>2
<1>. QED BY <1>1 DEF Sorted

LEMMA SortedGrows ==
  ASSUME NEW n \in Nat, NEW m \in Nat, n <= m, NEW E, Sorted(E, n)
  PROVE  Sorted(E, m)
<1>1. SUBSET (1 .. n) \subseteq SUBSET (1 .. m)
  OBVIOUS
<1>. QED BY <1>1 DEF Sorted

\* Fewer edges.
LEMMA SortedLess ==
  ASSUME NEW n, NEW E, Sorted(E, n), NEW F \in SUBSET E
  PROVE  Sorted(F, n)
  BY DEF Sorted, Closed

\* Which edges go back is known when they are made.
LEMMA BackKept ==
  ASSUME NEW n, NEW E \in SUBSET ((1 .. n) \X (1 .. n)),
         NEW C, NEW D, \A x \in 1 .. n : x \in D <=> x \in C, NEW X
  PROVE  \A e : e \in Back(E \union X, D) <=> e \in Back(E, C) \/ e \in Back(X, D)
<1>1. \A e \in E : e[2] \in 1 .. n
  OBVIOUS
<1>. QED BY <1>1 DEF Back

\* New forward edges, the others kept.
LEMMA SortedKept ==
  ASSUME NEW n, NEW E \in SUBSET ((1 .. n) \X (1 .. n)),
         NEW C, NEW D, \A x \in 1 .. n : x \in D <=> x \in C, NEW X,
         NEW m, Sorted((E \ Back(E, C)) \union (X \ Back(X, D)), m)
  PROVE  Sorted((E \union X) \ Back(E \union X, D), m)
<1>1. \A e : e \in Back(E \union X, D) <=> e \in Back(E, C) \/ e \in Back(X, D)
  BY BackKept
<1>2. (E \union X) \ Back(E \union X, D) \in SUBSET ((E \ Back(E, C)) \union (X \ Back(X, D)))
  BY <1>1
<1>. QED BY <1>2, SortedLess

(***************************************************************************)
(* The call stack.                                                         *)
(***************************************************************************)
LEMMA TargetsHeld == \A f : Targets(f) \subseteq Holds(f) /\ Holds(f) \subseteq Mine(f)
  BY DEF Targets, Holds, Mine

LEMMA MineCreated ==
  ASSUME NEW n, NEW f, FrameOK(f, n)
  PROVE  Mine(f) \subseteq 1 .. n /\ Holds(f) \subseteq 1 .. n /\ Targets(f) \subseteq 1 .. n
  BY DEF FrameOK, Mine, Holds, Targets

\* What is inside stays inside; new blocks are.
LEMMA InsideGrows ==
  ASSUME NEW n \in Nat, NEW m \in Nat, n <= m, NEW f, FrameOK(f, n)
  PROVE  /\ \A x : Inside(f, n, x) => Inside(f, m, x)
         /\ \A x \in 1 .. m : x \notin 1 .. n => Inside(f, m, x)
<1>1. Targets(f) \subseteq 1 .. n
  BY MineCreated
<1>2. Loop(f) => f.conditionBB \in 1 .. n /\ f.retBB \in 1 .. n
  BY DEF Loop, FrameOK
<1>3. ASSUME NEW x, Inside(f, n, x) PROVE Inside(f, m, x)
  BY <1>2, <1>3 DEF Inside, Body
<1>4. ASSUME NEW x \in 1 .. m, x \notin 1 .. n PROVE Inside(f, m, x)
  BY <1>1, <1>2, <1>4 DEF Inside, Body
<1>. QED BY <1>3, <1>4

\* New edges from inside, the insertion point moves inside.
LEMMA FrameLoopsKept ==
  ASSUME NEW n \in Nat, NEW m \in Nat, n <= m, NEW f, FrameOK(f, n),
         NEW E \in SUBSET ((1 .. n) \X (1 .. n)),
         NEW C, NEW D, \A x \in 1 .. n : x \in D <=> x \in C, NEW b, NEW c,
         FrameLoops(E, C, n, b, f), NEW X,
         Inside(f, m, c), \A e \in X : Inside(f, m, e[1])
  PROVE  FrameLoops(E \union X, D, m, c, f)
<1>1. \A e \in E \union X : e[1] \notin Targets(f)
  BY DEF FrameLoops, Inside
<1>2. ASSUME Loop(f) PROVE OneEntry(Body(f, m), f.conditionBB, E \union X)
  <2>1. OneEntry(Body(f, n), f.conditionBB, E) /\ f.conditionBB \in 1 .. n /\ f.retBB \in 1 .. n
    BY <1>2 DEF FrameLoops, Loop, FrameOK
  <2>2. ASSUME NEW e \in E, e[2] \in Body(f, m), e[2] # f.conditionBB PROVE e[1] \in Body(f, m)
    <3>1. e[2] \in 1 .. n
      OBVIOUS
    <3>2. e[2] \in Body(f, n)
      BY <2>1, <2>2, <3>1 DEF Body
    <3>3. e[1] \in Body(f, n)
      BY <2>1, <2>2, <3>2 DEF OneEntry
    <3>. QED BY <2>1, <3>3 DEF Body
  <2>3. \A e \in X : e[1] \in Body(f, m)
    BY <1>2 DEF Inside
  <2>. QED BY <2>2, <2>3 DEF OneEntry
<1>3. Loop(f) => f.conditionBB \in D
  BY DEF FrameLoops, Loop, FrameOK
<1>. QED BY <1>1, <1>2, <1>3 DEF FrameLoops

LEMMA NestedGrows ==
  ASSUME NEW n \in Nat, NEW m \in Nat, n <= m, NEW f, FrameOK(f, n), NEW u, Nested(f, u, n)
  PROVE  Nested(f, u, m)
  BY InsideGrows DEF Nested

LEMMA FramesLoopedKept ==
  ASSUME NEW n \in Nat, NEW m \in Nat, n <= m, NEW fs, NEW p, FramesOK(fs, p, n),
         NEW E \in SUBSET ((1 .. n) \X (1 .. n)),
         NEW C, NEW D, \A x \in 1 .. n : x \in D <=> x \in C, NEW b, NEW c,
         FramesLooped(E, C, n, b, fs), NEW X,
         Within(fs, m, c), \A e \in X : Within(fs, m, e[1])
  PROVE  FramesLooped(E \union X, D, m, c, fs)
<1>1. \A i \in 1 .. Len(fs) : FrameOK(fs[i], n)
  BY DEF FramesOK
<1>2. ASSUME NEW i \in 1 .. Len(fs) PROVE FrameLoops(E \union X, D, m, c, fs[i])
  <2>1. FrameLoops(E, C, n, b, fs[i])
    BY DEF FramesLooped
  <2>2. Inside(fs[i], m, c) /\ \A e \in X : Inside(fs[i], m, e[1])
    BY DEF Within
  <2>. QED BY <1>1, <2>1, <2>2, FrameLoopsKept
<1>3. ASSUME NEW i \in 1 .. Len(fs), NEW j \in 1 .. Len(fs), i < j PROVE Nested(fs[i], fs[j], m)
  <2>1. Nested(fs[i], fs[j], n)
    BY <1>3 DEF FramesLooped
  <2>. QED BY <1>1, <2>1, NestedGrows
<1>. QED BY <1>2, <1>3 DEF FramesLooped

\* The innermost frame and those below.
LEMMA FramesLoopedFront ==
  ASSUME NEW fs \in Seq(FrameRecord), fs # <<>>, NEW E, NEW C, NEW n, NEW b, FramesLooped(E, C, n, b, fs)
  PROVE  /\ FramesLooped(E, C, n, b, Front(fs)) /\ FrameLoops(E, C, n, b, Last(fs))
         /\ \A i \in 1 .. Len(Front(fs)) : Nested(Front(fs)[i], Last(fs), n)
         /\ Held(Front(fs)) \subseteq Held(fs) /\ Holds(Last(fs)) \subseteq Held(fs)
<1> DEFINE t == Front(fs)
<1>1. /\ Len(fs) \in Nat \ {0} /\ Len(t) = Len(fs) - 1 /\ Len(fs) \in 1 .. Len(fs)
      /\ \A i \in 1 .. Len(t) : t[i] = fs[i] /\ i \in 1 .. Len(fs) /\ i < Len(fs)
      /\ Last(fs) = fs[Len(fs)]
  BY FrontOf
<1>. HIDE DEF t
<1>2. FramesLooped(E, C, n, b, t) /\ FrameLoops(E, C, n, b, Last(fs))
  BY <1>1 DEF FramesLooped
<1>3. \A i \in 1 .. Len(t) : Nested(t[i], Last(fs), n)
  BY <1>1 DEF FramesLooped
<1>4. Held(t) \subseteq Held(fs) /\ Holds(Last(fs)) \subseteq Held(fs)
  BY <1>1 DEF Held
<1>. QED BY <1>2, <1>3, <1>4 DEF t

\* A frame on top.
LEMMA FramesLoopedOnto ==
  ASSUME NEW fs \in Seq(FrameRecord), NEW f \in FrameRecord, NEW E, NEW C, NEW n, NEW b,
         FramesLooped(E, C, n, b, fs), FrameLoops(E, C, n, b, f),
         \A i \in 1 .. Len(fs) : Nested(fs[i], f, n)
  PROVE  FramesLooped(E, C, n, b, Append(fs, f)) /\ Held(Append(fs, f)) = Held(fs) \union Holds(f)
<1> DEFINE t == Append(fs, f)
<1>1. /\ Len(fs) \in Nat /\ Len(t) = Len(fs) + 1 /\ t[Len(t)] = f
      /\ \A i \in 1 .. Len(fs) : t[i] = fs[i] /\ i \in 1 .. Len(t)
      /\ \A i \in 1 .. Len(t) : i \in 1 .. Len(fs) \/ i = Len(t)
      /\ Len(t) \in 1 .. Len(t)
  OBVIOUS
<1>. HIDE DEF t
<1>2. \A i \in 1 .. Len(t) : FrameLoops(E, C, n, b, t[i])
  BY <1>1 DEF FramesLooped
<1>3. ASSUME NEW i \in 1 .. Len(t), NEW j \in 1 .. Len(t), i < j PROVE Nested(t[i], t[j], n)
  <2>1. i \in 1 .. Len(fs) /\ t[i] = fs[i]
    BY <1>1, <1>3
  <2>2. CASE j = Len(t)
    BY <1>1, <2>1, <2>2
  <2>3. CASE j \in 1 .. Len(fs)
    BY <1>1, <1>3, <2>1, <2>3 DEF FramesLooped
  <2>. QED BY <1>1, <2>2, <2>3
<1>4. Held(t) = Held(fs) \union Holds(f)
  BY <1>1 DEF Held
<1>5. FramesLooped(E, C, n, b, t)
  BY <1>2, <1>3 DEF FramesLooped
<1>. QED BY <1>4, <1>5 DEF t

\* New edges lead to new blocks or to blocks that a frame holds; the frames hold
\* what they held, or new blocks.
LEMMA SealsKept ==
  ASSUME NEW n \in Nat, NEW m \in Nat, n <= m, NEW fs, NEW gs,
         NEW E \in SUBSET ((1 .. n) \X (1 .. n)), NEW C, NEW D, \A x \in 1 .. n : x \in D <=> x \in C,
         Seals(E, C, n, fs), NEW X, \A e \in X : e[2] \notin 1 .. n \/ e[2] \in Held(fs),
         \A x \in Held(gs) : x \notin 1 .. n \/ x \in Held(fs),
         \A e \in Back(X, D) : Sealed(E \union X, m, gs, e)
  PROVE  Seals(E \union X, D, m, gs)
<1>1. ASSUME NEW e \in Back(E, C) PROVE Sealed(E \union X, m, gs, e)
  <2>1. PICK S \in SUBSET (1 .. n) : /\ e[1] \in S /\ Entry \notin S /\ OneEntry(S, e[2], E)
                                     /\ \A x \in Held(fs) : x \in S => x = e[2]
    BY DEF Seals, Sealed
  <2>2. OneEntry(S, e[2], E \union X)
    BY <2>1 DEF OneEntry
  <2>3. S \in SUBSET (1 .. m)
    OBVIOUS
  <2>4. ASSUME NEW x \in Held(gs), x \in S PROVE x = e[2]
    <3>1. x \in Held(fs)
      BY <2>4
    <3>. QED BY <2>1, <2>4, <3>1
  <2>. QED BY <2>1, <2>2, <2>3, <2>4 DEF Sealed
<1>2. ASSUME NEW e \in Back(E \union X, D) PROVE e \in Back(E, C) \/ e \in Back(X, D)
  <2>1. \A d \in E : d[2] \in 1 .. n
    OBVIOUS
  <2>. QED BY <1>2, <2>1 DEF Back
<1>. QED BY <1>1, <1>2 DEF Seals

(***************************************************************************)
(* The edges of the function.                                              *)
(***************************************************************************)
LEMMA ArcsInside ==
  ASSUME NEW g \in Graph, NEW n \in Nat, Lists(g, n), 1 .. n \subseteq Blocks
  PROVE  Arcs(g) \in SUBSET ((1 .. n) \X (1 .. n)) /\ Arcs(g) = EdgesOf(g, n)
<1>1. ASSUME NEW a \in Blocks, NEW d \in Blocks, d \in Succs(g, a) PROVE a \in 1 .. n /\ d \in 1 .. n
  <2>1. a \in Range(g[d].pre)
    BY <1>1 DEF Lists, Succs
  <2>2. a \in 1 .. n
    BY <2>1, PredsCreated
  <2>3. g[d].pre # <<>>
    BY <2>1, EmptyList
  <2>. QED BY <2>2, <2>3, BoundsAssumption DEF Lists, Blocks
<1>. QED BY <1>1 DEF Arcs, EdgesOf

LEMMA SameArcs ==
  ASSUME NEW g, NEW h, SameLists(g, h)
  PROVE  Arcs(h) = Arcs(g) /\ \A x \in Blocks : h[x].label = g[x].label
  BY DEF Arcs, SameLists, Succs

LEMMA LinkedArcs ==
  ASSUME NEW g \in Graph, NEW h, NEW a \in Blocks, NEW b \in Blocks, Linked(g, h, a, b)
  PROVE  Arcs(h) = Arcs(g) \union {<<a, b>>} /\ \A x \in Blocks : h[x].label = g[x].label
<1>1. Succs(h, a) = Succs(g, a) \union {b}
  <2>1. g[a].succ \in Seq(Blocks) /\ h[a].succ = Append(g[a].succ, b)
    BY BlockTypes DEF Linked
  <2>2. \A k : k[a].succ = Append(g[a].succ, b) => Succs(k, a) = Succs(g, a) \union {b}
    BY <2>1, SuccsOfAppend
  <2>. QED BY <2>1, <2>2
<1>2. \A x \in Blocks \ {a} : Succs(h, x) = Succs(g, x)
  BY DEF Linked, Succs
<1>3. Arcs(h) = Arcs(g) \union {<<a, b>>}
  BY <1>1, <1>2 DEF Arcs
<1>. QED BY <1>3 DEF Linked

\* h is g with a block that has a label and no edge yet.
Unconnected(g, h, b, name) ==
  /\ Arcs(h) = Arcs(g) /\ h[b].label = name
  /\ \A x \in Blocks \ {b} : h[x].label = g[x].label /\ h[x].succ = g[x].succ

LEMMA AddedArcs ==
  ASSUME NEW g \in Graph, NEW h, NEW b \in Blocks, NEW name, g[b].succ = <<>>, Added(g, h, b, name)
  PROVE  Unconnected(g, h, b, name)
<1>1. \A x \in Blocks : h[x].succ = g[x].succ
  BY DEF Added
<1>2. \A x \in Blocks : Succs(h, x) = Succs(g, x)
  BY <1>1 DEF Succs
<1>. QED BY <1>2 DEF Added, Arcs, Unconnected

\* A conditional branch that makes its two targets.
LEMMA TwoWayArcs ==
  ASSUME NEW g \in Graph, NEW n \in Nat, n + 2 <= MaxBlocks, NEW b \in 1 .. n, Lists(g, n),
         NEW name1 \in Labels, NEW name2 \in Labels,
         NEW h, h = TwoWay(g, n, b, name1, name2)
  PROVE  h \in Graph /\ Arcs(h) = Arcs(g) \union {<<b, n + 1>>, <<b, n + 2>>}
<1> DEFINE t == n + 1
           f == n + 2
           g0 == Emit(g, b, "op")
           g1 == Create(g0, t, name1)
           g2 == Create(g1, f, name2)
<1>1. t \in Blocks /\ f \in Blocks /\ b \in Blocks /\ t # f /\ t > n /\ f > n
  BY BoundsAssumption DEF Blocks
<1>2. h = CreateCondBr(g2, b, t, f)
  BY DEF TwoWay
<1>. HIDE DEF t, f
<1>3. g0 \in Graph /\ SameLists(g, g0)
  BY <1>1, EmitLists
<1>. HIDE DEF g0
<1>4. g0[t].succ = <<>> /\ g0[f].succ = <<>> /\ Arcs(g0) = Arcs(g)
  BY <1>1, <1>3, SameArcs DEF SameLists, Lists
<1>5. g1 \in Graph /\ Added(g0, g1, t, name1)
  BY <1>1, <1>3, CreateLists
<1>. HIDE DEF g1
<1>6. Arcs(g1) = Arcs(g) /\ g1[f].succ = <<>>
  <2>1. g0 \in Graph /\ t \in Blocks /\ g0[t].succ = <<>> /\ Added(g0, g1, t, name1)
    BY <1>1, <1>3, <1>4, <1>5
  <2>2. Unconnected(g0, g1, t, name1)
    BY <2>1, AddedArcs
  <2>. QED BY <1>1, <1>4, <2>2 DEF Unconnected
<1>7. g2 \in Graph /\ Added(g1, g2, f, name2)
  BY <1>1, <1>5, CreateLists
<1>. HIDE DEF g2
<1>8. Arcs(g2) = Arcs(g)
  BY <1>1, <1>5, <1>6, <1>7, AddedArcs DEF Unconnected
<1>9. h \in Graph /\ \E e \in Graph : Linked(g2, e, b, f) /\ Linked(e, h, b, t)
  BY <1>1, <1>2, <1>7, CreateCondBrLinks
<1>10. PICK e \in Graph : Linked(g2, e, b, f) /\ Linked(e, h, b, t)
  BY <1>9
<1>11. Arcs(e) = Arcs(g) \union {<<b, f>>}
  BY <1>1, <1>7, <1>8, <1>10, LinkedArcs
<1>12. Arcs(h) = Arcs(e) \union {<<b, t>>}
  BY <1>1, <1>10, LinkedArcs
<1>. QED BY <1>9, <1>11, <1>12 DEF t, f

(***************************************************************************)
(* Steps.                                                                  *)
(***************************************************************************)
\* The insertion point and new blocks are within the stack.
LEMMA WithinStack ==
  ASSUME NEW n \in Nat, NEW m \in Nat, n <= m, NEW fs, NEW p, FramesOK(fs, p, n),
         NEW E, NEW C, NEW b, FramesLooped(E, C, n, b, fs)
  PROVE  Within(fs, m, b) /\ \A x \in 1 .. m : x \notin 1 .. n => Within(fs, m, x)
<1>1. ASSUME NEW i \in 1 .. Len(fs)
      PROVE  Inside(fs[i], m, b) /\ \A x \in 1 .. m : x \notin 1 .. n => Inside(fs[i], m, x)
  <2>1. FrameOK(fs[i], n) /\ Inside(fs[i], n, b)
    BY DEF FramesOK, FramesLooped, FrameLoops
  <2>. QED BY <2>1, InsideGrows
<1>. QED BY <1>1 DEF Within

\* What the innermost frame knows is within those below.
LEMMA WithinRest ==
  ASSUME NEW n \in Nat, NEW m \in Nat, n <= m, NEW fs, NEW p, FramesOK(fs, p, n),
         NEW f, \A i \in 1 .. Len(fs) : Nested(fs[i], f, n)
  PROVE  \A x \in Mine(f) : Within(fs, m, x)
<1>1. ASSUME NEW i \in 1 .. Len(fs), NEW x \in Mine(f) PROVE Inside(fs[i], m, x)
  <2>1. FrameOK(fs[i], n) /\ Inside(fs[i], n, x)
    BY DEF FramesOK, Nested
  <2>. QED BY <2>1, InsideGrows
<1>. QED BY <1>1 DEF Within

LEMMA LoopedStep ==
  ASSUME NEW n \in Nat, NEW m \in Nat, n <= m, NEW E \in SUBSET ((1 .. n) \X (1 .. n)),
         NEW C, NEW D, \A x \in 1 .. n : x \in D <=> x \in C, NEW b, NEW c, NEW fs, NEW gs, NEW X,
         Looped(E, C, n, b, fs), FramesLooped(E \union X, D, m, c, gs),
         Sorted((E \ Back(E, C)) \union (X \ Back(X, D)), m),
         \A e \in X : e[2] \notin 1 .. n \/ e[2] \in Held(fs),
         \A x \in Held(gs) : x \notin 1 .. n \/ x \in Held(fs),
         \A e \in Back(X, D) : Sealed(E \union X, m, gs, e)
  PROVE  Looped(E \union X, D, m, c, gs)
<1>1. Seals(E, C, n, fs)
  BY DEF Looped
<1>2. Seals(E \union X, D, m, gs)
  BY <1>1, SealsKept
<1>3. Sorted((E \union X) \ Back(E \union X, D), m)
  BY SortedKept
<1>. QED BY <1>2, <1>3 DEF Looped

\* Forward edges to blocks that no edge leaves, from elsewhere.
LEMMA SortedTwo ==
  ASSUME NEW n \in Nat, NEW m \in Nat, n <= m, NEW E, Sorted(E, n),
         NEW a, NEW b, NEW x \in 1 .. m, NEW y \in 1 .. m, a # x, b # y, a # y,
         \A e \in E : e[1] # x /\ e[1] # y
  PROVE  Sorted(E \union {<<a, x>>, <<b, y>>}, m)
<1>1. Sorted(E \union {<<a, x>>}, m)
  BY SortedGrows, SortedAdd
<1>2. \A e \in E \union {<<a, x>>} : e[1] # y
  OBVIOUS
<1>3. Sorted((E \union {<<a, x>>}) \union {<<b, y>>}, m)
  BY <1>1, <1>2, SortedAdd
<1>4. (E \union {<<a, x>>}) \union {<<b, y>>} = E \union {<<a, x>>, <<b, y>>}
  OBVIOUS
<1>. QED BY <1>3, <1>4

\* Some of the edges only.
LEMMA SortedUnion ==
  ASSUME NEW n, NEW E, NEW B, NEW X, NEW Z, Sorted((E \ B) \union X, n)
  PROVE  Sorted((E \ B) \union (X \ Z), n)
<1>1. (E \ B) \union (X \ Z) \in SUBSET ((E \ B) \union X)
  OBVIOUS
<1>. QED BY <1>1, SortedLess

\* No edge is made, the frames hold no more.
LEMMA SealsFewer ==
  ASSUME NEW E, NEW C, NEW n, NEW fs, Seals(E, C, n, fs), NEW gs, Held(gs) \subseteq Held(fs)
  PROVE  Seals(E, C, n, gs)
<1> SUFFICES ASSUME NEW e \in Back(E, C) PROVE Sealed(E, n, gs, e)
  BY DEF Seals
<1>1. PICK S \in SUBSET (1 .. n) : /\ e[1] \in S /\ Entry \notin S /\ OneEntry(S, e[2], E)
                                   /\ \A x \in Held(fs) : x \in S => x = e[2]
  BY DEF Seals, Sealed
<1>2. \A x \in Held(gs) : x \in S => x = e[2]
  BY <1>1
<1>. QED BY <1>1, <1>2 DEF Sealed

\* Blocks keep their labels.
LEMMA CondsKept ==
  ASSUME NEW n \in Nat, NEW m \in Nat, n <= m, NEW g, NEW h, \A x \in 1 .. n : h[x].label = g[x].label
  PROVE  \A x \in 1 .. n : x \in Conds(h, m) <=> x \in Conds(g, n)
  BY DEF Conds

(***************************************************************************)
(* Each action preserves Looped.                                           *)
(***************************************************************************)
LoopedNow == Looped(Arcs(bbs), Conds(bbs, nb), nb, BB_, frames)
NextLooped == Looped(Arcs(bbs'), Conds(bbs', nb'), nb', BB_', frames')

\* What the action lemmas use of the invariants.
LEMMA LoopTypes ==
  ASSUME Good(bbs, nb, BB_, frames, pc), Edged, LoopedNow
  PROVE  /\ Arcs(bbs) \in SUBSET ((1 .. nb) \X (1 .. nb))
         /\ FramesLooped(Arcs(bbs), Conds(bbs, nb), nb, BB_, frames)
         /\ Sorted(Arcs(bbs) \ Back(Arcs(bbs), Conds(bbs, nb)), nb)
<1>1. Arcs(bbs) \in SUBSET ((1 .. nb) \X (1 .. nb))
  BY EdgeTypes, ArcsInside DEF Edged
<1>. QED BY <1>1 DEF LoopedNow, Looped

\* The innermost frame and those below it.
LEMMA BelowLooped ==
  ASSUME Good(bbs, nb, BB_, frames, pc), Edged, LoopedNow, frames # <<>>
  PROVE  /\ FramesLooped(Arcs(bbs), Conds(bbs, nb), nb, BB_, Front(frames))
         /\ FrameLoops(Arcs(bbs), Conds(bbs, nb), nb, BB_, Last(frames))
         /\ \A i \in 1 .. Len(Front(frames)) : Nested(Front(frames)[i], Last(frames), nb)
         /\ Held(Front(frames)) \subseteq Held(frames) /\ Holds(Last(frames)) \subseteq Held(frames)
         /\ \A m \in Nat : nb <= m =>
              /\ Within(Front(frames), m, BB_)
              /\ \A x \in 1 .. m : x \notin 1 .. nb => Within(Front(frames), m, x)
              /\ \A x \in Mine(Last(frames)) : Within(Front(frames), m, x)
<1> DEFINE t == Front(frames)
           f == Last(frames)
           E == Arcs(bbs)
           C == Conds(bbs, nb)
<1>1. /\ FramesLooped(E, C, nb, BB_, t) /\ FrameLoops(E, C, nb, BB_, f)
      /\ \A i \in 1 .. Len(t) : Nested(t[i], f, nb)
      /\ Held(t) \subseteq Held(frames) /\ Holds(f) \subseteq Held(frames)
  BY LoopTypes, EdgeTypes, FramesLoopedFront
<1>2. FramesOK(t, "stmt", nb) /\ nb \in Nat
  BY Below, EdgeTypes
<1>. HIDE DEF t, f, E, C
<1>3. ASSUME NEW m \in Nat, nb <= m
      PROVE  /\ Within(t, m, BB_)
             /\ \A x \in 1 .. m : x \notin 1 .. nb => Within(t, m, x)
             /\ \A x \in Mine(f) : Within(t, m, x)
  <2>1. Within(t, m, BB_) /\ \A x \in 1 .. m : x \notin 1 .. nb => Within(t, m, x)
    BY <1>1, <1>2, <1>3, WithinStack
  <2>2. \A x \in Mine(f) : Within(t, m, x)
    BY <1>1, <1>2, <1>3, WithinRest
  <2>. QED BY <2>1, <2>2
<1>. QED BY <1>1, <1>3 DEF t, f, E, C

\* No block and no edge; the frames are left alone, popped, or get one that holds
\* nothing.
LEMMA PlainFramesLooped ==
  ASSUME Good(bbs, nb, BB_, frames, pc), Edged, LoopedNow, nb' = nb, BB_' = BB_,
         SameLists(bbs, bbs'),
         \/ frames' = frames
         \/ frames # <<>> /\ frames' = Front(frames)
         \/ \E kind \in {"list", "exprStmt", "ifCond", "ifElseCond", "return"} :
              frames' = Append(frames, Frame(kind))
  PROVE  NextLooped
<1>1. Arcs(bbs') = Arcs(bbs) /\ \A x \in Blocks : bbs'[x].label = bbs[x].label
  BY SameArcs
<1>2. Conds(bbs', nb) = Conds(bbs, nb)
  BY <1>1, EdgeTypes DEF Conds
<1> DEFINE E == Arcs(bbs)
           C == Conds(bbs, nb)
<1>3. Looped(E, C, nb, BB_, frames) /\ (NextLooped <=> Looped(E, C, nb, BB_, frames'))
  BY <1>1, <1>2 DEF LoopedNow, NextLooped
<1>. HIDE DEF E, C
<1>4. CASE frames # <<>> /\ frames' = Front(frames)
  <2>1. FramesLooped(E, C, nb, BB_, Front(frames)) /\ Held(Front(frames)) \subseteq Held(frames)
    BY <1>4, BelowLooped DEF E, C
  <2>2. Seals(E, C, nb, Front(frames))
    BY <1>3, <2>1, SealsFewer DEF Looped
  <2>. QED BY <1>3, <1>4, <2>1, <2>2 DEF Looped
<1>5. CASE \E kind \in {"list", "exprStmt", "ifCond", "ifElseCond", "return"} :
             frames' = Append(frames, Frame(kind))
  <2>1. PICK kind \in {"list", "exprStmt", "ifCond", "ifElseCond", "return"} :
          frames' = Append(frames, Frame(kind))
    BY <1>5
  <2> DEFINE f == Frame(kind)
  <2>2. f \in FrameRecord /\ f.kind = kind
    BY DEF Frame, FrameRecord, FrameKinds, MaybeBB
  <2>. HIDE DEF f
  <2>3. Holds(f) = {} /\ Mine(f) = {} /\ Targets(f) = {} /\ ~Loop(f) /\ f.kind # "whileCond"
    BY <2>2 DEF Holds, Mine, Targets, Loop
  <2>4. FrameLoops(E, C, nb, BB_, f) /\ \A i \in 1 .. Len(frames) : Nested(frames[i], f, nb)
    BY <2>3 DEF FrameLoops, Inside, Nested
  <2>5. frames \in Seq(FrameRecord) /\ FramesLooped(E, C, nb, BB_, frames)
    BY <1>3, EdgeTypes DEF Looped
  <2>6. /\ FramesLooped(E, C, nb, BB_, Append(frames, f))
        /\ Held(Append(frames, f)) = Held(frames) \union Holds(f)
    BY <2>2, <2>4, <2>5, FramesLoopedOnto
  <2>7. frames' = Append(frames, f) /\ Held(frames') \subseteq Held(frames)
    BY <2>1, <2>3, <2>6 DEF f
  <2>8. Seals(E, C, nb, frames')
    BY <1>3, <2>7, SealsFewer DEF Looped
  <2>. QED BY <1>3, <2>6, <2>7, <2>8 DEF Looped
<1>. QED BY <1>3, <1>4, <1>5

LEMMA PlainStepsLooped ==
  ASSUME Good(bbs, nb, BB_, frames, pc), Edged, LoopedNow,
         \/ VisitEmpty \/ VisitExpressionStmt \/ VisitCompoundStmt
         \/ VisitSelectionStmt \/ VisitReturnStmt
         \/ FinishExpressionStmt \/ FinishReturn
         \/ NextStatement \/ EndCompoundStmt \/ FinishFunction
  PROVE  NextLooped
  BY PlainSteps, PlainFramesLooped

\* A conditional branch to two new blocks, of which the first is entered; frame f
\* replaces the innermost one.
LEMMA TwoWayLooped ==
  ASSUME Good(bbs, nb, BB_, frames, pc), Edged, LoopedNow, frames # <<>>, nb + 2 <= MaxBlocks,
         NEW name1 \in Labels, NEW name2 \in Labels, name1 # "condition", name2 # "condition",
         bbs' = TwoWay(bbs, nb, BB_, name1, name2), nb' = nb + 2, BB_' = nb + 1,
         NEW f \in FrameRecord, frames' = Append(Front(frames), f),
         ~Loop(f), Targets(f) \subseteq {nb + 2}, Mine(f) = {nb + 2}
  PROVE  NextLooped
<1> DEFINE E == Arcs(bbs)
           C == Conds(bbs, nb)
           D == Conds(bbs', nb')
           t == Front(frames)
           x == nb + 1
           y == nb + 2
           X == {<<BB_, x>>, <<BB_, y>>}
<1>1. /\ nb \in Nat /\ BB_ \in 1 .. nb /\ bbs \in Graph /\ Lists(bbs, nb)
      /\ E \in SUBSET ((1 .. nb) \X (1 .. nb)) /\ Sorted(E \ Back(E, C), nb)
      /\ t \in Seq(FrameRecord) /\ FramesOK(t, "stmt", nb)
  BY EdgeTypes, LoopTypes, Below DEF Edged
<1>2. /\ x \in 1 .. y /\ y \in 1 .. y /\ y \in Nat /\ nb <= y
      /\ x \notin 1 .. nb /\ y \notin 1 .. nb /\ x # y /\ BB_ # x /\ BB_ # y
  BY <1>1
<1>3. Arcs(bbs') = E \union X
  <2>1. Arcs(bbs') = E \union {<<BB_, x>>, <<BB_, y>>}
    BY <1>1, TwoWayArcs
  <2>. QED BY <2>1
<1>4. /\ \A z \in 1 .. nb : z \in D <=> z \in C
      /\ x \notin D /\ y \notin D
  <2>1. /\ \A z \in 1 .. nb : bbs'[z].label = bbs[z].label
        /\ bbs'[x].label = name1 /\ bbs'[y].label = name2
    BY <1>1, TwoWayLists
  <2>2. \A z \in 1 .. nb : z \in Conds(bbs', y) <=> z \in Conds(bbs, nb)
    BY <1>1, <2>1 DEF Conds
  <2>. QED BY <2>1, <2>2 DEF Conds
<1>5. /\ FramesLooped(E, C, nb, BB_, t) /\ Held(t) \subseteq Held(frames)
      /\ Within(t, y, BB_) /\ Within(t, y, x) /\ Within(t, y, y)
  BY <1>1, <1>2, BelowLooped
<1>6. NextLooped <=> Looped(E \union X, D, y, x, Append(t, f))
  BY <1>3 DEF NextLooped
<1>7. Looped(E, C, nb, BB_, frames)
  BY DEF LoopedNow
<1>8. Holds(f) \subseteq {y} /\ Mine(f) = {y} /\ Targets(f) \subseteq {y}
  BY TargetsHeld
<1>. HIDE DEF E, C, D, t, x, y
<1>9. FrameLoops(E \union X, D, y, x, f)
  <2>1. \A e \in E \union X : e[1] \in 1 .. nb
    BY <1>1
  <2>2. f.kind # "whileCond"
    BY DEF Loop
  <2>. QED BY <1>2, <1>8, <2>1, <2>2 DEF FrameLoops, Inside
<1>10. \A i \in 1 .. Len(t) : Nested(t[i], f, y)
  BY <1>5, <1>8 DEF Nested, Within
<1>11. \A e \in X : Within(t, y, e[1])
  BY <1>5
<1>12. FramesLooped(E \union X, D, y, x, Append(t, f)) /\ Held(Append(t, f)) = Held(t) \union Holds(f)
  <2>. HIDE DEF X
  <2>1. nb \in Nat /\ y \in Nat /\ nb <= y /\ t \in Seq(FrameRecord) /\ FramesOK(t, "stmt", nb)
    BY <1>1, <1>2
  <2>2. E \in SUBSET ((1 .. nb) \X (1 .. nb)) /\ FramesLooped(E, C, nb, BB_, t)
    BY <1>1, <1>5
  <2>3. (\A z \in 1 .. nb : z \in D <=> z \in C) /\ Within(t, y, x)
    BY <1>4, <1>5
  <2>4. FramesLooped(E \union X, D, y, x, t)
    BY <1>11, <2>1, <2>2, <2>3, FramesLoopedKept
  <2>. QED BY <1>9, <1>10, <2>1, <2>4, FramesLoopedOnto
<1>13. Back(X, D) = {}
  BY <1>4 DEF Back
<1>14. Sorted((E \ Back(E, C)) \union (X \ Back(X, D)), y)
  <2>1. \A e \in E \ Back(E, C) : e[1] # x /\ e[1] # y
    BY <1>1, <1>2
  <2>2. Sorted((E \ Back(E, C)) \union X, y)
    BY <1>1, <1>2, <2>1, SortedTwo
  <2>. QED BY <1>13, <2>2
<1>15. \A e \in X : e[2] \notin 1 .. nb \/ e[2] \in Held(frames)
  BY <1>2
<1>16. \A z \in Held(Append(t, f)) : z \notin 1 .. nb \/ z \in Held(frames)
  BY <1>2, <1>5, <1>8, <1>12
<1>17. \A e \in Back(X, D) : Sealed(E \union X, y, Append(t, f), e)
  BY <1>13
<1>. HIDE DEF X
<1>18. Looped(E \union X, D, y, x, Append(t, f))
  BY <1>1, <1>2, <1>4, <1>7, <1>12, <1>14, <1>15, <1>16, <1>17, LoopedStep
<1>. QED BY <1>6, <1>18

LEMMA BranchIfLooped ==
  ASSUME Good(bbs, nb, BB_, frames, pc), Edged, LoopedNow, BranchIf
  PROVE  NextLooped
<1> DEFINE f == [Frame("ifTrue") EXCEPT !.retBB = nb + 2]
<1>1. /\ nb + 2 <= MaxBlocks /\ nb' = nb + 2 /\ BB_' = nb + 1 /\ frames' = Append(Front(frames), f)
      /\ frames # <<>> /\ bbs' = TwoWay(bbs, nb, BB_, "true", "ret")
  BY DEF BranchIf, ExprVisited, Top, Replace, Good, TwoWay
<1>2. nb + 2 \in Blocks
  BY <1>1, EdgeTypes DEF Blocks
<1>3. f \in FrameRecord /\ f.kind = "ifTrue" /\ f.retBB = nb + 2
  BY <1>2 DEF Frame, FrameRecord, MaybeBB, FrameKinds
<1>. HIDE DEF f
<1>4. ~Loop(f) /\ Targets(f) = {nb + 2} /\ Mine(f) = {nb + 2}
  BY <1>3 DEF Loop, Targets, Mine, Holds
<1>5. "true" \in Labels /\ "ret" \in Labels
  BY DEF Labels, FixedLabels
<1>. QED BY <1>1, <1>3, <1>4, <1>5, TwoWayLooped

LEMMA BranchIfElseLooped ==
  ASSUME Good(bbs, nb, BB_, frames, pc), Edged, LoopedNow, BranchIfElse
  PROVE  NextLooped
<1> DEFINE f == [Frame("elseTrue") EXCEPT !.falseBB = nb + 2]
<1>1. /\ nb + 2 <= MaxBlocks /\ nb' = nb + 2 /\ BB_' = nb + 1 /\ frames' = Append(Front(frames), f)
      /\ frames # <<>> /\ bbs' = TwoWay(bbs, nb, BB_, "true", "false")
  BY DEF BranchIfElse, ExprVisited, Top, Replace, Good, TwoWay
<1>2. nb + 2 \in Blocks
  BY <1>1, EdgeTypes DEF Blocks
<1>3. f \in FrameRecord /\ f.kind = "elseTrue" /\ f.falseBB = nb + 2
  BY <1>2 DEF Frame, FrameRecord, MaybeBB, FrameKinds
<1>. HIDE DEF f
<1>4. ~Loop(f) /\ Targets(f) = {} /\ Mine(f) = {nb + 2}
  BY <1>3 DEF Loop, Targets, Mine, Holds
<1>5. "true" \in Labels /\ "false" \in Labels
  BY DEF Labels, FixedLabels
<1>. QED BY <1>1, <1>3, <1>4, <1>5, TwoWayLooped

\* The index test of an array access.
LEMMA VisitVarIndexedLooped ==
  ASSUME Good(bbs, nb, BB_, frames, pc), Edged, LoopedNow, VisitVarIndexed
  PROVE  NextLooped
<1>0. PICK failName \in Labels, passName \in Labels : IndexTested(failName, passName)
  BY IndexTest
<1>n. failName # "condition" /\ passName # "condition"
  BY <1>0 DEF IndexTested
<1> DEFINE E == Arcs(bbs)
           C == Conds(bbs, nb)
           D == Conds(bbs', nb')
           fail == nb + 1
           pass == nb + 2
           X == {<<BB_, fail>>, <<BB_, pass>>, <<fail, pass>>}
           tested == TwoWay(bbs, nb, BB_, failName, passName)
           called == Emit(tested, fail, "op")
           failed == CreateBr(called, fail, pass)
<1>1. /\ nb + 2 <= MaxBlocks /\ nb' = pass /\ BB_' = pass
      /\ frames' = frames /\ bbs' = Emit(failed, pass, "op")
  BY <1>0 DEF IndexTested
<1>2. /\ nb \in Nat /\ BB_ \in 1 .. nb /\ bbs \in Graph /\ Lists(bbs, nb)
      /\ E \in SUBSET ((1 .. nb) \X (1 .. nb)) /\ Sorted(E \ Back(E, C), nb)
      /\ frames \in Seq(FrameRecord) /\ FramesOK(frames, pc, nb)
      /\ FramesLooped(E, C, nb, BB_, frames)
  BY EdgeTypes, LoopTypes DEF Edged
<1>3. /\ fail \in Blocks /\ pass \in Blocks /\ fail \in 1 .. pass /\ pass \in 1 .. pass
      /\ pass \in Nat /\ nb <= pass /\ fail # pass /\ BB_ # fail /\ BB_ # pass
      /\ fail \notin 1 .. nb /\ pass \notin 1 .. nb
      /\ \A z \in 1 .. nb : z \in Blocks /\ z # pass
  BY <1>1, <1>2, EdgeTypes, BoundsAssumption DEF Blocks
<1>4. /\ tested \in Graph /\ Arcs(tested) = E \union {<<BB_, fail>>, <<BB_, pass>>}
      /\ \A z \in 1 .. nb : tested[z].label = bbs[z].label
      /\ tested[fail].label = failName /\ tested[pass].label = passName
  <2>1. failName \in Labels /\ passName \in Labels
    OBVIOUS
  <2>2. tested = TwoWay(bbs, nb, BB_, failName, passName) /\ nb + 2 <= MaxBlocks
    BY <1>1
  <2>3. failName # "condition" /\ passName # "condition"
    BY <1>0 DEF IndexTested
  <2>. HIDE DEF tested
  <2>4. tested \in Graph /\ Arcs(tested) = E \union {<<BB_, fail>>, <<BB_, pass>>}
    BY <1>2, <2>1, <2>2, TwoWayArcs
  <2>5. /\ \A z \in 1 .. nb : tested[z].label = bbs[z].label
        /\ tested[fail].label = failName /\ tested[pass].label = passName
    BY <1>2, <2>1, <2>2, <2>3, TwoWayLists
  <2>. QED BY <2>4, <2>5
<1>. HIDE DEF tested, fail, pass
<1>5. called \in Graph /\ SameLists(tested, called)
  BY <1>3, <1>4, EmitLists
<1>. HIDE DEF called
<1>6. failed \in Graph /\ Linked(called, failed, fail, pass)
  BY <1>3, <1>5, CreateBrLinks
<1>. HIDE DEF failed
<1>7. SameLists(failed, bbs')
  BY <1>1, <1>3, <1>6, EmitLists
<1>8. Arcs(bbs') = E \union X
  <2>1. Arcs(called) = Arcs(tested) /\ Arcs(bbs') = Arcs(failed)
    BY <1>5, <1>7, SameArcs
  <2>2. Arcs(failed) = Arcs(called) \union {<<fail, pass>>}
    BY <1>3, <1>5, <1>6, LinkedArcs
  <2>. QED BY <1>4, <2>1, <2>2
<1>9. /\ \A z \in 1 .. nb : z \in D <=> z \in C
      /\ fail \notin D /\ pass \notin D
  <2>1. \A z \in Blocks : bbs'[z].label = tested[z].label
    BY <1>5, <1>6, <1>7 DEF SameLists, Linked
  <2>2. \A z \in 1 .. nb : bbs'[z].label = bbs[z].label
    BY <1>3, <1>4, <2>1
  <2>3. bbs'[fail].label # "condition" /\ bbs'[pass].label # "condition"
    BY <1>n, <1>3, <1>4, <2>1
  <2>4. nb' \in Nat /\ nb <= nb'
    BY <1>1, <1>3
  <2>. QED BY <1>2, <2>2, <2>3, <2>4 DEF Conds
<1>10. Within(frames, pass, BB_) /\ Within(frames, pass, fail) /\ Within(frames, pass, pass)
  BY <1>2, <1>3, WithinStack
<1>11. NextLooped <=> Looped(E \union X, D, pass, pass, frames)
  BY <1>1, <1>8 DEF NextLooped
<1>12. Looped(E, C, nb, BB_, frames)
  BY DEF LoopedNow
<1>. HIDE DEF E, C, D
<1>13. Back(X, D) = {}
  BY <1>9 DEF Back
<1>14. Sorted((E \ Back(E, C)) \union (X \ Back(X, D)), pass)
  <2> DEFINE F == E \ Back(E, C)
  <2>1. \A e \in F : e[1] # fail /\ e[1] # pass
    BY <1>2, <1>3
  <2>2. Sorted(F, nb)
    BY <1>2
  <2>. HIDE DEF F
  <2>3. Sorted(F \union {<<BB_, fail>>, <<BB_, pass>>}, pass)
    BY <1>2, <1>3, <2>1, <2>2, SortedTwo
  <2>4. \A e \in F \union {<<BB_, fail>>, <<BB_, pass>>} : e[1] # pass
    BY <1>3, <2>1
  <2>5. Sorted((F \union {<<BB_, fail>>, <<BB_, pass>>}) \union {<<fail, pass>>}, pass)
    BY <1>3, <2>3, <2>4, SortedAdd
  <2>6. (F \union {<<BB_, fail>>, <<BB_, pass>>}) \union {<<fail, pass>>} = F \union (X \ Back(X, D))
    BY <1>13
  <2>. QED BY <2>5, <2>6 DEF F
<1>15. \A e \in X : Within(frames, pass, e[1])
  BY <1>10
<1>16. \A e \in X : e[2] \notin 1 .. nb \/ e[2] \in Held(frames)
  BY <1>3
<1>17. \A e \in Back(X, D) : Sealed(E \union X, pass, frames, e)
  BY <1>13
<1>. HIDE DEF X
<1>18. FramesLooped(E \union X, D, pass, pass, frames)
  BY <1>2, <1>3, <1>9, <1>10, <1>15, FramesLoopedKept
<1>19. Looped(E \union X, D, pass, pass, frames)
  BY <1>2, <1>3, <1>9, <1>12, <1>14, <1>16, <1>17, <1>18, LoopedStep
<1>. QED BY <1>11, <1>19

\* while: the condition block is entered from before the loop only.
LEMMA VisitIterationStmtLooped ==
  ASSUME Good(bbs, nb, BB_, frames, pc), Edged, LoopedNow, VisitIterationStmt
  PROVE  NextLooped
<1> DEFINE E == Arcs(bbs)
           C == Conds(bbs, nb)
           D == Conds(bbs', nb')
           c == nb + 1
           l == nb + 2
           r == nb + 3
           X == {<<BB_, c>>}
           g1 == Create(bbs, c, "condition")
           g2 == Create(g1, l, "loop")
           g3 == Create(g2, r, "ret")
           f == [Frame("whileCond") EXCEPT !.conditionBB = c, !.loopBB = l, !.retBB = r]
<1>1. /\ r <= MaxBlocks /\ nb' = r /\ bbs' = CreateBr(g3, BB_, c)
      /\ BB_' = c /\ frames' = Append(frames, f)
  BY DEF VisitIterationStmt, Visit, Push
<1>2. /\ nb \in Nat /\ BB_ \in 1 .. nb /\ bbs \in Graph /\ Lists(bbs, nb) /\ Entry = 1
      /\ E \in SUBSET ((1 .. nb) \X (1 .. nb)) /\ Sorted(E \ Back(E, C), nb)
      /\ frames \in Seq(FrameRecord) /\ FramesOK(frames, pc, nb)
      /\ FramesLooped(E, C, nb, BB_, frames)
  BY EdgeTypes, LoopTypes DEF Edged
<1>3. /\ c \in Blocks /\ l \in Blocks /\ r \in Blocks /\ BB_ \in Blocks
      /\ c \in 1 .. r /\ l \in 1 .. r /\ r \in 1 .. r /\ r \in Nat /\ nb <= r /\ c # Entry
      /\ c # l /\ c # r /\ l # r /\ BB_ # c /\ BB_ < c /\ l = c + 1 /\ r = c + 2
      /\ c \notin 1 .. nb /\ l \notin 1 .. nb /\ r \notin 1 .. nb
      /\ \A z \in 1 .. nb : z \in Blocks /\ z # c /\ z # l /\ z # r /\ z < c
      /\ c .. r \subseteq {c, l, r} /\ c \in Nat
  BY <1>1, <1>2, EdgeTypes, BoundsAssumption DEF Blocks
<1>4. bbs[c].succ = <<>> /\ bbs[l].succ = <<>> /\ bbs[r].succ = <<>>
  BY <1>2, <1>3 DEF Lists
<1>5. /\ f \in FrameRecord /\ f.kind = "whileCond"
      /\ f.conditionBB = c /\ f.loopBB = l /\ f.retBB = r
  BY <1>3 DEF Frame, FrameRecord, MaybeBB, FrameKinds
<1>. HIDE DEF f, c, l, r
<1>6. g1 \in Graph /\ Added(bbs, g1, c, "condition")
  BY <1>2, <1>3, CreateLists DEF Labels, FixedLabels
<1>. HIDE DEF g1
<1>7. Arcs(g1) = E /\ g1[l].succ = <<>> /\ g1[r].succ = <<>>
  BY <1>2, <1>3, <1>4, <1>6, AddedArcs DEF Unconnected
<1>8. g2 \in Graph /\ Added(g1, g2, l, "loop")
  BY <1>3, <1>6, CreateLists DEF Labels, FixedLabels
<1>. HIDE DEF g2
<1>9. Arcs(g2) = E /\ g2[r].succ = <<>>
  BY <1>3, <1>6, <1>7, <1>8, AddedArcs DEF Unconnected
<1>10. g3 \in Graph /\ Added(g2, g3, r, "ret")
  BY <1>3, <1>8, CreateLists DEF Labels, FixedLabels
<1>. HIDE DEF g3
<1>11. Arcs(g3) = E
  BY <1>3, <1>8, <1>9, <1>10, AddedArcs DEF Unconnected
<1>12. Linked(g3, bbs', BB_, c)
  BY <1>1, <1>3, <1>10, CreateBrLinks
<1>13. Arcs(bbs') = E \union X
  BY <1>3, <1>10, <1>11, <1>12, LinkedArcs
<1>14. (\A z \in 1 .. nb : z \in D <=> z \in C) /\ c \in D
  <2>1. /\ \A z \in 1 .. nb : bbs'[z].label = bbs[z].label
        /\ bbs'[c].label = "condition"
    BY <1>3, <1>6, <1>8, <1>10, <1>12 DEF Added, Linked
  <2>. QED BY <1>1, <1>2, <1>3, <2>1 DEF Conds
<1>15. Within(frames, r, BB_) /\ Within(frames, r, c) /\ Within(frames, r, l) /\ Within(frames, r, r)
  BY <1>2, <1>3, WithinStack
<1>16. NextLooped <=> Looped(E \union X, D, r, c, Append(frames, f))
  BY <1>1, <1>13 DEF NextLooped
<1>17. Looped(E, C, nb, BB_, frames)
  BY DEF LoopedNow
<1>. HIDE DEF E, C, D
<1>18. Holds(f) = {c, l, r} /\ Mine(f) = {c, l, r} /\ Targets(f) = {l, r} /\ Loop(f)
  BY <1>5 DEF Holds, Mine, Targets, Loop
<1>19. FrameLoops(E \union X, D, r, c, f)
  <2>1. Body(f, r) = {c, l}
    BY <1>3, <1>5 DEF Body
  <2>2. OneEntry(Body(f, r), c, E \union X)
    <3>1. \A e \in E \union X : e[2] # l
      BY <1>2, <1>3
    <3>. QED BY <2>1, <3>1 DEF OneEntry
  <2>3. Inside(f, r, c)
    BY <1>3, <1>18, <2>1 DEF Inside
  <2>4. \A e \in E \union X : e[1] \notin Targets(f)
    BY <1>2, <1>3, <1>18
  <2>. QED BY <1>3, <1>5, <1>14, <2>2, <2>3, <2>4 DEF FrameLoops
<1>20. \A i \in 1 .. Len(frames) : Nested(frames[i], f, r)
  <2> SUFFICES ASSUME NEW i \in 1 .. Len(frames) PROVE Nested(frames[i], f, r)
    OBVIOUS
  <2>1. Mine(frames[i]) \subseteq 1 .. nb
    BY <1>2, MineCreated DEF FramesOK
  <2>2. \A x \in Mine(f) : Inside(frames[i], r, x)
    BY <1>15, <1>18 DEF Within
  <2>. QED BY <1>3, <1>5, <2>1, <2>2 DEF Nested
<1>21. Back(X, D) = {}
  BY <1>2, <1>3 DEF Back
<1>22. Sorted((E \ Back(E, C)) \union (X \ Back(X, D)), r)
  <2> DEFINE F == E \ Back(E, C)
  <2>1. (\A e \in F : e[1] # c) /\ Sorted(F, nb) /\ X \ Back(X, D) = {<<BB_, c>>}
    BY <1>2, <1>3, <1>21
  <2>. HIDE DEF F
  <2>2. Sorted(F, r)
    BY <1>2, <1>3, <2>1, SortedGrows
  <2>3. Sorted(F \union {<<BB_, c>>}, r)
    BY <1>3, <2>1, <2>2, SortedAdd, ZenonT(30)
  <2>. QED BY <2>1, <2>3 DEF F
<1>23. \A e \in X : Within(frames, r, e[1])
  BY <1>15
<1>24. \A e \in X : e[2] \notin 1 .. nb \/ e[2] \in Held(frames)
  BY <1>3
<1>. HIDE DEF X
<1>25. FramesLooped(E \union X, D, r, c, frames)
  BY <1>2, <1>3, <1>14, <1>15, <1>23, FramesLoopedKept
<1>26. /\ FramesLooped(E \union X, D, r, c, Append(frames, f))
       /\ Held(Append(frames, f)) = Held(frames) \union Holds(f)
  BY <1>2, <1>5, <1>19, <1>20, <1>25, FramesLoopedOnto
<1>27. \A z \in Held(Append(frames, f)) : z \notin 1 .. nb \/ z \in Held(frames)
  BY <1>3, <1>18, <1>26
<1>28. \A e \in Back(X, D) : Sealed(E \union X, r, Append(frames, f), e)
  BY <1>21
<1>29. Looped(E \union X, D, r, c, Append(frames, f))
  BY <1>2, <1>3, <1>14, <1>17, <1>22, <1>24, <1>26, <1>27, <1>28, LoopedStep, ZenonT(30)
<1>. QED BY <1>16, <1>29

\* while after e: the frame keeps the condition block and the block that follows.
LEMMA BranchWhileLooped ==
  ASSUME Good(bbs, nb, BB_, frames, pc), Edged, LoopedNow, BranchWhile
  PROVE  NextLooped
<1> DEFINE E == Arcs(bbs)
           C == Conds(bbs, nb)
           D == Conds(bbs', nb')
           t == Front(frames)
           w == Last(frames)
           h == w.conditionBB
           l == w.loopBB
           r == w.retBB
           X == {<<BB_, l>>, <<BB_, r>>}
           g == Emit(bbs, BB_, "op")
           f == [Frame("whileBody") EXCEPT !.conditionBB = h, !.retBB = r]
<1>1. /\ frames # <<>> /\ w.kind = "whileCond" /\ nb' = nb /\ BB_' = l
      /\ frames' = Append(t, f) /\ bbs' = CreateCondBr(g, BB_, l, r)
  BY DEF BranchWhile, ExprVisited, Top, Replace, Good
<1>2. /\ nb \in Nat /\ nb <= nb /\ BB_ \in 1 .. nb /\ BB_ \in Blocks
      /\ bbs \in Graph /\ 1 .. nb \subseteq Blocks
      /\ E \in SUBSET ((1 .. nb) \X (1 .. nb)) /\ Sorted(E \ Back(E, C), nb)
      /\ t \in Seq(FrameRecord) /\ FramesOK(t, "stmt", nb) /\ FrameOK(w, nb) /\ Own(bbs, w)
  BY <1>1, EdgeTypes, LoopTypes, Below
<1>3. /\ FramesLooped(E, C, nb, BB_, t) /\ FrameLoops(E, C, nb, BB_, w)
      /\ \A i \in 1 .. Len(t) : Nested(t[i], w, nb)
      /\ Held(t) \subseteq Held(frames) /\ Holds(w) \subseteq Held(frames)
      /\ Within(t, nb, BB_) /\ \A x \in Mine(w) : Within(t, nb, x)
  BY <1>1, <1>2, BelowLooped
<1>4. /\ Holds(w) = {h, l, r} /\ Mine(w) = {h, l, r} /\ Targets(w) = {l, r} /\ Loop(w)
  BY <1>1 DEF Holds, Mine, Targets, Loop
<1>5. h \in 1 .. nb /\ l \in 1 .. nb /\ r \in 1 .. nb
  BY <1>1, <1>2 DEF FrameOK
<1>6. /\ f \in FrameRecord /\ f.kind = "whileBody" /\ f.conditionBB = h /\ f.retBB = r
  BY <1>2, <1>5 DEF Frame, FrameRecord, MaybeBB, FrameKinds
<1>7. NextLooped <=> Looped(Arcs(bbs'), D, nb, l, Append(t, f))
  BY <1>1 DEF NextLooped
<1>8. /\ BB_ \notin {l, r} /\ BB_ \in Body(w, nb) /\ h \in C /\ h # Entry /\ r = h + 2 /\ l = h + 1
      /\ OneEntry(Body(w, nb), h, E) /\ \A e \in E : e[1] \notin {l, r}
  BY <1>1, <1>3, <1>4 DEF FrameLoops, Inside
<1>9. l # r /\ bbs[l].label # "condition" /\ bbs[r].label # "condition"
  BY <1>1, <1>2 DEF Own
<1>. HIDE DEF f, h, l, r, w, t
<1>10. g \in Graph /\ SameLists(bbs, g) /\ Arcs(g) = E
  BY <1>2, EmitLists, SameArcs
<1>. HIDE DEF g
<1>11. bbs' \in Graph /\ \E k \in Graph : Linked(g, k, BB_, r) /\ Linked(k, bbs', BB_, l)
  BY <1>1, <1>2, <1>5, <1>9, <1>10, CreateCondBrLinks
<1>12. PICK k \in Graph : Linked(g, k, BB_, r) /\ Linked(k, bbs', BB_, l)
  BY <1>11
<1>13. Arcs(k) = E \union {<<BB_, r>>}
  BY <1>2, <1>5, <1>10, <1>12, LinkedArcs
<1>14. Arcs(bbs') = Arcs(k) \union {<<BB_, l>>}
  BY <1>2, <1>5, <1>12, LinkedArcs
<1>15. Arcs(bbs') = E \union X
  BY <1>13, <1>14
<1>16. (\A z \in 1 .. nb : z \in D <=> z \in C) /\ l \notin D /\ r \notin D
  <2>1. \A z \in 1 .. nb : bbs'[z].label = bbs[z].label
    BY <1>2, <1>10, <1>12 DEF SameLists, Linked
  <2>. QED BY <1>1, <1>5, <1>9, <2>1 DEF Conds
<1>17. Looped(E, C, nb, BB_, frames)
  BY DEF LoopedNow
<1>. HIDE DEF E, C, D
<1>18. Holds(f) = {h, r} /\ Mine(f) = {h, r} /\ Targets(f) = {} /\ Loop(f) /\ Body(f, nb) = Body(w, nb)
  BY <1>6 DEF Holds, Mine, Targets, Loop, Body, h, r
<1>19. FrameLoops(E \union X, D, nb, l, f)
  <2>1. l \in Body(w, nb)
    BY <1>5, <1>8, <1>9 DEF Body, h, r
  <2>2. OneEntry(Body(w, nb), h, E \union X)
    BY <1>8 DEF OneEntry
  <2>3. h \in D
    BY <1>5, <1>8, <1>16
  <2>. QED BY <1>6, <1>8, <1>18, <2>1, <2>2, <2>3 DEF FrameLoops, Inside
<1>20. \A i \in 1 .. Len(t) : Nested(t[i], f, nb)
  <2> SUFFICES ASSUME NEW i \in 1 .. Len(t) PROVE Nested(t[i], f, nb)
    OBVIOUS
  <2>1. Nested(t[i], w, nb)
    BY <1>3
  <2>. QED BY <1>4, <1>6, <1>18, <2>1 DEF Nested, h
<1>21. Back(X, D) = {}
  BY <1>16 DEF Back
<1>22. Sorted((E \ Back(E, C)) \union (X \ Back(X, D)), nb)
  <2> DEFINE F == E \ Back(E, C)
  <2>1. (\A e \in F : e[1] # l /\ e[1] # r) /\ Sorted(F, nb) /\ X \ Back(X, D) = {<<BB_, l>>, <<BB_, r>>}
    BY <1>2, <1>8, <1>21
  <2>. HIDE DEF F
  <2>2. Sorted(F \union {<<BB_, l>>, <<BB_, r>>}, nb)
    BY <1>2, <1>5, <1>8, <2>1, SortedTwo, ZenonT(30)
  <2>. QED BY <2>1, <2>2 DEF F
<1>23. Within(t, nb, l) /\ \A e \in X : Within(t, nb, e[1])
  BY <1>3, <1>4
<1>24. \A e \in X : e[2] \notin 1 .. nb \/ e[2] \in Held(frames)
  BY <1>3, <1>4
<1>25. \A e \in Back(X, D) : Sealed(E \union X, nb, Append(t, f), e)
  BY <1>21
<1>. HIDE DEF X
<1>26. FramesLooped(E \union X, D, nb, l, t)
  BY <1>2, <1>3, <1>16, <1>23, FramesLoopedKept
<1>27. /\ FramesLooped(E \union X, D, nb, l, Append(t, f))
       /\ Held(Append(t, f)) = Held(t) \union Holds(f)
  BY <1>2, <1>6, <1>19, <1>20, <1>26, FramesLoopedOnto
<1>28. \A z \in Held(Append(t, f)) : z \notin 1 .. nb \/ z \in Held(frames)
  BY <1>3, <1>4, <1>18, <1>27
<1>29. Looped(E \union X, D, nb, l, Append(t, f))
  BY <1>2, <1>16, <1>17, <1>22, <1>24, <1>25, <1>27, <1>28, LoopedStep
<1>. QED BY <1>7, <1>15, <1>29

\* The innermost frame is popped: a branch to x, forward or back, or none, and the
\* insertion point moves to y; the frame holds both.
LEMMA JoinLooped ==
  ASSUME Good(bbs, nb, BB_, frames, pc), Edged, LoopedNow, frames # <<>>,
         NEW x \in Holds(Last(frames)), NEW y \in Holds(Last(frames)),
         bbs' = bbs \/ bbs' = CreateBr(bbs, BB_, x), nb' = nb, BB_' = y, frames' = Pop,
         \/ bbs[x].label # "condition" /\ x # BB_ /\ \A e \in Arcs(bbs) : e[1] # x
         \/ /\ x \in Conds(bbs, nb) /\ x <= BB_
            /\ Sealed(Arcs(bbs) \union {<<BB_, x>>}, nb, Front(frames), <<BB_, x>>)
  PROVE  NextLooped
<1> DEFINE E == Arcs(bbs)
           C == Conds(bbs, nb)
           D == Conds(bbs', nb')
           t == Front(frames)
           w == Last(frames)
           F == E \ Back(E, C)
<1>1. /\ nb \in Nat /\ nb <= nb /\ BB_ \in 1 .. nb /\ BB_ \in Blocks
      /\ bbs \in Graph /\ 1 .. nb \subseteq Blocks
      /\ E \in SUBSET ((1 .. nb) \X (1 .. nb)) /\ Sorted(F, nb)
      /\ t \in Seq(FrameRecord) /\ FramesOK(t, "stmt", nb) /\ FrameOK(w, nb)
  BY EdgeTypes, LoopTypes, Below
<1>2. /\ FramesLooped(E, C, nb, BB_, t) /\ Held(t) \subseteq Held(frames) /\ Holds(w) \subseteq Held(frames)
      /\ Within(t, nb, BB_) /\ \A z \in Mine(w) : Within(t, nb, z)
  BY <1>1, BelowLooped
<1>3. x \in 1 .. nb /\ y \in Mine(w) /\ x \in Blocks /\ x \in Held(frames)
  BY <1>1, <1>2, MineCreated, TargetsHeld
<1>4. /\ \E X : (X = {} \/ X = {<<BB_, x>>}) /\ Arcs(bbs') = E \union X
      /\ \A z \in 1 .. nb : bbs'[z].label = bbs[z].label
  <2>1. CASE bbs' = bbs
    <3>1. Arcs(bbs') = E \union {}
      BY <2>1
    <3>. QED BY <2>1, <3>1
  <2>2. CASE bbs' = CreateBr(bbs, BB_, x)
    <3>1. Linked(bbs, bbs', BB_, x)
      BY <1>1, <1>3, <2>2, CreateBrLinks
    <3>2. Arcs(bbs') = E \union {<<BB_, x>>}
      BY <1>1, <1>3, <3>1, LinkedArcs
    <3>. QED BY <1>1, <3>1, <3>2 DEF Linked
  <2>. QED BY <2>1, <2>2
<1>5. PICK X : (X = {} \/ X = {<<BB_, x>>}) /\ Arcs(bbs') = E \union X
  BY <1>4
<1>6. \A z \in 1 .. nb : z \in D <=> z \in C
  BY <1>1, <1>4 DEF Conds
<1>7. bbs[x].label # "condition" => x \notin C
  BY DEF Conds
<1>8. Looped(E, C, nb, BB_, frames) /\ (NextLooped <=> Looped(E \union X, D, nb, y, t))
  BY <1>5 DEF LoopedNow, NextLooped, Pop
<1>9. \/ x \notin C /\ x # BB_ /\ \A e \in E : e[1] # x
      \/ x \in C /\ x <= BB_ /\ Sealed(E \union {<<BB_, x>>}, nb, t, <<BB_, x>>)
  BY <1>7
<1>. HIDE DEF E, C, D, t, w
<1>10. \A e \in X : e = <<BB_, x>>
  BY <1>5
<1>11. FramesLooped(E \union X, D, nb, y, t)
  <2>1. Within(t, nb, y) /\ \A e \in X : Within(t, nb, e[1])
    BY <1>2, <1>3, <1>10
  <2>. QED BY <1>1, <1>2, <1>6, <2>1, FramesLoopedKept
<1>12. Sorted(F \union (X \ Back(X, D)), nb)
  <2>1. CASE X \ Back(X, D) = {}
    <3>1. F \union (X \ Back(X, D)) = F
      BY <2>1
    <3>. QED BY <1>1, <3>1
  <2>2. CASE X \ Back(X, D) # {}
    <3>1. X \ Back(X, D) = {<<BB_, x>>}
      BY <1>5, <2>2
    <3>2. x \notin C \/ ~(x <= BB_)
      BY <1>3, <1>6, <3>1 DEF Back
    <3>3. x # BB_ /\ \A e \in F : e[1] # x
      BY <1>9, <3>2
    <3>. HIDE DEF F
    <3>4. Sorted(F \union {<<BB_, x>>}, nb)
      BY <1>1, <1>3, <3>3, SortedAdd
    <3>. QED BY <3>1, <3>4
  <2>. QED BY <2>1, <2>2
<1>13. \A e \in Back(X, D) : Sealed(E \union X, nb, t, e)
  <2> SUFFICES ASSUME NEW e \in Back(X, D) PROVE Sealed(E \union X, nb, t, e)
    OBVIOUS
  <2>1. e = <<BB_, x>> /\ X = {<<BB_, x>>} /\ x \in D
    BY <1>5 DEF Back
  <2>. QED BY <1>3, <1>6, <1>9, <2>1
<1>14. \A e \in X : e[2] \notin 1 .. nb \/ e[2] \in Held(frames)
  BY <1>3, <1>10
<1>15. \A z \in Held(t) : z \notin 1 .. nb \/ z \in Held(frames)
  BY <1>2
<1>16. Looped(E \union X, D, nb, y, t)
  BY <1>1, <1>6, <1>8, <1>11, <1>12, <1>13, <1>14, <1>15, LoopedStep
<1>. QED BY <1>8, <1>16

LEMMA FinishIfLooped ==
  ASSUME Good(bbs, nb, BB_, frames, pc), Edged, LoopedNow, FinishIf
  PROVE  NextLooped
<1> DEFINE w == Last(frames)
           x == w.retBB
<1>1. /\ frames # <<>> /\ w.kind = "ifTrue" /\ nb' = nb
      /\ bbs' = bbs \/ bbs' = CreateBr(bbs, BB_, x)
      /\ BB_' = x /\ frames' = Pop
  BY DEF FinishIf, StmtVisited, Top
<1>2. FrameLoops(Arcs(bbs), Conds(bbs, nb), nb, BB_, w) /\ Own(bbs, w)
  BY <1>1, BelowLooped, Below
<1>3. x \in Holds(w) /\ Targets(w) = {x}
  BY <1>1 DEF Holds, Targets
<1>4. bbs[x].label # "condition" /\ x # BB_ /\ \A e \in Arcs(bbs) : e[1] # x
  BY <1>1, <1>2, <1>3 DEF FrameLoops, Inside, Own
<1>. QED BY <1>1, <1>3, <1>4, JoinLooped

\* The back branch of a while comes from its body, which is entered at the
\* condition.
LEMMA FinishWhileLooped ==
  ASSUME Good(bbs, nb, BB_, frames, pc), Edged, LoopedNow, FinishWhile
  PROVE  NextLooped
<1> DEFINE E == Arcs(bbs)
           C == Conds(bbs, nb)
           t == Front(frames)
           w == Last(frames)
           h == w.conditionBB
           r == w.retBB
           S == Body(w, nb)
<1>1. /\ frames # <<>> /\ w.kind = "whileBody" /\ nb' = nb
      /\ bbs' = bbs \/ bbs' = CreateBr(bbs, BB_, h)
      /\ BB_' = r /\ frames' = Pop
  BY DEF FinishWhile, StmtVisited, Top
<1>2. /\ FrameLoops(E, C, nb, BB_, w) /\ FrameOK(w, nb)
      /\ \A i \in 1 .. Len(t) : Nested(t[i], w, nb)
  BY <1>1, BelowLooped, Below
<1>3. h \in Holds(w) /\ r \in Holds(w) /\ Loop(w) /\ h \in 1 .. nb
  BY <1>1, <1>2 DEF Holds, Loop, FrameOK
<1>4. h \in C /\ h # Entry /\ OneEntry(S, h, E) /\ BB_ \in S
  BY <1>2, <1>3 DEF FrameLoops, Inside
<1>5. nb \in Nat /\ BB_ \in 1 .. nb /\ Entry = 1
  BY EdgeTypes
<1>6. S \in SUBSET (1 .. nb) /\ Entry \notin S /\ h <= BB_ /\ \A z \in S : z >= h
  BY <1>3, <1>4, <1>5 DEF Body
<1>7. \A z \in Held(t) : z < h
  <2> SUFFICES ASSUME NEW i \in 1 .. Len(t), NEW z \in Holds(t[i]) PROVE z < h
    BY DEF Held
  <2>1. z \in Mine(t[i])
    BY TargetsHeld
  <2>. QED BY <1>2, <1>3, <2>1 DEF Nested
<1>8. Held(t) \subseteq 1 .. nb
  <2>1. FramesOK(t, "stmt", nb)
    BY <1>1, Below
  <2>. QED BY <2>1, HoldsCreated DEF Held
<1>. HIDE DEF S, h
<1>9. OneEntry(S, h, E \union {<<BB_, h>>})
  BY <1>4 DEF OneEntry
<1>10. \A z \in Held(t) : z \in S => z = h
  BY <1>3, <1>5, <1>6, <1>7, <1>8
<1>11. Sealed(E \union {<<BB_, h>>}, nb, t, <<BB_, h>>)
  BY <1>4, <1>6, <1>9, <1>10 DEF Sealed
<1>. QED BY <1>1, <1>3, <1>4, <1>6, <1>11, JoinLooped DEF h

\* The insertion point moves to the second branch.
LEMMA StartElseLooped ==
  ASSUME Good(bbs, nb, BB_, frames, pc), Edged, LoopedNow, StartElse
  PROVE  NextLooped
<1> DEFINE E == Arcs(bbs)
           C == Conds(bbs, nb)
           t == Front(frames)
           w == Last(frames)
           x == w.falseBB
           f == [Frame("elseFalse") EXCEPT !.curTrueBB = BB_]
<1>1. /\ frames # <<>> /\ w.kind = "elseTrue" /\ bbs' = bbs /\ nb' = nb
      /\ BB_' = x /\ frames' = Append(t, f)
  BY DEF StartElse, StmtVisited, Top, Replace
<1>2. /\ nb \in Nat /\ nb <= nb /\ E \in SUBSET ((1 .. nb) \X (1 .. nb))
      /\ t \in Seq(FrameRecord) /\ FramesOK(t, "stmt", nb)
  BY <1>1, EdgeTypes, LoopTypes, Below
<1>3. /\ FramesLooped(E, C, nb, BB_, t) /\ Held(t) \subseteq Held(frames)
      /\ Within(t, nb, BB_) /\ \A z \in Mine(w) : Within(t, nb, z)
  BY <1>1, <1>2, BelowLooped
<1>4. x \in Mine(w)
  BY <1>1 DEF Mine, Holds
<1>5. f \in FrameRecord /\ f.kind = "elseFalse" /\ f.curTrueBB = BB_
  BY EdgeTypes DEF Frame, FrameRecord, MaybeBB, FrameKinds
<1>. HIDE DEF f
<1>6. Holds(f) = {} /\ Mine(f) = {BB_} /\ Targets(f) = {} /\ ~Loop(f)
  BY <1>5 DEF Holds, Mine, Targets, Loop
<1>7. Looped(E, C, nb, BB_, frames) /\ (NextLooped <=> Looped(E, C, nb, x, Append(t, f)))
  BY <1>1 DEF LoopedNow, NextLooped
<1>. HIDE DEF E, C, t, x, w
<1>8. FramesLooped(E, C, nb, x, t)
  <2>1. Within(t, nb, x) /\ \A e \in {} : Within(t, nb, e[1])
    BY <1>3, <1>4
  <2>2. FramesLooped(E \union {}, C, nb, x, t)
    BY <1>2, <1>3, <2>1, FramesLoopedKept
  <2>. QED BY <2>2
<1>9. FrameLoops(E, C, nb, x, f)
  BY <1>5, <1>6 DEF FrameLoops, Inside
<1>10. \A i \in 1 .. Len(t) : Nested(t[i], f, nb)
  BY <1>3, <1>6 DEF Nested, Within
<1>11. FramesLooped(E, C, nb, x, Append(t, f)) /\ Held(Append(t, f)) = Held(t) \union Holds(f)
  BY <1>2, <1>5, <1>8, <1>9, <1>10, FramesLoopedOnto
<1>12. Held(Append(t, f)) \subseteq Held(frames)
  BY <1>3, <1>6, <1>11
<1>13. Seals(E, C, nb, Append(t, f))
  BY <1>7, <1>12, SealsFewer DEF Looped
<1>. QED BY <1>7, <1>11, <1>13 DEF Looped

\* Both branches of an if-else go to a new block.
LEMMA FinishIfElseLooped ==
  ASSUME Good(bbs, nb, BB_, frames, pc), Edged, LoopedNow, FinishIfElse
  PROVE  NextLooped
<1> DEFINE E == Arcs(bbs)
           C == Conds(bbs, nb)
           D == Conds(bbs', nb')
           t == Front(frames)
           w == Last(frames)
           a == w.curTrueBB
           r == nb + 1
           X == {<<a, r>>, <<BB_, r>>}
           g == Create(bbs, r, "ret")
           h == CreateBr(g, a, r)
<1>1. /\ frames # <<>> /\ w.kind = "elseFalse" /\ BB_' = BB_ /\ frames' = t
      /\ \/ bbs' = bbs /\ nb' = nb
         \/ r <= MaxBlocks /\ nb' = r /\ bbs' = CreateBr(h, BB_, r)
  BY DEF FinishIfElse, StmtVisited, Top, Pop
<1>2. CASE bbs' = bbs /\ nb' = nb
  <2>1. SameLists(bbs, bbs')
    BY <1>2 DEF SameLists
  <2>. QED BY <1>1, <1>2, <2>1, PlainFramesLooped
<1>3. CASE r <= MaxBlocks /\ nb' = r /\ bbs' = CreateBr(h, BB_, r)
  <2>1. /\ nb \in Nat /\ BB_ \in 1 .. nb /\ BB_ \in Blocks /\ bbs \in Graph /\ Lists(bbs, nb)
        /\ E \in SUBSET ((1 .. nb) \X (1 .. nb)) /\ Sorted(E \ Back(E, C), nb)
        /\ t \in Seq(FrameRecord) /\ FramesOK(t, "stmt", nb) /\ FrameOK(w, nb)
    BY <1>1, EdgeTypes, LoopTypes, Below DEF Edged
  <2>2. a \in 1 .. nb /\ a \in Mine(w)
    BY <1>1, <2>1 DEF FrameOK, Mine
  <2>3. /\ r \in Blocks /\ r \in Nat /\ nb <= r /\ r \in 1 .. r /\ r \notin 1 .. nb
        /\ a # r /\ BB_ # r /\ a \in Blocks
        /\ \A z \in 1 .. nb : z \in Blocks /\ z # r
    BY <1>3, <2>1, <2>2, EdgeTypes, BoundsAssumption DEF Blocks
  <2>4. /\ FramesLooped(E, C, nb, BB_, t) /\ Held(t) \subseteq Held(frames)
        /\ Within(t, r, BB_) /\ \A z \in Mine(w) : Within(t, r, z)
    BY <1>1, <2>1, <2>3, BelowLooped
  <2>5. bbs[r].succ = <<>>
    BY <2>1, <2>3 DEF Lists
  <2>. HIDE DEF a, r, w
  <2>6. g \in Graph /\ Added(bbs, g, r, "ret")
    BY <2>1, <2>3, CreateLists DEF Labels, FixedLabels
  <2>. HIDE DEF g
  <2>7. Arcs(g) = E
    BY <2>1, <2>3, <2>5, <2>6, AddedArcs DEF Unconnected
  <2>8. h \in Graph /\ Linked(g, h, a, r)
    BY <2>3, <2>6, CreateBrLinks
  <2>9. Linked(h, bbs', BB_, r)
    <3>. HIDE DEF h
    <3>. QED BY <1>3, <2>1, <2>3, <2>8, CreateBrLinks
  <2>. HIDE DEF h
  <2>10. Arcs(h) = E \union {<<a, r>>}
    BY <2>3, <2>6, <2>7, <2>8, LinkedArcs
  <2>11. Arcs(bbs') = Arcs(h) \union {<<BB_, r>>}
    BY <2>1, <2>3, <2>8, <2>9, LinkedArcs
  <2>12. Arcs(bbs') = E \union X
    BY <2>10, <2>11
  <2>13. (\A z \in 1 .. nb : z \in D <=> z \in C) /\ r \notin D
    <3>1. (\A z \in 1 .. nb : bbs'[z].label = bbs[z].label) /\ bbs'[r].label = "ret"
      BY <2>3, <2>6, <2>8, <2>9 DEF Added, Linked
    <3>. QED BY <1>3, <2>1, <2>3, <3>1 DEF Conds
  <2>14. Looped(E, C, nb, BB_, frames) /\ (NextLooped <=> Looped(E \union X, D, r, BB_, t))
    BY <1>1, <1>3, <2>12 DEF LoopedNow, NextLooped
  <2>. HIDE DEF E, C, D, t
  <2>15. Back(X, D) = {}
    BY <2>13 DEF Back
  <2>16. Sorted((E \ Back(E, C)) \union (X \ Back(X, D)), r)
    <3> DEFINE F == E \ Back(E, C)
    <3>1. (\A e \in F : e[1] # r) /\ Sorted(F, nb) /\ X \ Back(X, D) = {<<a, r>>, <<BB_, r>>}
      BY <2>1, <2>3, <2>15
    <3>. HIDE DEF F
    <3>2. Sorted(F \union {<<a, r>>, <<BB_, r>>}, r)
      BY <2>1, <2>3, <3>1, SortedTwo
    <3>. QED BY <3>1, <3>2 DEF F
  <2>17. \A e \in X : Within(t, r, e[1])
    BY <2>2, <2>4
  <2>18. \A e \in X : e[2] \notin 1 .. nb \/ e[2] \in Held(frames)
    BY <2>3
  <2>19. \A e \in Back(X, D) : Sealed(E \union X, r, t, e)
    BY <2>15
  <2>20. \A z \in Held(t) : z \notin 1 .. nb \/ z \in Held(frames)
    BY <2>4
  <2>. HIDE DEF X
  <2>21. FramesLooped(E \union X, D, r, BB_, t)
    BY <2>1, <2>3, <2>4, <2>13, <2>17, FramesLoopedKept
  <2>22. Looped(E \union X, D, r, BB_, t)
    BY <2>1, <2>3, <2>13, <2>14, <2>16, <2>18, <2>19, <2>20, <2>21, LoopedStep
  <2>. QED BY <2>14, <2>22
<1>. QED BY <1>1, <1>2, <1>3

\* The empty function has no edges, and its one frame holds nothing.
LEMMA InitLooped == Init => LoopsInv
<1> SUFFICES ASSUME Init PROVE LoopsInv
  OBVIOUS
<1> DEFINE E == Arcs(bbs)
           C == Conds(bbs, nb)
           f == Frame("list")
<1>1. EdgesInv
  BY InitEdged
<1>2. \A b \in Blocks : bbs[b].succ = <<>>
  <2>1. Lists(bbs, nb) /\ Good(bbs, nb, BB_, frames, pc)
    BY <1>1 DEF EdgesInv, IInv
  <2>2. nb = 1 /\ bbs[1].pre = <<>>
    BY <2>1 DEF Init, Lists, Entry
  <2>3. \A b \in Blocks : b > nb => bbs[b].pre = <<>>
    BY <2>1 DEF Lists
  <2>4. \A b \in Blocks : bbs[b].pre = <<>>
    BY <2>2, <2>3 DEF Blocks
  <2>5. \A a, b \in Blocks : b \notin Range(bbs[a].succ)
    BY <2>1, <2>4, EmptyList DEF Lists
  <2>6. \A a \in Blocks : bbs[a].succ \in Seq(Blocks)
    BY <2>1, EdgeTypes, BlockTypes
  <2> SUFFICES ASSUME NEW a \in Blocks PROVE bbs[a].succ = <<>>
    OBVIOUS
  <2> DEFINE s == bbs[a].succ
  <2>7. s \in Seq(Blocks) /\ Range(s) \intersect Blocks = {}
    BY <2>5, <2>6
  <2>. HIDE DEF s
  <2>8. s = <<>>
    BY <2>7 DEF Range
  <2>. QED BY <2>8 DEF s
<1>3. E = {}
  BY <1>2, SuccsOfEmpty DEF Arcs
<1>4. f.kind = "list"
  BY DEF Frame
<1>. HIDE DEF E, C, f
<1>5. Len(frames) = 1 /\ frames[1] = f
  BY DEF Init, f
<1>6. Targets(f) = {} /\ ~Loop(f) /\ f.kind # "whileCond"
  BY <1>4 DEF Targets, Loop
<1>7. FramesLooped(E, C, nb, BB_, frames)
  BY <1>5, <1>6 DEF FramesLooped, FrameLoops, Inside
<1>8. Sorted(E \ Back(E, C), nb) /\ Seals(E, C, nb, frames)
  BY <1>3 DEF Sorted, Seals, Back
<1>9. Looped(E, C, nb, BB_, frames)
  BY <1>7, <1>8 DEF Looped
<1>. QED BY <1>1, <1>9 DEF LoopsInv, E, C

LEMMA NextKeepsLoops ==
  ASSUME LoopsInv, [Next]_vars
  PROVE  LoopsInv'
<1>1. EdgesInv'
  BY NextKeepsEdges DEF LoopsInv
<1>2. CASE UNCHANGED vars
  BY <1>1, <1>2 DEF vars, LoopsInv
<1>3. CASE Next
  <2>1. Good(bbs, nb, BB_, frames, pc) /\ Edged /\ LoopedNow
    BY DEF LoopsInv, EdgesInv, IInv, Edged, LoopedNow
  <2>2. NextLooped
    BY <1>3, <2>1, PlainStepsLooped, VisitIterationStmtLooped, VisitVarIndexedLooped,
       BranchIfLooped, BranchIfElseLooped, BranchWhileLooped, FinishIfLooped,
       StartElseLooped, FinishIfElseLooped, FinishWhileLooped DEF Next
  <2>. QED BY <1>1, <2>2 DEF LoopsInv, NextLooped
<1>. QED BY <1>2, <1>3

(***************************************************************************)
(* The conclusion, about a graph whose nodes are 1 .. n.                   *)
(***************************************************************************)
\* No path leads out of a closed set.
LEMMA ReachableWithin ==
  ASSUME NEW n \in Nat, NEW E, NEW r \in 1 .. n, NEW S, Closed(S, E), r \in S
  PROVE  Reachable(r, 1 .. n, E) \subseteq S
<1>1. IsFiniteSet(1 .. n)
  BY FS_Interval
<1>2. \A e \in E \intersect ((1 .. n) \X (1 .. n)) : e[1] \in S => e[2] \in S
  BY DEF Closed
<1>. QED BY <1>1, <1>2, ReachableLeast

\* The condition of a while dominates the blocks that branch back to it.
LEMMA BackDominated ==
  ASSUME NEW n \in Nat, Entry \in 1 .. n, NEW E \in SUBSET ((1 .. n) \X (1 .. n)), NEW fs, NEW e \in E,
         Sealed(E, n, fs, e)
  PROVE  Dominates(e[2], e[1], Entry, 1 .. n, E)
<1> DEFINE N == 1 .. n
           h == e[2]
           b == e[1]
<1>0. IsFiniteSet(N)
  BY FS_Interval
<1>1. h \in N /\ b \in N /\ Entry \in N /\ E \in SUBSET (N \X N)
  OBVIOUS
<1>2. PICK S \in SUBSET N : b \in S /\ Entry \notin S /\ OneEntry(S, h, E)
  BY DEF Sealed
<1> DEFINE T == N \ (S \union {h})
<1>3. ASSUME h # Entry PROVE Cut(T, h, b, Entry, E)
  <2>1. Entry \in T /\ h \notin T /\ b \notin T
    BY <1>1, <1>2, <1>3
  <2>2. ASSUME NEW d \in E, d[1] \in T PROVE d[2] \in T \/ d[2] = h
    <3>1. d[2] \in N
      BY <1>1
    <3>. QED BY <1>2, <2>2, <3>1 DEF OneEntry
  <2>. QED BY <2>1, <2>2 DEF Cut
<1>4. T \in SUBSET N
  OBVIOUS
<1>. HIDE DEF N, h, b, T
<1>5. Dominates(h, b, Entry, N, E)
  BY <1>0, <1>1, <1>3, <1>4, DominatesByCut
<1>. QED BY <1>5 DEF N, h, b

LEMMA LoopsInvImplies == LoopsInv => LoopsReducible
<1> SUFFICES ASSUME LoopsInv, pc = "end" PROVE LoopsReducible
  BY DEF LoopsReducible
<1> DEFINE E == Edges
           C == Conds(bbs, nb)
           inner == {e \in E : bbs[e[1]].label # "condition"}
           dominated == {e \in E : Dominates(e[2], e[1], Entry, Created, E)}
<1>1. Good(bbs, nb, BB_, frames, pc) /\ Lists(bbs, nb)
  BY DEF LoopsInv, EdgesInv, IInv
<1>2. nb \in Nat /\ Created = 1 .. nb /\ Entry \in 1 .. nb
  BY <1>1, EdgeTypes DEF Created, Blocks
<1>3. Arcs(bbs) = E /\ E \in SUBSET ((1 .. nb) \X (1 .. nb))
  <2>1. Arcs(bbs) \in SUBSET ((1 .. nb) \X (1 .. nb)) /\ Arcs(bbs) = EdgesOf(bbs, nb)
    BY <1>1, EdgeTypes, ArcsInside
  <2>. QED BY <1>2, <2>1 DEF EdgesOf, Edges
<1>4. Sorted(E \ Back(E, C), nb) /\ Seals(E, C, nb, frames)
  BY <1>3 DEF LoopsInv, Looped
<1>5. \A e \in E : bbs[e[1]].label = "condition" <=> e[1] \in C
  BY <1>3 DEF Conds
<1>6. C \subseteq 1 .. nb
  BY DEF Conds
<1>. HIDE DEF E, C
<1>7. \A e \in Back(E, C) : e \in dominated
  <2> SUFFICES ASSUME NEW e \in Back(E, C) PROVE e \in dominated
    OBVIOUS
  <2>1. e \in E /\ Sealed(E, nb, frames, e)
    BY <1>4 DEF Back, Seals
  <2>2. Dominates(e[2], e[1], Entry, 1 .. nb, E)
    BY <1>2, <1>3, <2>1, BackDominated
  <2>. QED BY <1>2, <2>1, <2>2
<1>8. Acyclic(Created, E \ dominated)
  <2> SUFFICES ASSUME NEW e \in E \ dominated
               PROVE  e[1] \notin Reachable(e[2], Created, E \ dominated)
    BY DEF Acyclic
  <2>1. e \in E \ Back(E, C) /\ e[2] \in 1 .. nb
    BY <1>3, <1>7
  <2>2. PICK S \in SUBSET (1 .. nb) : Closed(S, E \ Back(E, C)) /\ e[2] \in S /\ e[1] \notin S
    BY <1>4, <2>1 DEF Sorted
  <2>3. Closed(S, E \ dominated)
    BY <1>7, <2>2 DEF Closed
  <2>. HIDE DEF dominated
  <2>4. Reachable(e[2], 1 .. nb, E \ dominated) \subseteq S
    BY <1>2, <2>1, <2>2, <2>3, ReachableWithin
  <2>. QED BY <1>2, <2>2, <2>4
<1>9. Acyclic(Created, inner)
  <2> SUFFICES ASSUME NEW e \in inner PROVE e[1] \notin Reachable(e[2], Created, inner)
    BY DEF Acyclic
  <2>1. e \in E /\ e[1] \notin C /\ e[2] \in 1 .. nb /\ \A d \in inner : d \in E /\ d[1] \notin C
    BY <1>3, <1>5
  <2>2. \E S : Closed(S, inner) /\ e[2] \in S /\ e[1] \notin S
    <3>1. CASE e \in Back(E, C)
      <4>1. e[2] \in C
        BY <3>1 DEF Back
      <4>2. Closed({e[2]}, inner)
        BY <2>1, <4>1 DEF Closed
      <4>. QED BY <2>1, <4>1, <4>2
    <3>2. CASE e \notin Back(E, C)
      <4>1. PICK S \in SUBSET (1 .. nb) : Closed(S, E \ Back(E, C)) /\ e[2] \in S /\ e[1] \notin S
        BY <1>4, <2>1, <3>2 DEF Sorted
      <4>2. \A d \in Back(E, C) : d[2] \in C
        BY DEF Back
      <4>3. Closed(S \union C, inner)
        BY <2>1, <4>1, <4>2 DEF Closed
      <4>. QED BY <2>1, <4>1, <4>3
    <3>. QED BY <3>1, <3>2
  <2>. HIDE DEF inner
  <2>3. PICK S : Closed(S, inner) /\ e[2] \in S /\ e[1] \notin S
    BY <2>2
  <2>4. Reachable(e[2], 1 .. nb, inner) \subseteq S
    BY <1>2, <2>1, <2>3, ReachableWithin
  <2>. QED BY <1>2, <2>3, <2>4
<1>. QED BY <1>8, <1>9 DEF LoopsReducible, Reducible, E

\* Whatever the program, the graph of a finished function is reducible, and every
\* cycle of it passes through the condition block of a while: what lets LoopSearch
\* take one base per loop, and remove it to find the loops inside.
THEOREM BuiltLoopsReducible == Spec => []LoopsReducible
<1>. QED BY InitLooped, NextKeepsLoops, LoopsInvImplies, PTL DEF Spec

(***************************************************************************)
(* Terminators, for any bounds, in functions without if-else and without   *)
(* statements after a return: every block ends in one terminator, its last *)
(* instruction, and from every block some path leads to a return.  (With   *)
(* if-else neither holds: the runs builder_ifelse_join and                 *)
(* builder_after_return show it.)                                          *)
(*                                                                         *)
(* The builder leaves blocks open, to come back to them: at any moment the *)
(* open blocks are the insertion point and the blocks that wait on the     *)
(* call stack.  No set of blocks is left without a way out, since a loop   *)
(* can be left through its condition block.                                *)
(*                                                                         *)
(* It follows that a branch to the condition of a while is the only one in *)
(* its block: loops are entered by unconditional branches.                 *)
(***************************************************************************)

OneEnd(g, x) == \A i \in 1 .. Len(g[x].code) - 1 : g[x].code[i] \notin {"br", "ret"}

\* How block x ends.
Ending(g, x) == IF HasTerminator(g, x) THEN Last(g[x].code) ELSE "open"

\* The blocks that the method of frame f will make the insertion point.
Waits(f) ==
  CASE f.kind = "ifTrue" -> {f.retBB}
    [] f.kind = "whileCond" -> {f.loopBB, f.retBB}
    [] f.kind = "whileBody" -> {f.retBB}
    [] OTHER -> {}

Waiting(fs) == UNION {Waits(fs[i]) : i \in 1 .. Len(fs)}

\* The blocks have one terminator at most, and only a branch has successors.
Ends(g) ==
  \A x \in Blocks : OneEnd(g, x) /\ (Ending(g, x) # "br" => Succs(g, x) = {})

\* A set of blocks that no edge leaves.
Trap(g, n, S) == S \in SUBSET (1 .. n) /\ Closed(S, EdgesOf(g, n))

\* Wherever control goes, it can come to a return or to an open block.
WayOut(g, S) == \E x \in S : Ending(g, x) # "br"
LeadsOut(g, n) == \A S \in SUBSET (1 .. n) : S # {} /\ Trap(g, n, S) => WayOut(g, S)

\* What waits for frame f is open; the condition of its loop leads out of it.
Awaits(g, n, b, f) ==
  /\ f.kind \notin {"ifElseCond", "elseTrue", "elseFalse"}
  /\ \A x \in Waits(f) : Ending(g, x) = "open" /\ x # b
  /\ \A S \in SUBSET (1 .. n) : Trap(g, n, S) /\ f.conditionBB \in S =>
       /\ f.kind = "whileCond" => b \in S
       /\ f.kind = "whileBody" => f.retBB \in S

Ended(g, n, b, fs, p) ==
  /\ Ends(g) /\ LeadsOut(g, n)
  /\ \A i \in 1 .. Len(fs) : Awaits(g, n, b, fs[i])
  /\ \A x \in 1 .. n : Ending(g, x) = "open" => x = b \/ x \in Waiting(fs)
  /\ p \in {"stmt", "expr"} => Ending(g, b) = "open"
  /\ p = "end" => fs = <<>> /\ Ending(g, b) # "open"

\* The inductive invariant.
EndedInv == EdgesInv /\ Ended(bbs, nb, BB_, frames, pc)

(***************************************************************************)
(* Steps on a graph.                                                       *)
(***************************************************************************)
\* g and h differ in block b at most.
Elsewhere(g, h, b) ==
  \A x \in Blocks \ {b} :
    OneEnd(h, x) = OneEnd(g, x) /\ Ending(h, x) = Ending(g, x) /\ Succs(h, x) = Succs(g, x)

\* The instructions of a block with one more.
LEMMA AddedInstruction ==
  ASSUME NEW code \in Seq({"op", "br", "ret"}), NEW i \in {"op", "br", "ret"},
         \A j \in 1 .. Len(code) - 1 : code[j] \notin {"br", "ret"},
         ~(code # <<>> /\ Last(code) \in {"br", "ret"}),
         NEW new, new = AddInstruction(code, i)
  PROVE  /\ \A j \in 1 .. Len(new) - 1 : new[j] \notin {"br", "ret"}
         /\ new # <<>> /\ Last(new) = i
<1>1. Len(code) \in Nat /\ \A j \in 1 .. Len(code) : code[j] \notin {"br", "ret"}
  BY DEF Last
<1>2. CASE i = "op" /\ code # <<>> /\ Last(code) = "op"
  BY <1>1, <1>2 DEF AddInstruction
<1>3. CASE ~(i = "op" /\ code # <<>> /\ Last(code) = "op")
  <2>1. new = Append(code, i)
    BY <1>3 DEF AddInstruction
  <2>2. /\ new # <<>> /\ Len(new) = Len(code) + 1 /\ new[Len(new)] = i
        /\ \A j \in 1 .. Len(new) - 1 : j \in 1 .. Len(code) /\ new[j] = code[j]
    BY <1>1, <2>1
  <2>. QED BY <1>1, <2>2 DEF Last
<1>. QED BY <1>2, <1>3

\* An instruction put into an open block.
LEMMA EmitEnds ==
  ASSUME NEW g \in Graph, NEW b \in Blocks, NEW i \in {"op", "br", "ret"},
         OneEnd(g, b), Ending(g, b) = "open", NEW h, h = Emit(g, b, i)
  PROVE  /\ h \in Graph /\ Elsewhere(g, h, b)
         /\ OneEnd(h, b) /\ Succs(h, b) = Succs(g, b)
         /\ Ending(h, b) = IF i = "op" THEN "open" ELSE i
<1> DEFINE code == AddInstruction(g[b].code, i)
           r == [g[b] EXCEPT !.code = code]
<1>1. g[b] \in BlockRecord /\ h = [g EXCEPT ![b] = r]
  BY DEF Graph, Emit
<1>2. r.code = code /\ r.succ = g[b].succ
  BY <1>1 DEF BlockRecord
<1>3. /\ \A j \in 1 .. Len(code) - 1 : code[j] \notin {"br", "ret"}
      /\ code # <<>> /\ Last(code) = i
  <2>1. g[b].code \in Seq({"op", "br", "ret"})
    BY <1>1 DEF BlockRecord
  <2>2. ~(g[b].code # <<>> /\ Last(g[b].code) \in {"br", "ret"})
    BY DEF Ending, HasTerminator
  <2>. QED BY <2>1, <2>2, AddedInstruction DEF OneEnd
<1>. HIDE DEF code, r
<1>4. h[b].code = code /\ h[b].succ = g[b].succ /\ \A x \in Blocks \ {b} : h[x] = g[x]
  BY <1>1, <1>2 DEF Graph
<1>5. Elsewhere(g, h, b)
  BY <1>4 DEF Elsewhere, OneEnd, Ending, HasTerminator, Succs
<1>6. OneEnd(h, b) /\ Succs(h, b) = Succs(g, b) /\ Ending(h, b) = IF i = "op" THEN "open" ELSE i
  BY <1>3, <1>4 DEF OneEnd, Ending, HasTerminator, Succs
<1>. QED BY <1>5, <1>6, EmitKeepsEdges

\* A new block is open.
LEMMA CreateEnds ==
  ASSUME NEW g \in Graph, NEW b \in Blocks, NEW name \in Labels, NEW h, h = Create(g, b, name)
  PROVE  /\ h \in Graph /\ Elsewhere(g, h, b)
         /\ OneEnd(h, b) /\ Succs(h, b) = {} /\ Ending(h, b) = "open"
<1> DEFINE r == [NoBlock EXCEPT !.label = name]
<1>1. r = [label |-> name, code |-> <<>>, pre |-> <<>>, succ |-> <<>>] /\ h = [g EXCEPT ![b] = r]
  BY DEF NoBlock, Create
<1>2. r.code = <<>>
  BY <1>1
<1>. HIDE DEF r
<1>3. h[b].code = <<>> /\ \A x \in Blocks \ {b} : h[x] = g[x]
  BY <1>1, <1>2 DEF Graph
<1>4. Elsewhere(g, h, b)
  BY <1>3 DEF Elsewhere, OneEnd, Ending, HasTerminator, Succs
<1>5. OneEnd(h, b) /\ Ending(h, b) = "open"
  BY <1>3 DEF OneEnd, Ending, HasTerminator
<1>. QED BY <1>4, <1>5, CreateKeepsEdges

\* Recording an edge changes no instruction.
LEMMA EdgeEnds ==
  ASSUME NEW g \in Graph, NEW a \in Blocks, NEW b \in Blocks
  PROVE  \A x \in Blocks : /\ AddPre(g, a, b)[x].code = g[x].code
                           /\ AddEdge(g, a, b)[x].code = g[x].code
<1> DEFINE p == [g[b] EXCEPT !.pre = Append(g[b].pre, a)]
           s == [g[a] EXCEPT !.succ = Append(g[a].succ, b)]
<1>1. g[a] \in BlockRecord /\ g[b] \in BlockRecord
  BY DEF Graph
<1>2. p.code = g[b].code /\ s.code = g[a].code
  BY <1>1 DEF BlockRecord
<1>3. AddPre(g, a, b) = [g EXCEPT ![b] = p] /\ AddEdge(g, a, b) = [g EXCEPT ![a] = s]
  BY DEF AddPre, AddEdge
<1>. HIDE DEF p, s
<1>. QED BY <1>2, <1>3 DEF Graph

\* A branch put into an open block.
LEMMA CreateBrEnds ==
  ASSUME NEW g \in Graph, NEW b \in Blocks, NEW t \in Blocks,
         OneEnd(g, b), Ending(g, b) = "open", NEW h, h = CreateBr(g, b, t)
  PROVE  /\ h \in Graph /\ Elsewhere(g, h, b)
         /\ OneEnd(h, b) /\ Ending(h, b) = "br" /\ Succs(h, b) = Succs(g, b) \union {t}
<1> DEFINE p == AddPre(g, b, t)
           e == AddEdge(p, b, t)
<1>1. p \in Graph /\ \A x \in Blocks : p[x].code = g[x].code
  BY EdgeLists, EdgeEnds
<1>2. e \in Graph /\ \A x \in Blocks : e[x].code = g[x].code
  <2>. HIDE DEF p
  <2>. QED BY <1>1, EdgeLists, EdgeEnds
<1>3. h = Emit(e, b, "br")
  BY DEF CreateBr
<1>. HIDE DEF e, p
<1>4. \A x \in Blocks : OneEnd(e, x) = OneEnd(g, x) /\ Ending(e, x) = Ending(g, x)
  BY <1>2 DEF OneEnd, Ending, HasTerminator
<1>5. h \in Graph /\ Elsewhere(e, h, b) /\ OneEnd(h, b) /\ Ending(h, b) = "br"
  BY <1>2, <1>3, <1>4, EmitEnds
<1>6. /\ \A c \in Blocks \ {b} : Succs(h, c) = Succs(g, c)
      /\ Succs(h, b) = Succs(g, b) \union {t}
  BY CreateBrAddsEdge
<1>. QED BY <1>4, <1>5, <1>6 DEF Elsewhere

LEMMA CreateCondBrEnds ==
  ASSUME NEW g \in Graph, NEW b \in Blocks, NEW t \in Blocks, NEW f \in Blocks,
         OneEnd(g, b), Ending(g, b) = "open", NEW h, h = CreateCondBr(g, b, t, f)
  PROVE  /\ h \in Graph /\ Elsewhere(g, h, b)
         /\ OneEnd(h, b) /\ Ending(h, b) = "br" /\ Succs(h, b) = Succs(g, b) \union {t, f}
<1> DEFINE p1 == AddPre(g, b, t)
           p2 == AddPre(p1, b, f)
           e1 == AddEdge(p2, b, f)
           e2 == AddEdge(e1, b, t)
<1>1. p1 \in Graph /\ \A x \in Blocks : p1[x].code = g[x].code
  BY EdgeLists, EdgeEnds
<1>2. p2 \in Graph /\ \A x \in Blocks : p2[x].code = g[x].code
  <2>. HIDE DEF p1
  <2>. QED BY <1>1, EdgeLists, EdgeEnds
<1>3. e1 \in Graph /\ \A x \in Blocks : e1[x].code = g[x].code
  <2>. HIDE DEF p2
  <2>. QED BY <1>2, EdgeLists, EdgeEnds
<1>4. e2 \in Graph /\ \A x \in Blocks : e2[x].code = g[x].code
  <2>. HIDE DEF e1
  <2>. QED BY <1>3, EdgeLists, EdgeEnds
<1>5. h = Emit(e2, b, "br")
  BY DEF CreateCondBr
<1>. HIDE DEF e2, e1, p2, p1
<1>6. \A x \in Blocks : OneEnd(e2, x) = OneEnd(g, x) /\ Ending(e2, x) = Ending(g, x)
  BY <1>4 DEF OneEnd, Ending, HasTerminator
<1>7. h \in Graph /\ Elsewhere(e2, h, b) /\ OneEnd(h, b) /\ Ending(h, b) = "br"
  BY <1>4, <1>5, <1>6, EmitEnds
<1>8. /\ \A c \in Blocks \ {b} : Succs(h, c) = Succs(g, c)
      /\ Succs(h, b) = Succs(g, b) \union {t, f}
  BY CreateCondBrAddsEdges
<1>. QED BY <1>6, <1>7, <1>8 DEF Elsewhere

(***************************************************************************)
(* Ways out.                                                               *)
(***************************************************************************)
\* The edges and blocks of g are among those of h.
Grows(g, n, h, m) ==
  /\ n \in Nat /\ m \in Nat /\ n <= m
  /\ \A x \in 1 .. n : Succs(g, x) \subseteq Succs(h, x)

LEMMA TrapKept ==
  ASSUME NEW g, NEW n, NEW h, NEW m, Grows(g, n, h, m), NEW S, Trap(h, m, S)
  PROVE  Trap(g, n, S \intersect (1 .. n))
<1> DEFINE T == S \intersect (1 .. n)
<1> SUFFICES ASSUME NEW a \in 1 .. n, NEW b \in 1 .. n, b \in Succs(g, a), a \in S
             PROVE  b \in S
  BY DEF Trap, Closed, EdgesOf
<1>1. a \in 1 .. m /\ b \in 1 .. m /\ b \in Succs(h, a)
  BY DEF Grows
<1>2. <<a, b>> \in EdgesOf(h, m)
  BY <1>1 DEF EdgesOf
<1>. QED BY <1>2 DEF Trap, Closed

\* A trap holds the successors of its blocks.
LEMMA TrapSuccessor ==
  ASSUME NEW g, NEW n, NEW S, Trap(g, n, S), NEW a \in S, NEW b \in 1 .. n, b \in Succs(g, a)
  PROVE  b \in S
<1>1. <<a, b>> \in EdgesOf(g, n)
  BY DEF EdgesOf, Trap
<1>. QED BY <1>1 DEF Trap, Closed

\* Only the ending of b changes: the ways out that end there go on, and so do
\* those of the new blocks.
GoesOn(g, n, h, m, b) ==
  /\ \A x \in 1 .. n : x # b => Ending(h, x) = Ending(g, x)
  /\ \A S \in SUBSET (1 .. m) :
       Trap(h, m, S) /\ b \in S => WayOut(h, S)
  /\ \A S \in SUBSET (1 .. m) :
       Trap(h, m, S) /\ S # {} /\ S \intersect (1 .. n) = {} => WayOut(h, S)

LEMMA LeadsOutKept ==
  ASSUME NEW g, NEW n, NEW h, NEW m, NEW b,
         Grows(g, n, h, m), LeadsOut(g, n), GoesOn(g, n, h, m, b)
  PROVE  LeadsOut(h, m)
<1> SUFFICES ASSUME NEW S \in SUBSET (1 .. m), S # {}, Trap(h, m, S), b \notin S,
                    S \intersect (1 .. n) # {}
             PROVE  WayOut(h, S)
  BY DEF LeadsOut, GoesOn
<1>1. Trap(g, n, S \intersect (1 .. n))
  BY TrapKept
<1>2. PICK x \in S \intersect (1 .. n) : Ending(g, x) # "br"
  BY <1>1 DEF LeadsOut, WayOut
<1>. QED BY <1>2 DEF WayOut, GoesOn

(***************************************************************************)
(* The call stack.                                                         *)
(***************************************************************************)
\* What the frames wait for stays open; who comes to b comes to c.
LEMMA AwaitsKept ==
  ASSUME NEW g, NEW n, NEW h, NEW m, Grows(g, n, h, m), NEW b, NEW c, NEW f, Awaits(g, n, b, f),
         FrameOK(f, n), \A x \in Waits(f) : Ending(h, x) = "open" /\ x # c,
         f.kind = "whileCond" =>
           \A S \in SUBSET (1 .. m) : Trap(h, m, S) /\ b \in S => c \in S
  PROVE  Awaits(h, m, c, f)
<1> SUFFICES ASSUME NEW S \in SUBSET (1 .. m), Trap(h, m, S), f.conditionBB \in S,
                    f.kind \in {"whileCond", "whileBody"}
             PROVE  /\ f.kind = "whileCond" => c \in S
                    /\ f.kind = "whileBody" => f.retBB \in S
  BY DEF Awaits
<1>1. Trap(g, n, S \intersect (1 .. n)) /\ f.conditionBB \in 1 .. n
  BY TrapKept DEF FrameOK
<1>. QED BY <1>1 DEF Awaits

LEMMA WaitingAppend ==
  ASSUME NEW fs \in Seq(FrameRecord), NEW f
  PROVE  Waiting(Append(fs, f)) = Waiting(fs) \union Waits(f)
<1> DEFINE t == Append(fs, f)
<1>1. /\ Len(fs) \in Nat /\ Len(t) = Len(fs) + 1 /\ t[Len(t)] = f
      /\ \A i \in 1 .. Len(fs) : t[i] = fs[i]
      /\ \A i \in 1 .. Len(t) : i \in 1 .. Len(fs) \/ i = Len(t)
      /\ \A i \in 1 .. Len(fs) : i \in 1 .. Len(t)
      /\ Len(t) \in 1 .. Len(t)
  OBVIOUS
<1>. HIDE DEF t
<1>2. Waiting(t) = Waiting(fs) \union Waits(f)
  BY <1>1 DEF Waiting
<1>. QED BY <1>2 DEF t

LEMMA WaitingFront ==
  ASSUME NEW fs \in Seq(FrameRecord), fs # <<>>
  PROVE  Waiting(fs) = Waiting(Front(fs)) \union Waits(Last(fs))
<1> DEFINE t == Front(fs)
<1>1. /\ Len(fs) \in Nat \ {0} /\ Len(t) = Len(fs) - 1
      /\ \A i \in 1 .. Len(t) : t[i] = fs[i] /\ i \in 1 .. Len(fs)
      /\ Last(fs) = fs[Len(fs)]
  BY FrontOf
<1>. HIDE DEF t
<1>2. \A i \in 1 .. Len(fs) : i \in 1 .. Len(t) \/ i = Len(fs)
  BY <1>1
<1>3. Len(fs) \in 1 .. Len(fs)
  BY <1>1
<1>4. Waiting(fs) = Waiting(t) \union Waits(Last(fs))
  BY <1>1, <1>2, <1>3 DEF Waiting
<1>. QED BY <1>4 DEF t

LEMMA WaitsHeld == \A f : Waits(f) \subseteq Holds(f)
BY DEF Waits, Holds

\* The frames wait for existing blocks, other frames for others.
LEMMA WaitingCreated ==
  ASSUME NEW n, NEW fs, NEW p, FramesOK(fs, p, n)
  PROVE  Waiting(fs) \subseteq 1 .. n
BY HoldsCreated, WaitsHeld DEF Waiting

LEMMA WaitingApart ==
  ASSUME NEW g, NEW fs, NEW Y, Apart(g, fs, Y)
  PROVE  Waiting(fs) \intersect Y = {}
BY WaitsHeld DEF Waiting, Apart

\* The frames fs are still awaited from c in h.
LEMMA AllAwait ==
  ASSUME NEW g, NEW n, NEW h, NEW m, Grows(g, n, h, m), NEW b, NEW c, NEW fs, NEW p,
         FramesOK(fs, p, n), \A i \in 1 .. Len(fs) : Awaits(g, n, b, fs[i]),
         \A x \in Waiting(fs) : Ending(h, x) = Ending(g, x) /\ x # c,
         p = "expr" => \A S \in SUBSET (1 .. m) : Trap(h, m, S) /\ b \in S => c \in S
  PROVE  \A i \in 1 .. Len(fs) : Awaits(h, m, c, fs[i])
<1> SUFFICES ASSUME NEW i \in 1 .. Len(fs) PROVE Awaits(h, m, c, fs[i])
  OBVIOUS
<1> DEFINE f == fs[i]
<1>1. FrameOK(f, n) /\ (f.kind = "whileCond" => p = "expr") /\ Awaits(g, n, b, f)
  BY DEF FramesOK
<1>2. \A x \in Waits(f) : x \in Waiting(fs)
  BY DEF Waiting
<1>. HIDE DEF f
<1>3. \A x \in Waits(f) : Ending(h, x) = "open" /\ x # c
  BY <1>1, <1>2 DEF Awaits
<1>4. Awaits(h, m, c, f)
  BY <1>1, <1>3, AwaitsKept
<1>. QED BY <1>4 DEF f

\* A frame on top of awaited ones.
LEMMA AwaitOneMore ==
  ASSUME NEW fs \in Seq(FrameRecord), NEW f, NEW g, NEW n, NEW b, Awaits(g, n, b, f),
         \A i \in 1 .. Len(fs) : Awaits(g, n, b, fs[i])
  PROVE  \A i \in 1 .. Len(Append(fs, f)) : Awaits(g, n, b, Append(fs, f)[i])
<1> DEFINE t == Append(fs, f)
<1>1. /\ Len(fs) \in Nat /\ Len(t) = Len(fs) + 1 /\ t[Len(t)] = f
      /\ \A i \in 1 .. Len(fs) : t[i] = fs[i]
      /\ \A i \in 1 .. Len(t) : i \in 1 .. Len(fs) \/ i = Len(t)
  OBVIOUS
<1>. HIDE DEF t
<1>2. \A i \in 1 .. Len(t) : Awaits(g, n, b, t[i])
  BY <1>1
<1>. QED BY <1>2 DEF t

(***************************************************************************)
(* Each action preserves Ended.                                            *)
(***************************************************************************)
Terminating == Ended(bbs, nb, BB_, frames, pc)
NextTerminating == Ended(bbs', nb', BB_', frames', pc')

\* The blocks D change: they get successors, or are new.
LEMMA Changed ==
  ASSUME Good(bbs, nb, BB_, frames, pc), Terminating, NEW D, nb' \in Nat, nb <= nb',
         \A x \in Blocks \ D : /\ OneEnd(bbs', x) = OneEnd(bbs, x)
                               /\ Ending(bbs', x) = Ending(bbs, x)
                               /\ Succs(bbs', x) = Succs(bbs, x),
         \A x \in D : OneEnd(bbs', x) /\ (Ending(bbs', x) # "br" => Succs(bbs', x) = {}),
         \A x \in D : x \in 1 .. nb => Succs(bbs, x) \subseteq Succs(bbs', x)
  PROVE  Ends(bbs') /\ Grows(bbs, nb, bbs', nb')
<1>1. nb \in Nat /\ 1 .. nb \subseteq Blocks
  BY EdgeTypes
<1>2. Ends(bbs')
  BY DEF Terminating, Ended, Ends
<1>3. Grows(bbs, nb, bbs', nb')
  BY <1>1 DEF Grows
<1>. QED BY <1>2, <1>3

\* The insertion point while a statement or an expression is visited.
LEMMA OpenPoint ==
  ASSUME Good(bbs, nb, BB_, frames, pc), Terminating, pc \in {"stmt", "expr"}
  PROVE  /\ OneEnd(bbs, BB_) /\ Ending(bbs, BB_) = "open" /\ Succs(bbs, BB_) = {}
         /\ BB_ \in Blocks
BY EdgeTypes DEF Terminating, Ended, Ends

\* The innermost frame and those below it: they wait for different blocks.
LEMMA Innermost ==
  ASSUME Good(bbs, nb, BB_, frames, pc), Edged, Terminating, frames # <<>>
  PROVE  /\ Front(frames) \in Seq(FrameRecord)
         /\ FramesOK(Front(frames), "stmt", nb)
         /\ \A i \in 1 .. Len(Front(frames)) : Awaits(bbs, nb, BB_, Front(frames)[i])
         /\ Waiting(frames) = Waiting(Front(frames)) \union Waits(Last(frames))
         /\ Waiting(Front(frames)) \intersect Holds(Last(frames)) = {}
         /\ Awaits(bbs, nb, BB_, Last(frames)) /\ FrameOK(Last(frames), nb)
         /\ BB_ \notin Waiting(Front(frames)) /\ Waiting(frames) \subseteq 1 .. nb
         /\ \A x \in Waiting(frames) : Ending(bbs, x) = "open"
<1> DEFINE t == Front(frames)
<1>1. frames \in Seq(FrameRecord) /\ FramesOK(frames, pc, nb)
  BY EdgeTypes
<1>2. /\ t \in Seq(FrameRecord) /\ Last(frames) = frames[Len(frames)]
      /\ Len(frames) \in 1 .. Len(frames)
      /\ \A i \in 1 .. Len(t) : t[i] = frames[i] /\ i \in 1 .. Len(frames)
  BY <1>1, FrontOf
<1>3. \A i \in 1 .. Len(frames) : Awaits(bbs, nb, BB_, frames[i])
  BY DEF Terminating, Ended
<1>4. /\ FramesOK(t, "stmt", nb) /\ Apart(bbs, t, Holds(Last(frames)))
      /\ FrameOK(Last(frames), nb)
  BY Below
<1>5. Waiting(frames) = Waiting(t) \union Waits(Last(frames))
  BY <1>1, WaitingFront
<1>. HIDE DEF t
<1>6. Awaits(bbs, nb, BB_, Last(frames)) /\ \A i \in 1 .. Len(t) : Awaits(bbs, nb, BB_, t[i])
  BY <1>2, <1>3
<1>7. \A x \in Waiting(frames) : Ending(bbs, x) = "open" /\ x # BB_
  BY <1>3 DEF Waiting, Awaits
<1>8. Waiting(t) \intersect Holds(Last(frames)) = {}
  BY <1>4, WaitingApart
<1>9. Waiting(frames) \subseteq 1 .. nb
  BY <1>1, WaitingCreated
<1>. QED BY <1>2, <1>4, <1>5, <1>6, <1>7, <1>8, <1>9 DEF t

\* The insertion point may get a return; a frame that waits for nothing may
\* come or go.
LEMMA PlainEnded ==
  ASSUME Good(bbs, nb, BB_, frames, pc), Edged, Terminating, nb' = nb, BB_' = BB_,
         Elsewhere(bbs, bbs', BB_), OneEnd(bbs', BB_), Succs(bbs', BB_) = Succs(bbs, BB_),
         \/ Ending(bbs', BB_) = Ending(bbs, BB_)
         \/ Ending(bbs, BB_) = "open" /\ Ending(bbs', BB_) = "ret",
         \/ frames' = frames
         \/ frames # <<>> /\ frames' = Front(frames) /\ Waits(Last(frames)) = {}
         \/ \E kind \in {"list", "exprStmt", "ifCond", "return"} :
              frames' = Append(frames, Frame(kind)),
         pc' \in {"stmt", "expr"} => Ending(bbs', BB_) = "open",
         pc' = "end" => frames' = <<>> /\ Ending(bbs', BB_) # "open"
  PROVE  NextTerminating
<1>1. /\ nb \in Nat /\ 1 .. nb \subseteq Blocks /\ BB_ \in Blocks
      /\ frames \in Seq(FrameRecord) /\ FramesOK(frames, pc, nb)
  BY EdgeTypes
<1>2. Ends(bbs) /\ LeadsOut(bbs, nb) /\ \A i \in 1 .. Len(frames) : Awaits(bbs, nb, BB_, frames[i])
  BY DEF Terminating, Ended
<1>3. Ends(bbs') /\ Grows(bbs, nb, bbs', nb)
  <2>1. \A x \in {BB_} : OneEnd(bbs', x) /\ (Ending(bbs', x) # "br" => Succs(bbs', x) = {})
    BY <1>1, <1>2 DEF Ends
  <2>2. \A x \in {BB_} : x \in 1 .. nb => Succs(bbs, x) \subseteq Succs(bbs', x)
    OBVIOUS
  <2>3. \A x \in Blocks \ {BB_} : /\ OneEnd(bbs', x) = OneEnd(bbs, x)
                                  /\ Ending(bbs', x) = Ending(bbs, x)
                                  /\ Succs(bbs', x) = Succs(bbs, x)
    BY DEF Elsewhere
  <2>4. nb' \in Nat /\ nb <= nb'
    BY <1>1
  <2>5. Ends(bbs') /\ Grows(bbs, nb, bbs', nb')
    BY <2>1, <2>2, <2>3, <2>4, Changed, ZenonT(30)
  <2>. QED BY <2>5
<1>4. \A x \in Blocks : Ending(bbs, x) # "br" => Ending(bbs', x) # "br"
  BY DEF Elsewhere
<1>5. LeadsOut(bbs', nb)
  <2> SUFFICES ASSUME NEW S \in SUBSET (1 .. nb), S # {}, Trap(bbs', nb, S)
               PROVE  WayOut(bbs', S)
    BY DEF LeadsOut
  <2>1. Trap(bbs, nb, S \intersect (1 .. nb)) /\ S \intersect (1 .. nb) = S
    BY <1>3, TrapKept
  <2>2. PICK x \in S : Ending(bbs, x) # "br"
    BY <1>2, <2>1 DEF LeadsOut, WayOut
  <2>. QED BY <1>1, <1>4, <2>2 DEF WayOut
<1>6. \A x \in Blocks \ {BB_} : Ending(bbs', x) = Ending(bbs, x)
  BY DEF Elsewhere
<1>7. \A i \in 1 .. Len(frames) : Awaits(bbs', nb, BB_, frames[i])
  <2>1. Waiting(frames) \subseteq 1 .. nb
    BY <1>1, WaitingCreated
  <2>2. \A x \in Waiting(frames) : x # BB_
    BY <1>2 DEF Waiting, Awaits
  <2>3. \A x \in Waiting(frames) : Ending(bbs', x) = Ending(bbs, x) /\ x # BB_
    BY <1>1, <1>6, <2>1, <2>2
  <2>. QED BY <1>1, <1>2, <1>3, <2>3, AllAwait
<1>8. \A x \in 1 .. nb : Ending(bbs', x) = "open" => x = BB_ \/ x \in Waiting(frames)
  BY <1>1, <1>6 DEF Terminating, Ended
<1>9. /\ \A i \in 1 .. Len(frames') : Awaits(bbs', nb, BB_, frames'[i])
      /\ Waiting(frames) \subseteq Waiting(frames')
  <2>1. CASE frames' = frames
    BY <1>7, <2>1
  <2>2. CASE frames # <<>> /\ frames' = Front(frames) /\ Waits(Last(frames)) = {}
    <3>1. Waiting(frames) = Waiting(Front(frames))
      BY <1>1, <2>2, WaitingFront
    <3>2. \A i \in 1 .. Len(Front(frames)) :
            Front(frames)[i] = frames[i] /\ i \in 1 .. Len(frames)
      BY <1>1, <2>2, FrontOf
    <3>. QED BY <1>7, <2>2, <3>1, <3>2
  <2>3. CASE \E kind \in {"list", "exprStmt", "ifCond", "return"} :
               frames' = Append(frames, Frame(kind))
    <3>1. PICK kind \in {"list", "exprStmt", "ifCond", "return"} :
            frames' = Append(frames, Frame(kind))
      BY <2>3
    <3> DEFINE f == Frame(kind)
    <3>2. f.kind = kind
      BY DEF Frame
    <3>3. frames' = Append(frames, f)
      BY <3>1
    <3>. HIDE DEF f
    <3>4. Waits(f) = {}
      BY <3>2 DEF Waits
    <3>5. Awaits(bbs', nb, BB_, f)
      BY <3>2, <3>4 DEF Awaits
    <3>6. Waiting(frames') = Waiting(frames) \union Waits(f)
      BY <1>1, <3>3, WaitingAppend
    <3>7. \A i \in 1 .. Len(frames') : Awaits(bbs', nb, BB_, frames'[i])
      BY <1>1, <1>7, <3>3, <3>5, AwaitOneMore
    <3>. QED BY <3>6, <3>7
  <2>. QED BY <2>1, <2>2, <2>3
<1>10. \A x \in 1 .. nb : Ending(bbs', x) = "open" => x = BB_ \/ x \in Waiting(frames')
  BY <1>8, <1>9
<1>. QED BY <1>3, <1>5, <1>9, <1>10 DEF NextTerminating, Ended

\* Steps that make no block and no edge.
LEMMA PlainStepsEnded ==
  ASSUME Good(bbs, nb, BB_, frames, pc), Edged, Terminating,
         "ifelse" \notin Kinds, ~CodeAfterReturn,
         \/ VisitEmpty \/ VisitExpressionStmt \/ VisitCompoundStmt
         \/ VisitSelectionStmt \/ VisitReturnStmt
         \/ FinishExpressionStmt \/ FinishReturn
         \/ NextStatement \/ EndCompoundStmt \/ FinishFunction
  PROVE  NextTerminating
<1>1. /\ bbs \in Graph /\ BB_ \in Blocks /\ (pc = "expr" => frames # <<>>)
      /\ OneEnd(bbs, BB_) /\ Elsewhere(bbs, bbs, BB_)
  BY EdgeTypes DEF Good, Terminating, Ended, Ends, Elsewhere
<1>2. pc \in {"stmt", "expr"} => Ending(bbs, BB_) = "open"
  BY OpenPoint
<1>3. ASSUME NEW g \in MaybeOp(bbs, BB_), Ending(bbs, BB_) = "open"
      PROVE  /\ g \in Graph /\ Elsewhere(bbs, g, BB_) /\ OneEnd(g, BB_)
             /\ Succs(g, BB_) = Succs(bbs, BB_) /\ Ending(g, BB_) = "open"
  <2>1. g = bbs \/ g = Emit(bbs, BB_, "op")
    BY <1>3 DEF MaybeOp
  <2>. QED BY <1>1, <1>3, <2>1, EmitEnds
<1>4. ASSUME NEW g \in Graph, OneEnd(g, BB_), Ending(g, BB_) = "open",
             NEW h, h = Emit(g, BB_, "ret")
      PROVE  /\ Elsewhere(g, h, BB_) /\ OneEnd(h, BB_)
             /\ Succs(h, BB_) = Succs(g, BB_) /\ Ending(h, BB_) = "ret"
  BY <1>1, <1>4, EmitEnds
<1>5. \A f : f.kind \in {"list", "exprStmt", "return"} => Waits(f) = {}
  BY DEF Waits
<1>6. CASE VisitEmpty
  BY <1>1, <1>6, PlainEnded DEF VisitEmpty
<1>7. CASE VisitExpressionStmt
  BY <1>1, <1>2, <1>7, PlainEnded DEF VisitExpressionStmt, Visit, Push
<1>8. CASE VisitCompoundStmt
  BY <1>2, <1>3, <1>8, PlainEnded DEF VisitCompoundStmt, Visit, Push
<1>9. CASE VisitSelectionStmt
  <2>1. ~Visit("ifelse")
    BY DEF Visit
  <2>. QED BY <1>1, <1>2, <1>9, <2>1, PlainEnded DEF VisitSelectionStmt, Visit, Push
<1>10. CASE VisitReturnStmt
  <2>1. CASE bbs' = Emit(bbs, BB_, "ret") /\ pc' = "done" /\ UNCHANGED frames
    BY <1>1, <1>2, <1>4, <1>10, <2>1, PlainEnded DEF VisitReturnStmt, Visit
  <2>2. CASE frames' = Push(Frame("return")) /\ UNCHANGED bbs
    BY <1>1, <1>2, <1>10, <2>2, PlainEnded DEF VisitReturnStmt, Visit, Push
  <2>. QED BY <1>10, <2>1, <2>2 DEF VisitReturnStmt
<1>11. CASE FinishExpressionStmt
  BY <1>1, <1>2, <1>3, <1>5, <1>11, PlainEnded
     DEF FinishExpressionStmt, ExprVisited, Pop, Top
<1>12. CASE FinishReturn
  <2>1. PICK g \in MaybeOp(bbs, BB_) : bbs' = Emit(g, BB_, "ret")
    BY <1>12 DEF FinishReturn
  <2>2. pc = "expr" /\ Ending(bbs, BB_) = "open"
    BY <1>2, <1>12 DEF FinishReturn, ExprVisited
  <2>3. /\ Elsewhere(bbs, g, BB_) /\ Elsewhere(g, bbs', BB_) /\ OneEnd(bbs', BB_)
        /\ Succs(bbs', BB_) = Succs(bbs, BB_) /\ Ending(bbs', BB_) = "ret"
    BY <1>3, <1>4, <2>1, <2>2
  <2>4. Elsewhere(bbs, bbs', BB_)
    BY <2>3 DEF Elsewhere
  <2>. QED BY <1>1, <1>5, <1>12, <2>2, <2>3, <2>4, PlainEnded DEF FinishReturn, ExprVisited, Pop, Top
<1>13. CASE NextStatement
  <2>1. Ending(bbs, BB_) = "open"
    BY <1>13 DEF NextStatement, Ending
  <2>. QED BY <1>1, <1>13, <2>1, PlainEnded DEF NextStatement
<1>14. CASE EndCompoundStmt
  BY <1>1, <1>5, <1>14, PlainEnded DEF EndCompoundStmt, StmtVisited, Pop, Top
<1>15. CASE FinishFunction
  <2>1. CASE HasTerminator(bbs, BB_)
    <3>1. Ending(bbs, BB_) # "open"
      BY <2>1 DEF Ending, HasTerminator
    <3>. QED BY <1>1, <1>15, <2>1, <3>1, PlainEnded DEF FinishFunction
  <2>2. CASE ~HasTerminator(bbs, BB_)
    <3>1. Ending(bbs, BB_) = "open" /\ bbs' = Emit(bbs, BB_, "ret")
      BY <1>15, <2>2 DEF FinishFunction, Ending
    <3>. QED BY <1>1, <1>4, <1>15, <3>1, PlainEnded DEF FinishFunction
  <2>. QED BY <2>1, <2>2
<1>. QED BY <1>6, <1>7, <1>8, <1>9, <1>10, <1>11, <1>12, <1>13, <1>14, <1>15

\* The blocks of a conditional branch that makes its two targets.
LEMMA TwoWayEnds ==
  ASSUME NEW g \in Graph, NEW n \in Nat, n + 2 <= MaxBlocks, NEW b \in 1 .. n,
         NEW name1 \in Labels, NEW name2 \in Labels,
         OneEnd(g, b), Ending(g, b) = "open", Succs(g, b) = {},
         NEW h, h = TwoWay(g, n, b, name1, name2)
  PROVE  /\ h \in Graph
         /\ \A x \in Blocks \ {b, n + 1, n + 2} :
              /\ OneEnd(h, x) = OneEnd(g, x) /\ Ending(h, x) = Ending(g, x)
              /\ Succs(h, x) = Succs(g, x)
         /\ OneEnd(h, b) /\ Ending(h, b) = "br" /\ Succs(h, b) = {n + 1, n + 2}
         /\ \A x \in {n + 1, n + 2} : OneEnd(h, x) /\ Ending(h, x) = "open" /\ Succs(h, x) = {}
<1> DEFINE t == n + 1
           f == n + 2
           g0 == Emit(g, b, "op")
           g1 == Create(g0, t, name1)
           g2 == Create(g1, f, name2)
<1>1. t \in Blocks /\ f \in Blocks /\ b \in Blocks /\ t # b /\ f # b /\ t # f
  BY BoundsAssumption DEF Blocks
<1>2. h = CreateCondBr(g2, b, t, f)
  BY DEF TwoWay
<1>. HIDE DEF t, f
<1>3. /\ g0 \in Graph /\ Elsewhere(g, g0, b)
      /\ OneEnd(g0, b) /\ Ending(g0, b) = "open" /\ Succs(g0, b) = {}
  BY <1>1, EmitEnds
<1>. HIDE DEF g0
<1>4. /\ g1 \in Graph /\ Elsewhere(g0, g1, t)
      /\ OneEnd(g1, t) /\ Ending(g1, t) = "open" /\ Succs(g1, t) = {}
  BY <1>1, <1>3, CreateEnds
<1>. HIDE DEF g1
<1>5. /\ g2 \in Graph /\ Elsewhere(g1, g2, f)
      /\ OneEnd(g2, f) /\ Ending(g2, f) = "open" /\ Succs(g2, f) = {}
  BY <1>1, <1>4, CreateEnds
<1>. HIDE DEF g2
<1>6. OneEnd(g2, b) /\ Ending(g2, b) = "open" /\ Succs(g2, b) = {}
  BY <1>1, <1>3, <1>4, <1>5 DEF Elsewhere
<1>7. /\ h \in Graph /\ Elsewhere(g2, h, b)
      /\ OneEnd(h, b) /\ Ending(h, b) = "br" /\ Succs(h, b) = {t, f}
  BY <1>1, <1>2, <1>5, <1>6, CreateCondBrEnds
<1>8. \A x \in Blocks \ {b, t, f} :
        /\ OneEnd(h, x) = OneEnd(g, x) /\ Ending(h, x) = Ending(g, x)
        /\ Succs(h, x) = Succs(g, x)
  BY <1>3, <1>4, <1>5, <1>7 DEF Elsewhere
<1>9. \A x \in {t, f} : OneEnd(h, x) /\ Ending(h, x) = "open" /\ Succs(h, x) = {}
  BY <1>1, <1>4, <1>5, <1>7 DEF Elsewhere
<1>. QED BY <1>7, <1>8, <1>9 DEF t, f

\* The index test of an array access: both of its blocks lead to passBB.
LEMMA VisitVarIndexedEnded ==
  ASSUME Good(bbs, nb, BB_, frames, pc), Edged, Terminating, VisitVarIndexed
  PROVE  NextTerminating
<1>0. PICK failName \in Labels, passName \in Labels : IndexTested(failName, passName)
  BY IndexTest
<1> DEFINE fail == nb + 1
           pass == nb + 2
           tested == TwoWay(bbs, nb, BB_, failName, passName)
           called == Emit(tested, fail, "op")
           failed == CreateBr(called, fail, pass)
           D == {BB_, fail, pass}
<1>1. /\ nb + 2 <= MaxBlocks /\ nb' = pass /\ BB_' = pass /\ pc = "expr" /\ pc' = "expr"
      /\ frames' = frames /\ bbs' = Emit(failed, pass, "op")
  BY <1>0 DEF IndexTested
<1>2. /\ fail \in Blocks /\ pass \in Blocks /\ pass \in Nat /\ nb <= pass /\ nb \in Nat
      /\ fail # pass /\ fail \notin 1 .. nb /\ pass \notin 1 .. nb
      /\ BB_ # fail /\ BB_ # pass /\ BB_ \in Blocks /\ BB_ \in 1 .. nb
      /\ 1 .. nb \subseteq Blocks /\ 1 .. nb \subseteq 1 .. pass
      /\ pass \in 1 .. pass /\ fail \in 1 .. pass
      /\ \A x \in 1 .. pass : x \in 1 .. nb \/ x = fail \/ x = pass
  BY <1>1, EdgeTypes, BoundsAssumption DEF Blocks
<1>3. /\ tested \in Graph
      /\ \A x \in Blocks \ D :
           /\ OneEnd(tested, x) = OneEnd(bbs, x) /\ Ending(tested, x) = Ending(bbs, x)
           /\ Succs(tested, x) = Succs(bbs, x)
      /\ OneEnd(tested, BB_) /\ Ending(tested, BB_) = "br" /\ Succs(tested, BB_) = {fail, pass}
      /\ \A x \in {fail, pass} :
           OneEnd(tested, x) /\ Ending(tested, x) = "open" /\ Succs(tested, x) = {}
  <2>1. failName \in Labels /\ passName \in Labels
    OBVIOUS
  <2>2. bbs \in Graph /\ nb \in Nat /\ BB_ \in 1 .. nb
    BY EdgeTypes
  <2>3. OneEnd(bbs, BB_) /\ Ending(bbs, BB_) = "open" /\ Succs(bbs, BB_) = {}
    BY <1>1, OpenPoint
  <2>4. tested = TwoWay(bbs, nb, BB_, failName, passName) /\ nb + 2 <= MaxBlocks
    BY <1>1
  <2>. HIDE DEF tested
  <2>. QED BY <2>1, <2>2, <2>3, <2>4, TwoWayEnds
<1>. HIDE DEF tested, fail, pass
<1>4. /\ called \in Graph /\ Elsewhere(tested, called, fail)
      /\ OneEnd(called, fail) /\ Ending(called, fail) = "open" /\ Succs(called, fail) = {}
  BY <1>2, <1>3, EmitEnds
<1>. HIDE DEF called
<1>5. /\ failed \in Graph /\ Elsewhere(called, failed, fail)
      /\ OneEnd(failed, fail) /\ Ending(failed, fail) = "br" /\ Succs(failed, fail) = {pass}
  BY <1>2, <1>4, CreateBrEnds
<1>. HIDE DEF failed
<1>6. OneEnd(failed, pass) /\ Ending(failed, pass) = "open" /\ Succs(failed, pass) = {}
  BY <1>2, <1>3, <1>4, <1>5 DEF Elsewhere
<1>7. /\ Elsewhere(failed, bbs', pass)
      /\ OneEnd(bbs', pass) /\ Ending(bbs', pass) = "open" /\ Succs(bbs', pass) = {}
  BY <1>1, <1>2, <1>5, <1>6, EmitEnds
<1>8. \A x \in Blocks \ D : /\ OneEnd(bbs', x) = OneEnd(bbs, x)
                            /\ Ending(bbs', x) = Ending(bbs, x)
                            /\ Succs(bbs', x) = Succs(bbs, x)
  BY <1>3, <1>4, <1>5, <1>7 DEF Elsewhere
<1>9. /\ OneEnd(bbs', BB_) /\ Ending(bbs', BB_) = "br" /\ Succs(bbs', BB_) = {fail, pass}
      /\ OneEnd(bbs', fail) /\ Ending(bbs', fail) = "br" /\ Succs(bbs', fail) = {pass}
  BY <1>2, <1>3, <1>4, <1>5, <1>7 DEF Elsewhere
<1>10. Succs(bbs, BB_) = {}
  BY <1>1, OpenPoint
<1>11. Ends(bbs') /\ Grows(bbs, nb, bbs', nb')
  <2>1. \A x \in D : OneEnd(bbs', x) /\ (Ending(bbs', x) # "br" => Succs(bbs', x) = {})
    BY <1>7, <1>9
  <2>2. \A x \in D : x \in 1 .. nb => Succs(bbs, x) \subseteq Succs(bbs', x)
    BY <1>2, <1>10
  <2>3. nb' \in Nat /\ nb <= nb'
    BY <1>1, <1>2
  <2>. HIDE DEF D
  <2>. QED BY <1>8, <2>1, <2>2, <2>3, Changed
<1>12. ASSUME NEW S, Trap(bbs', pass, S)
       PROVE  BB_ \in S \/ fail \in S => pass \in S
  BY <1>2, <1>9, <1>12, TrapSuccessor
<1>13. LeadsOut(bbs', pass)
  <2>1. \A x \in 1 .. nb : x # BB_ => Ending(bbs', x) = Ending(bbs, x)
    BY <1>2, <1>8
  <2>2. \A S \in SUBSET (1 .. pass) :
          Trap(bbs', pass, S) /\ BB_ \in S => WayOut(bbs', S)
    BY <1>7, <1>12 DEF WayOut
  <2>3. \A S \in SUBSET (1 .. pass) :
          Trap(bbs', pass, S) /\ S # {} /\ S \intersect (1 .. nb) = {}
            => WayOut(bbs', S)
    BY <1>2, <1>7, <1>12 DEF WayOut
  <2>4. GoesOn(bbs, nb, bbs', pass, BB_)
    BY <2>1, <2>2, <2>3 DEF GoesOn
  <2>5. Grows(bbs, nb, bbs', pass) /\ LeadsOut(bbs, nb)
    BY <1>1, <1>11 DEF Terminating, Ended
  <2>. QED BY <2>4, <2>5, LeadsOutKept
<1>14. \A i \in 1 .. Len(frames) : Awaits(bbs', pass, pass, frames[i])
  <2>1. FramesOK(frames, pc, nb) /\ \A i \in 1 .. Len(frames) : Awaits(bbs, nb, BB_, frames[i])
    BY EdgeTypes DEF Terminating, Ended
  <2>2. \A x \in Waiting(frames) : Ending(bbs', x) = Ending(bbs, x) /\ x # pass
    <3>1. Waiting(frames) \subseteq 1 .. nb
      BY <2>1, WaitingCreated
    <3>2. BB_ \notin Waiting(frames)
      BY <2>1 DEF Waiting, Awaits
    <3>. QED BY <1>2, <1>8, <3>1, <3>2
  <2>3. \A S \in SUBSET (1 .. pass) : Trap(bbs', pass, S) /\ BB_ \in S => pass \in S
    BY <1>12
  <2>4. Grows(bbs, nb, bbs', pass)
    BY <1>1, <1>11
  <2>. QED BY <2>1, <2>2, <2>3, <2>4, AllAwait
<1>15. \A x \in 1 .. pass : Ending(bbs', x) = "open" => x = pass \/ x \in Waiting(frames)
  BY <1>2, <1>8, <1>9 DEF Terminating, Ended
<1>. QED BY <1>1, <1>7, <1>11, <1>13, <1>14, <1>15 DEF NextTerminating, Ended

\* if (e) s after e: the join waits for the end of s.
LEMMA BranchIfEnded ==
  ASSUME Good(bbs, nb, BB_, frames, pc), Edged, Terminating, BranchIf
  PROVE  NextTerminating
<1> DEFINE t == nb + 1
           r == nb + 2
           f == [Frame("ifTrue") EXCEPT !.retBB = r]
           rest == Front(frames)
           D == {BB_, t, r}
<1>1. /\ r <= MaxBlocks /\ nb' = r /\ BB_' = t /\ frames' = Append(rest, f)
      /\ frames # <<>> /\ bbs' = TwoWay(bbs, nb, BB_, "true", "ret")
      /\ pc = "expr" /\ pc' = "stmt" /\ Last(frames).kind = "ifCond"
  BY DEF BranchIf, ExprVisited, Top, Replace, Good, TwoWay
<1>2. /\ t \in Blocks /\ r \in Blocks /\ r \in Nat /\ nb <= r /\ nb \in Nat
      /\ t # r /\ t \notin 1 .. nb /\ r \notin 1 .. nb
      /\ BB_ # t /\ BB_ # r /\ BB_ \in Blocks /\ BB_ \in 1 .. nb
      /\ 1 .. nb \subseteq Blocks /\ t \in 1 .. r /\ r \in 1 .. r
      /\ \A x \in 1 .. r : x \in 1 .. nb \/ x = t \/ x = r
  BY <1>1, EdgeTypes, BoundsAssumption DEF Blocks
<1>3. /\ \A x \in Blocks \ D :
           /\ OneEnd(bbs', x) = OneEnd(bbs, x) /\ Ending(bbs', x) = Ending(bbs, x)
           /\ Succs(bbs', x) = Succs(bbs, x)
      /\ OneEnd(bbs', BB_) /\ Ending(bbs', BB_) = "br" /\ Succs(bbs', BB_) = {t, r}
      /\ \A x \in {t, r} : OneEnd(bbs', x) /\ Ending(bbs', x) = "open" /\ Succs(bbs', x) = {}
  <2>1. "true" \in Labels /\ "ret" \in Labels
    BY DEF Labels, FixedLabels
  <2>2. bbs \in Graph /\ nb \in Nat /\ BB_ \in 1 .. nb /\ nb + 2 <= MaxBlocks
    BY <1>1, EdgeTypes
  <2>3. OneEnd(bbs, BB_) /\ Ending(bbs, BB_) = "open" /\ Succs(bbs, BB_) = {}
    BY <1>1, OpenPoint
  <2>. QED BY <1>1, <2>1, <2>2, <2>3, TwoWayEnds
<1>4. f.kind = "ifTrue" /\ f.retBB = r
  BY DEF Frame
<1>5. Succs(bbs, BB_) = {}
  BY <1>1, OpenPoint
<1>. HIDE DEF f, t, r
<1>6. Ends(bbs') /\ Grows(bbs, nb, bbs', nb')
  <2>1. \A x \in D : OneEnd(bbs', x) /\ (Ending(bbs', x) # "br" => Succs(bbs', x) = {})
    BY <1>3
  <2>2. \A x \in D : x \in 1 .. nb => Succs(bbs, x) \subseteq Succs(bbs', x)
    BY <1>2, <1>5
  <2>3. nb' \in Nat /\ nb <= nb'
    BY <1>1, <1>2
  <2>. HIDE DEF D
  <2>. QED BY <1>3, <2>1, <2>2, <2>3, Changed
<1>7. LeadsOut(bbs', r)
  <2>1. \A x \in 1 .. nb : x # BB_ => Ending(bbs', x) = Ending(bbs, x)
    BY <1>2, <1>3
  <2>2. \A S \in SUBSET (1 .. r) :
          Trap(bbs', r, S) /\ BB_ \in S => WayOut(bbs', S)
    <3>1. \A S \in SUBSET (1 .. r) : Trap(bbs', r, S) /\ BB_ \in S => r \in S
      BY <1>2, <1>3, TrapSuccessor
    <3>. QED BY <1>3, <3>1 DEF WayOut
  <2>3. \A S \in SUBSET (1 .. r) :
          Trap(bbs', r, S) /\ S # {} /\ S \intersect (1 .. nb) = {}
            => WayOut(bbs', S)
    BY <1>2, <1>3 DEF WayOut
  <2>4. GoesOn(bbs, nb, bbs', r, BB_)
    BY <2>1, <2>2, <2>3 DEF GoesOn
  <2>5. Grows(bbs, nb, bbs', r) /\ LeadsOut(bbs, nb)
    BY <1>1, <1>6 DEF Terminating, Ended
  <2>. QED BY <2>4, <2>5, LeadsOutKept
<1>8. Waits(Last(frames)) = {} /\ Waits(f) = {r}
  BY <1>1, <1>4 DEF Waits
<1>9. /\ rest \in Seq(FrameRecord) /\ Waiting(rest) = Waiting(frames)
      /\ FramesOK(rest, "stmt", nb) /\ \A i \in 1 .. Len(rest) : Awaits(bbs, nb, BB_, rest[i])
      /\ Waiting(rest) \subseteq 1 .. nb /\ BB_ \notin Waiting(rest)
  BY <1>1, <1>8, Innermost
<1>. HIDE DEF rest
<1>10. \A i \in 1 .. Len(rest) : Awaits(bbs', r, t, rest[i])
  <2>1. \A x \in Waiting(rest) : Ending(bbs', x) = Ending(bbs, x) /\ x # t
    BY <1>2, <1>3, <1>9
  <2>2. Grows(bbs, nb, bbs', r)
    BY <1>1, <1>6
  <2>. QED BY <1>9, <2>1, <2>2, AllAwait
<1>11. Awaits(bbs', r, t, f)
  BY <1>2, <1>3, <1>4, <1>8 DEF Awaits
<1>12. \A i \in 1 .. Len(frames') : Awaits(bbs', r, t, frames'[i])
  BY <1>1, <1>9, <1>10, <1>11, AwaitOneMore
<1>13. Waiting(frames') = Waiting(frames) \union {r}
  BY <1>1, <1>8, <1>9, WaitingAppend
<1>14. \A x \in 1 .. r : Ending(bbs', x) = "open" => x = t \/ x \in Waiting(frames')
  BY <1>2, <1>3, <1>13 DEF Terminating, Ended
<1>. QED BY <1>1, <1>3, <1>6, <1>7, <1>12, <1>14 DEF NextTerminating, Ended

\* while: control goes on to the condition, and the blocks of the loop wait.
LEMMA VisitIterationStmtEnded ==
  ASSUME Good(bbs, nb, BB_, frames, pc), Edged, Terminating, VisitIterationStmt
  PROVE  NextTerminating
<1> DEFINE c == nb + 1
           l == nb + 2
           r == nb + 3
           g1 == Create(bbs, c, "condition")
           g2 == Create(g1, l, "loop")
           g3 == Create(g2, r, "ret")
           f == [Frame("whileCond") EXCEPT !.conditionBB = c, !.loopBB = l, !.retBB = r]
           D == {BB_, c, l, r}
<1>1. /\ r <= MaxBlocks /\ nb' = r /\ bbs' = CreateBr(g3, BB_, c)
      /\ BB_' = c /\ frames' = Append(frames, f) /\ pc = "stmt" /\ pc' = "expr"
  BY DEF VisitIterationStmt, Visit, Push
<1>2. /\ c \in Blocks /\ l \in Blocks /\ r \in Blocks /\ c # l /\ c # r /\ l # r
      /\ BB_ # c /\ BB_ # l /\ BB_ # r /\ BB_ \in Blocks /\ BB_ \in 1 .. nb
      /\ c \notin 1 .. nb /\ l \notin 1 .. nb /\ r \notin 1 .. nb
      /\ r \in Nat /\ nb \in Nat /\ nb <= r /\ 1 .. nb \subseteq Blocks /\ c \in 1 .. r
      /\ \A x \in 1 .. r : x \in 1 .. nb \/ x = c \/ x = l \/ x = r
  <2>1. /\ nb \in Nat /\ nb + 3 <= MaxBlocks /\ 1 .. nb \subseteq Blocks
        /\ BB_ \in Blocks /\ BB_ \in 1 .. nb
    BY <1>1, EdgeTypes
  <2>2. c \in Blocks /\ l \in Blocks /\ r \in Blocks
    BY <2>1, BoundsAssumption DEF Blocks
  <2>3. /\ c # l /\ c # r /\ l # r /\ r \in Nat /\ nb <= r /\ c \in 1 .. r
        /\ c \notin 1 .. nb /\ l \notin 1 .. nb /\ r \notin 1 .. nb
        /\ \A x \in 1 .. r : x \in 1 .. nb \/ x = c \/ x = l \/ x = r
    BY <2>1
  <2>. HIDE DEF c, l, r
  <2>. QED BY <2>1, <2>2, <2>3
<1>3. /\ f.kind = "whileCond"
      /\ f.conditionBB = c /\ f.loopBB = l /\ f.retBB = r
  BY DEF Frame
<1>4. /\ bbs \in Graph /\ OneEnd(bbs, BB_) /\ Ending(bbs, BB_) = "open" /\ Succs(bbs, BB_) = {}
      /\ frames \in Seq(FrameRecord) /\ FramesOK(frames, "stmt", nb)
  BY <1>1, EdgeTypes, OpenPoint
<1>. HIDE DEF f, c, l, r
<1>5. /\ g1 \in Graph /\ Elsewhere(bbs, g1, c)
      /\ OneEnd(g1, c) /\ Succs(g1, c) = {} /\ Ending(g1, c) = "open"
  BY <1>2, <1>4, CreateEnds DEF Labels, FixedLabels
<1>. HIDE DEF g1
<1>6. /\ g2 \in Graph /\ Elsewhere(g1, g2, l)
      /\ OneEnd(g2, l) /\ Succs(g2, l) = {} /\ Ending(g2, l) = "open"
  BY <1>2, <1>5, CreateEnds DEF Labels, FixedLabels
<1>. HIDE DEF g2
<1>7. /\ g3 \in Graph /\ Elsewhere(g2, g3, r)
      /\ OneEnd(g3, r) /\ Succs(g3, r) = {} /\ Ending(g3, r) = "open"
  BY <1>2, <1>6, CreateEnds DEF Labels, FixedLabels
<1>. HIDE DEF g3
<1>8. OneEnd(g3, BB_) /\ Ending(g3, BB_) = "open" /\ Succs(g3, BB_) = {}
  BY <1>2, <1>4, <1>5, <1>6, <1>7 DEF Elsewhere
<1>9. /\ Elsewhere(g3, bbs', BB_)
      /\ OneEnd(bbs', BB_) /\ Ending(bbs', BB_) = "br" /\ Succs(bbs', BB_) = {c}
  BY <1>1, <1>2, <1>7, <1>8, CreateBrEnds
<1>10. \A x \in Blocks \ D : /\ OneEnd(bbs', x) = OneEnd(bbs, x)
                             /\ Ending(bbs', x) = Ending(bbs, x)
                             /\ Succs(bbs', x) = Succs(bbs, x)
  BY <1>5, <1>6, <1>7, <1>9 DEF Elsewhere
<1>11. \A x \in {c, l, r} : OneEnd(bbs', x) /\ Ending(bbs', x) = "open" /\ Succs(bbs', x) = {}
  BY <1>2, <1>5, <1>6, <1>7, <1>9 DEF Elsewhere
<1>12. Ends(bbs') /\ Grows(bbs, nb, bbs', nb')
  <2>1. \A x \in D : OneEnd(bbs', x) /\ (Ending(bbs', x) # "br" => Succs(bbs', x) = {})
    BY <1>9, <1>11
  <2>2. \A x \in D : x \in 1 .. nb => Succs(bbs, x) \subseteq Succs(bbs', x)
    BY <1>2, <1>4
  <2>3. nb' \in Nat /\ nb <= nb'
    BY <1>1, <1>2
  <2>. HIDE DEF D
  <2>. QED BY <1>10, <2>1, <2>2, <2>3, Changed
<1>13. LeadsOut(bbs', r)
  <2>1. \A x \in 1 .. nb : x # BB_ => Ending(bbs', x) = Ending(bbs, x)
    BY <1>2, <1>10
  <2>2. \A S \in SUBSET (1 .. r) : Trap(bbs', r, S) /\ BB_ \in S => WayOut(bbs', S)
    <3>1. \A S \in SUBSET (1 .. r) : Trap(bbs', r, S) /\ BB_ \in S => c \in S
      BY <1>2, <1>9, TrapSuccessor
    <3>. QED BY <1>11, <3>1 DEF WayOut
  <2>3. \A S \in SUBSET (1 .. r) :
          Trap(bbs', r, S) /\ S # {} /\ S \intersect (1 .. nb) = {} => WayOut(bbs', S)
    BY <1>2, <1>11 DEF WayOut
  <2>4. GoesOn(bbs, nb, bbs', r, BB_)
    BY <2>1, <2>2, <2>3 DEF GoesOn
  <2>5. Grows(bbs, nb, bbs', r) /\ LeadsOut(bbs, nb)
    BY <1>1, <1>12 DEF Terminating, Ended
  <2>. QED BY <2>4, <2>5, LeadsOutKept
<1>14. \A i \in 1 .. Len(frames) : Awaits(bbs', r, c, frames[i])
  <2>1. \A i \in 1 .. Len(frames) : Awaits(bbs, nb, BB_, frames[i])
    BY DEF Terminating, Ended
  <2>2. \A x \in Waiting(frames) : Ending(bbs', x) = Ending(bbs, x) /\ x # c
    <3>1. Waiting(frames) \subseteq 1 .. nb
      BY <1>4, WaitingCreated
    <3>2. BB_ \notin Waiting(frames)
      BY <2>1 DEF Waiting, Awaits
    <3>. QED BY <1>2, <1>10, <3>1, <3>2
  <2>3. Grows(bbs, nb, bbs', r)
    BY <1>1, <1>12
  <2>4. FramesOK(frames, "stmt", nb) /\ "stmt" # "expr"
    BY <1>4
  <2>. QED BY <2>1, <2>2, <2>3, <2>4, AllAwait
<1>15. Waits(f) = {l, r}
  BY <1>3 DEF Waits
<1>16. Awaits(bbs', r, c, f)
  BY <1>2, <1>3, <1>11, <1>15 DEF Awaits
<1>17. \A i \in 1 .. Len(frames') : Awaits(bbs', r, c, frames'[i])
  BY <1>1, <1>4, <1>14, <1>16, AwaitOneMore
<1>18. Waiting(frames') = Waiting(frames) \union {l, r}
  BY <1>1, <1>4, <1>15, WaitingAppend
<1>19. \A x \in 1 .. r : Ending(bbs', x) = "open" => x = c \/ x \in Waiting(frames')
  BY <1>2, <1>9, <1>10, <1>18 DEF Terminating, Ended
<1>. QED BY <1>1, <1>11, <1>12, <1>13, <1>17, <1>19 DEF NextTerminating, Ended

\* The condition of a while is done: it leads into the loop and out of it.
LEMMA BranchWhileEnded ==
  ASSUME Good(bbs, nb, BB_, frames, pc), Edged, Terminating, BranchWhile
  PROVE  NextTerminating
<1> DEFINE top == Last(frames)
           rest == Front(frames)
           c == top.conditionBB
           l == top.loopBB
           r == top.retBB
           g == Emit(bbs, BB_, "op")
           f == [Frame("whileBody") EXCEPT !.conditionBB = c, !.retBB = r]
<1>1. /\ nb' = nb /\ BB_' = l /\ top.kind = "whileCond" /\ frames # <<>>
      /\ frames' = Append(rest, f) /\ bbs' = CreateCondBr(g, BB_, l, r)
      /\ pc = "expr" /\ pc' = "stmt"
  BY DEF BranchWhile, ExprVisited, Top, Replace, Good
<1>2. f.kind = "whileBody" /\ f.conditionBB = c /\ f.retBB = r
  BY DEF Frame
<1>. HIDE DEF f
<1>3. /\ rest \in Seq(FrameRecord) /\ FramesOK(rest, "stmt", nb)
      /\ \A i \in 1 .. Len(rest) : Awaits(bbs, nb, BB_, rest[i])
      /\ Waiting(frames) = Waiting(rest) \union Waits(top)
      /\ Waiting(rest) \intersect Holds(top) = {}
      /\ Awaits(bbs, nb, BB_, top) /\ FrameOK(top, nb) /\ Own(bbs, top)
      /\ BB_ \notin Waiting(rest) /\ Waiting(frames) \subseteq 1 .. nb
      /\ \A x \in Waiting(frames) : Ending(bbs, x) = "open"
  BY <1>1, Innermost, Below
<1>. HIDE DEF rest, top
<1>4. /\ Waits(top) = {l, r} /\ Holds(top) = {c, l, r} /\ Waits(f) = {r}
      /\ c \in 1 .. nb /\ l \in 1 .. nb /\ r \in 1 .. nb /\ l # r
      /\ l # BB_ /\ r # BB_ /\ Ending(bbs, l) = "open" /\ Ending(bbs, r) = "open"
  BY <1>1, <1>2, <1>3 DEF Waits, Holds, Awaits, FrameOK, Own
<1>5. \A S \in SUBSET (1 .. nb) : Trap(bbs, nb, S) /\ c \in S => BB_ \in S
  BY <1>1, <1>3 DEF Awaits
<1>6. /\ c \in Blocks /\ l \in Blocks /\ r \in Blocks /\ nb \in Nat /\ 1 .. nb \subseteq Blocks
      /\ BB_ \in Blocks /\ BB_ \in 1 .. nb /\ bbs \in Graph
      /\ OneEnd(bbs, BB_) /\ Ending(bbs, BB_) = "open" /\ Succs(bbs, BB_) = {}
  BY <1>1, <1>4, EdgeTypes, OpenPoint
<1>. HIDE DEF c, l, r
<1>7. /\ g \in Graph /\ Elsewhere(bbs, g, BB_)
      /\ OneEnd(g, BB_) /\ Ending(g, BB_) = "open" /\ Succs(g, BB_) = {}
  BY <1>6, EmitEnds
<1>. HIDE DEF g
<1>8. /\ Elsewhere(g, bbs', BB_)
      /\ OneEnd(bbs', BB_) /\ Ending(bbs', BB_) = "br" /\ Succs(bbs', BB_) = {l, r}
  BY <1>1, <1>6, <1>7, CreateCondBrEnds
<1>9. \A x \in Blocks \ {BB_} : /\ OneEnd(bbs', x) = OneEnd(bbs, x)
                                /\ Ending(bbs', x) = Ending(bbs, x)
                                /\ Succs(bbs', x) = Succs(bbs, x)
  BY <1>7, <1>8 DEF Elsewhere
<1>10. Ends(bbs') /\ Grows(bbs, nb, bbs', nb)
  <2>1. \A x \in {BB_} : OneEnd(bbs', x) /\ (Ending(bbs', x) # "br" => Succs(bbs', x) = {})
    BY <1>8
  <2>2. \A x \in {BB_} : x \in 1 .. nb => Succs(bbs, x) \subseteq Succs(bbs', x)
    BY <1>6
  <2>3. nb' \in Nat /\ nb <= nb' /\ nb' = nb
    BY <1>1, <1>6
  <2>4. Ends(bbs') /\ Grows(bbs, nb, bbs', nb')
    BY <1>9, <2>1, <2>2, <2>3, Changed
  <2>. QED BY <2>3, <2>4
<1>11. Ending(bbs', l) = "open" /\ Ending(bbs', r) = "open"
  BY <1>4, <1>6, <1>9
<1>12. \A S \in SUBSET (1 .. nb) : Trap(bbs', nb, S) /\ BB_ \in S => l \in S /\ r \in S
  BY <1>4, <1>8, TrapSuccessor
<1>13. LeadsOut(bbs', nb)
  <2>1. \A x \in 1 .. nb : x # BB_ => Ending(bbs', x) = Ending(bbs, x)
    BY <1>6, <1>9
  <2>2. \A S \in SUBSET (1 .. nb) : Trap(bbs', nb, S) /\ BB_ \in S => WayOut(bbs', S)
    BY <1>11, <1>12 DEF WayOut
  <2>3. GoesOn(bbs, nb, bbs', nb, BB_)
    BY <2>1, <2>2 DEF GoesOn
  <2>4. LeadsOut(bbs, nb)
    BY DEF Terminating, Ended
  <2>. QED BY <1>10, <2>3, <2>4, LeadsOutKept
<1>14. \A i \in 1 .. Len(rest) : Awaits(bbs', nb, l, rest[i])
  <2>1. \A x \in Waiting(rest) : Ending(bbs', x) = Ending(bbs, x) /\ x # l
    BY <1>3, <1>4, <1>6, <1>9
  <2>. QED BY <1>3, <1>10, <2>1, AllAwait
<1>15. Awaits(bbs', nb, l, f)
  <2>1. \A x \in Waits(f) : Ending(bbs', x) = "open" /\ x # l
    BY <1>4, <1>11
  <2>2. ASSUME NEW S \in SUBSET (1 .. nb), Trap(bbs', nb, S), c \in S
        PROVE  r \in S
    <3>1. Trap(bbs, nb, S \intersect (1 .. nb)) /\ S \intersect (1 .. nb) = S
      BY <1>10, <2>2, TrapKept
    <3>2. BB_ \in S
      BY <1>5, <2>2, <3>1
    <3>. QED BY <1>12, <2>2, <3>2
  <2>. QED BY <1>2, <2>1, <2>2 DEF Awaits
<1>16. \A i \in 1 .. Len(frames') : Awaits(bbs', nb, l, frames'[i])
  BY <1>1, <1>3, <1>14, <1>15, AwaitOneMore
<1>17. Waiting(frames') = Waiting(rest) \union {r}
  BY <1>1, <1>3, <1>4, WaitingAppend
<1>18. \A x \in 1 .. nb : Ending(bbs', x) = "open" => x = l \/ x \in Waiting(frames')
  BY <1>3, <1>4, <1>6, <1>8, <1>9, <1>17 DEF Terminating, Ended
<1>19. nb' = nb /\ BB_' = l /\ pc' = "stmt"
  BY <1>1 DEF l
<1>. QED BY <1>10, <1>11, <1>13, <1>16, <1>18, <1>19 DEF NextTerminating, Ended

\* Whoever comes to x in the graph comes to y.
Goes(x, y) == \A S \in SUBSET (1 .. nb) : Trap(bbs, nb, S) /\ x \in S => y \in S

\* The branch to x that ends the insertion point if nothing else does.
Joins(x) == bbs' = IF HasTerminator(bbs, BB_) THEN bbs ELSE CreateBr(bbs, BB_, x)

\* The join after if or while: x is where control goes on, y where the builder
\* does, a block that waited and that x leads to.
LEMMA JoinEnded ==
  ASSUME Good(bbs, nb, BB_, frames, pc), Edged, Terminating, frames # <<>>,
         Last(frames).kind # "whileCond", NEW x \in 1 .. nb, NEW y, Waits(Last(frames)) = {y},
         Goes(x, y), Joins(x), nb' = nb, BB_' = y, frames' = Pop, pc = "done", pc' = pc
  PROVE  NextTerminating
<1> DEFINE rest == Front(frames)
<1>1. /\ rest \in Seq(FrameRecord) /\ FramesOK(rest, "stmt", nb)
      /\ \A i \in 1 .. Len(rest) : Awaits(bbs, nb, BB_, rest[i])
      /\ Waiting(frames) = Waiting(rest) \union {y}
      /\ Waiting(rest) \intersect Holds(Last(frames)) = {} /\ y \in Holds(Last(frames))
      /\ BB_ \notin Waiting(rest) /\ Waiting(frames) \subseteq 1 .. nb
      /\ Ending(bbs, y) = "open" /\ y # BB_
  BY Innermost, WaitsHeld DEF Awaits
<1>2. /\ nb \in Nat /\ 1 .. nb \subseteq Blocks /\ bbs \in Graph /\ BB_ \in Blocks /\ BB_ \in 1 .. nb
      /\ x \in Blocks /\ y \in Blocks
  BY <1>1, EdgeTypes
<1>3. frames' = rest
  BY DEF Pop
<1>. HIDE DEF rest
<1>4. /\ Elsewhere(bbs, bbs', BB_) /\ OneEnd(bbs', BB_) /\ Ending(bbs', BB_) # "open"
      /\ Succs(bbs, BB_) \subseteq Succs(bbs', BB_)
      /\ Ending(bbs', BB_) # "br" => Succs(bbs', BB_) = {}
      /\ Ending(bbs', BB_) # Ending(bbs, BB_) => x \in Succs(bbs', BB_)
  <2>1. OneEnd(bbs, BB_) /\ (Ending(bbs, BB_) # "br" => Succs(bbs, BB_) = {})
    BY <1>2 DEF Terminating, Ended, Ends
  <2>2. CASE HasTerminator(bbs, BB_)
    <3>1. bbs' = bbs /\ Ending(bbs, BB_) # "open"
      BY <2>2 DEF Joins, Ending, HasTerminator
    <3>. QED BY <2>1, <3>1 DEF Elsewhere
  <2>3. CASE ~HasTerminator(bbs, BB_)
    <3>1. bbs' = CreateBr(bbs, BB_, x) /\ Ending(bbs, BB_) = "open"
      BY <2>3 DEF Joins, Ending
    <3>2. /\ Elsewhere(bbs, bbs', BB_) /\ OneEnd(bbs', BB_) /\ Ending(bbs', BB_) = "br"
          /\ Succs(bbs', BB_) = Succs(bbs, BB_) \union {x}
      BY <1>2, <2>1, <3>1, CreateBrEnds
    <3>. QED BY <3>2
  <2>. QED BY <2>2, <2>3
<1>5. \A z \in Blocks \ {BB_} : /\ OneEnd(bbs', z) = OneEnd(bbs, z)
                                /\ Ending(bbs', z) = Ending(bbs, z)
                                /\ Succs(bbs', z) = Succs(bbs, z)
  BY <1>4 DEF Elsewhere
<1>6. Ends(bbs') /\ Grows(bbs, nb, bbs', nb)
  <2>1. \A z \in {BB_} : OneEnd(bbs', z) /\ (Ending(bbs', z) # "br" => Succs(bbs', z) = {})
    BY <1>4
  <2>2. \A z \in {BB_} : z \in 1 .. nb => Succs(bbs, z) \subseteq Succs(bbs', z)
    BY <1>4
  <2>3. nb' \in Nat /\ nb <= nb'
    BY <1>2
  <2>4. Ends(bbs') /\ Grows(bbs, nb, bbs', nb')
    BY <1>5, <2>1, <2>2, <2>3, Changed
  <2>. QED BY <2>4
<1>7. Ending(bbs', y) = "open"
  BY <1>1, <1>2, <1>5
<1>8. LeadsOut(bbs', nb)
  <2> SUFFICES ASSUME NEW S \in SUBSET (1 .. nb), S # {}, Trap(bbs', nb, S)
               PROVE  WayOut(bbs', S)
    BY DEF LeadsOut
  <2>1. Trap(bbs, nb, S \intersect (1 .. nb)) /\ S \intersect (1 .. nb) = S
    BY <1>6, TrapKept
  <2>2. PICK z \in S : Ending(bbs, z) # "br"
    BY <2>1 DEF Terminating, Ended, LeadsOut, WayOut
  <2>3. CASE Ending(bbs', z) = Ending(bbs, z)
    BY <2>2, <2>3 DEF WayOut
  <2>4. CASE Ending(bbs', z) # Ending(bbs, z)
    <3>1. z = BB_ /\ x \in Succs(bbs', BB_)
      BY <1>2, <1>4, <1>5, <2>4
    <3>2. x \in S
      BY <2>2, <3>1, TrapSuccessor
    <3>3. y \in S
      BY <2>1, <3>2 DEF Goes
    <3>. QED BY <1>7, <3>3 DEF WayOut
  <2>. QED BY <2>3, <2>4
<1>9. \A i \in 1 .. Len(rest) : Awaits(bbs', nb, y, rest[i])
  <2>1. \A z \in Waiting(rest) : Ending(bbs', z) = Ending(bbs, z) /\ z # y
    BY <1>1, <1>2, <1>5
  <2>. QED BY <1>1, <1>6, <2>1, AllAwait
<1>10. \A z \in 1 .. nb : Ending(bbs', z) = "open" => z = y \/ z \in Waiting(rest)
  BY <1>1, <1>2, <1>4, <1>5 DEF Terminating, Ended
<1>. QED BY <1>3, <1>6, <1>8, <1>9, <1>10 DEF NextTerminating, Ended

\* The join after if.
LEMMA FinishIfEnded ==
  ASSUME Good(bbs, nb, BB_, frames, pc), Edged, Terminating, FinishIf
  PROVE  NextTerminating
<1> DEFINE y == Last(frames).retBB
<1>1. /\ frames # <<>> /\ Last(frames).kind = "ifTrue" /\ nb' = nb
      /\ Joins(y)
      /\ BB_' = y /\ frames' = Pop /\ pc = "done" /\ pc' = pc
  BY DEF FinishIf, StmtVisited, Top, Joins
<1>2. Waits(Last(frames)) = {y} /\ y \in 1 .. nb
  BY <1>1, Innermost DEF Waits, FrameOK
<1>3. Goes(y, y)
  BY DEF Goes
<1>4. Last(frames).kind # "whileCond"
  BY <1>1
<1>. HIDE DEF y
<1>. QED BY <1>1, <1>2, <1>3, <1>4, JoinEnded

\* The back branch of a while: its condition leads out of the loop.
LEMMA FinishWhileEnded ==
  ASSUME Good(bbs, nb, BB_, frames, pc), Edged, Terminating, FinishWhile
  PROVE  NextTerminating
<1> DEFINE x == Last(frames).conditionBB
           y == Last(frames).retBB
<1>1. /\ frames # <<>> /\ Last(frames).kind = "whileBody" /\ nb' = nb
      /\ Joins(x)
      /\ BB_' = y /\ frames' = Pop /\ pc = "done" /\ pc' = pc
  BY DEF FinishWhile, StmtVisited, Top, Joins
<1>2. Waits(Last(frames)) = {y} /\ x \in 1 .. nb
  BY <1>1, Innermost DEF Waits, FrameOK
<1>3. Goes(x, y)
  BY <1>1, Innermost DEF Goes, Awaits
<1>4. Last(frames).kind # "whileCond"
  BY <1>1
<1>. HIDE DEF x, y
<1>. QED BY <1>1, <1>2, <1>3, <1>4, JoinEnded

(***************************************************************************)
(* The theorems.                                                           *)
(***************************************************************************)
\* The entry block of the empty function is open, and nothing waits.
LEMMA InitEnded == Init => EndedInv
<1> SUFFICES ASSUME Init PROVE EndedInv
  OBVIOUS
<1> DEFINE g0 == [b \in Blocks |-> NoBlock]
           g1 == Create(g0, Entry, "entry")
           f == Frame("list")
<1>1. EdgesInv /\ Entry \in Blocks /\ nb = 1 /\ Entry = 1 /\ BB_ = 1 /\ pc = "done" /\ frames = <<f>>
  BY InitEdged, BoundsAssumption DEF Init, Entry, Blocks
<1>2. g0 \in Graph /\ \A b \in Blocks : g0[b].code = <<>> /\ g0[b].succ = <<>>
  <2>1. <<>> \in Seq({"op", "br", "ret"}) /\ <<>> \in Seq(Blocks) /\ "none" \in Labels
    BY DEF Labels, FixedLabels
  <2>. QED BY <2>1 DEF Graph, NoBlock, BlockRecord
<1>3. f.kind = "list"
  BY DEF Frame
<1>4. PICK g \in MaybeOp(g1, Entry) : bbs = g
  BY DEF Init
<1>. HIDE DEF g0, f
<1>5. \A b \in Blocks : OneEnd(g0, b) /\ Ending(g0, b) = "open" /\ Succs(g0, b) = {}
  BY <1>2, SuccsOfEmpty DEF OneEnd, Ending, HasTerminator
<1>6. /\ g1 \in Graph /\ Elsewhere(g0, g1, Entry)
      /\ OneEnd(g1, Entry) /\ Succs(g1, Entry) = {} /\ Ending(g1, Entry) = "open"
  BY <1>1, <1>2, CreateEnds DEF Labels, FixedLabels
<1>. HIDE DEF g1
<1>7. \A b \in Blocks : OneEnd(g1, b) /\ Ending(g1, b) = "open" /\ Succs(g1, b) = {}
  BY <1>5, <1>6 DEF Elsewhere
<1>8. \A b \in Blocks : OneEnd(bbs, b) /\ Ending(bbs, b) = "open" /\ Succs(bbs, b) = {}
  <2>1. CASE bbs = g1
    BY <1>7, <2>1
  <2>2. CASE bbs = Emit(g1, Entry, "op")
    <3>1. /\ Elsewhere(g1, bbs, Entry) /\ OneEnd(bbs, Entry)
          /\ Succs(bbs, Entry) = Succs(g1, Entry) /\ Ending(bbs, Entry) = "open"
      BY <1>1, <1>6, <2>2, EmitEnds
    <3>. QED BY <1>6, <1>7, <3>1 DEF Elsewhere
  <2>. QED BY <1>4, <2>1, <2>2 DEF MaybeOp
<1>9. Ends(bbs)
  BY <1>8 DEF Ends
<1>10. LeadsOut(bbs, nb)
  <2> SUFFICES ASSUME NEW S \in SUBSET (1 .. 1), S # {} PROVE WayOut(bbs, S)
    BY <1>1 DEF LeadsOut
  <2>1. PICK x \in S : TRUE
    OBVIOUS
  <2>2. x \in Blocks
    BY <1>1
  <2>. QED BY <1>8, <2>2 DEF WayOut
<1>11. \A i \in 1 .. Len(frames) : Awaits(bbs, nb, BB_, frames[i])
  <2>1. Len(frames) = 1 /\ frames[1] = f
    BY <1>1
  <2>2. Waits(f) = {}
    BY <1>3 DEF Waits
  <2>3. Awaits(bbs, nb, BB_, f)
    BY <1>3, <2>2 DEF Awaits
  <2>. QED BY <2>1, <2>3
<1>12. \A x \in 1 .. nb : x = BB_
  BY <1>1
<1>. QED BY <1>1, <1>9, <1>10, <1>11, <1>12 DEF EndedInv, Ended

\* Every step preserves the inductive invariant.
LEMMA NextKeepsEnded ==
  ASSUME "ifelse" \notin Kinds, ~CodeAfterReturn, EndedInv, [Next]_vars
  PROVE  EndedInv'
<1>1. EdgesInv'
  BY NextKeepsEdges DEF EndedInv
<1>2. CASE UNCHANGED vars
  BY <1>1, <1>2 DEF vars, EndedInv
<1>3. CASE Next
  <2>1. Good(bbs, nb, BB_, frames, pc) /\ Edged /\ Terminating
    BY DEF EndedInv, EdgesInv, IInv, Edged, Terminating
  <2>2. ~BranchIfElse /\ ~StartElse /\ ~FinishIfElse
    <3>1. frames # <<>> => Last(frames).kind \notin {"ifElseCond", "elseTrue", "elseFalse"}
      BY <2>1, Innermost DEF Awaits
    <3>2. pc = "expr" => frames # <<>>
      BY <2>1 DEF Good
    <3>. QED BY <3>1, <3>2 DEF BranchIfElse, StartElse, FinishIfElse, ExprVisited, StmtVisited, Top
  <2>3. NextTerminating
    BY <1>3, <2>1, <2>2, PlainStepsEnded, VisitIterationStmtEnded, VisitVarIndexedEnded,
       BranchIfEnded, BranchWhileEnded, FinishIfEnded, FinishWhileEnded DEF Next
  <2>. QED BY <1>1, <2>3 DEF EndedInv, NextTerminating
<1>. QED BY <1>2, <1>3

\* In a finished function no block is open.
LEMMA NoneOpen ==
  ASSUME EndedInv, pc = "end", NEW x \in Created
  PROVE  Ending(bbs, x) # "open"
<1>1. frames = <<>> /\ Ending(bbs, BB_) # "open"
  BY DEF EndedInv, Ended
<1>2. Waiting(frames) = {}
  BY <1>1 DEF Waiting
<1>. QED BY <1>1, <1>2 DEF EndedInv, Ended, Created

\* The inductive invariant is stronger than the three properties.
LEMMA EndedInvImplies ==
  EndedInv => EveryBlockTerminated /\ SingleTerminator /\ EveryBlockReachesReturn
<1> SUFFICES ASSUME EndedInv
             PROVE  EveryBlockTerminated /\ SingleTerminator /\ EveryBlockReachesReturn
  OBVIOUS
<1>1. /\ Good(bbs, nb, BB_, frames, pc) /\ Ends(bbs) /\ LeadsOut(bbs, nb)
      /\ Created = 1 .. nb /\ Created \subseteq Blocks /\ bbs \in Graph /\ nb \in Nat
  BY EdgeTypes DEF EndedInv, EdgesInv, IInv, Ended, Created
<1>2. EveryBlockTerminated
  BY NoneOpen DEF EveryBlockTerminated, Ending
<1>3. SingleTerminator
  BY <1>1 DEF SingleTerminator, Ends, OneEnd
<1>4. ASSUME pc = "end", NEW b \in Created
      PROVE  "ret" \in Range(bbs[b].code) <=> Ending(bbs, b) # "br"
  <2>1. bbs[b].code \in Seq({"op", "br", "ret"}) /\ OneEnd(bbs, b)
    BY <1>1 DEF Graph, BlockRecord, Ends
  <2>2. HasTerminator(bbs, b)
    BY <1>4, NoneOpen DEF Ending
  <2> DEFINE code == bbs[b].code
  <2>3. /\ Len(code) \in Nat \ {0} /\ Last(code) = code[Len(code)] /\ Last(code) \in {"br", "ret"}
        /\ Range(code) = {code[i] : i \in 1 .. Len(code)}
        /\ \A i \in 1 .. Len(code) : i \in 1 .. Len(code) - 1 \/ i = Len(code)
        /\ Len(code) \in 1 .. Len(code)
    BY <2>1, <2>2 DEF HasTerminator, Last, Range
  <2>4. \A i \in 1 .. Len(code) - 1 : code[i] # "ret"
    BY <2>1 DEF OneEnd
  <2>5. Ending(bbs, b) = Last(code)
    BY <2>2 DEF Ending
  <2>. HIDE DEF code
  <2>6. "ret" \in Range(code) <=> Last(code) = "ret"
    BY <2>3, <2>4
  <2>. QED BY <2>3, <2>5, <2>6 DEF code
<1>5. ASSUME pc = "end", NEW b \in Created, "ret" \in Range(bbs[b].code)
      PROVE  bbs[b].succ = <<>>
  <2>1. Succs(bbs, b) = {} /\ bbs[b].succ \in Seq(Blocks)
    BY <1>1, <1>4, <1>5, BlockTypes DEF Ends
  <2> DEFINE s == bbs[b].succ
  <2>2. s \in Seq(Blocks) /\ Range(s) = {}
    BY <2>1 DEF Succs
  <2>. HIDE DEF s
  <2>3. Len(s) \in Nat /\ Len(s) \notin 1 .. Len(s)
    <3>1. \A i \in 1 .. Len(s) : s[i] \in Range(s)
      BY <2>2 DEF Range
    <3>. QED BY <2>2, <3>1
  <2>. QED BY <2>2, <2>3 DEF s
<1>6. ASSUME pc = "end", NEW b \in Created
      PROVE  \E x \in Reachable(b, Created, Edges) : x \in Created /\ "ret" \in Range(bbs[x].code)
  <2> DEFINE R == Reachable(b, Created, Edges)
  <2>1. IsFiniteSet(Created)
    BY <1>1, FS_Interval
  <2>2. Edges \subseteq Created \X Created /\ Edges = EdgesOf(bbs, nb)
    BY DEF Edges, EdgesOf, Created
  <2>3. R \subseteq Created /\ b \in R /\ Closed(R, Edges)
    BY <2>1, <2>2, ReachableLeast DEF Closed
  <2>. HIDE DEF R
  <2>4. Trap(bbs, nb, R) /\ R # {}
    BY <1>1, <2>2, <2>3 DEF Trap
  <2>5. PICK x \in R : Ending(bbs, x) # "br"
    BY <1>1, <2>3, <2>4 DEF LeadsOut, WayOut
  <2>6. x \in Created /\ "ret" \in Range(bbs[x].code)
    BY <1>4, <1>6, <2>3, <2>5
  <2>. QED BY <2>6 DEF R
<1>7. EveryBlockReachesReturn
  BY <1>5, <1>6 DEF EveryBlockReachesReturn
<1>. QED BY <1>2, <1>3, <1>7

\* Without if-else and without statements after a return, every block of a
\* finished function ends in a terminator: LLVM accepts no other block.
THEOREM BlocksTerminated ==
  ASSUME "ifelse" \notin Kinds, ~CodeAfterReturn
  PROVE  Spec => []EveryBlockTerminated
<1>. QED BY InitEnded, NextKeepsEnded, EndedInvImplies, PTL DEF Spec

\* Under the same conditions no instruction follows a terminator, at any time.
THEOREM TerminatorsLast ==
  ASSUME "ifelse" \notin Kinds, ~CodeAfterReturn
  PROVE  Spec => []SingleTerminator
<1>. QED BY InitEnded, NextKeepsEnded, EndedInvImplies, PTL DEF Spec

\* Under the same conditions control can come to a return from every block of
\* a finished function: a loop can be left, and what returns goes nowhere else.
THEOREM ReturnsReachable ==
  ASSUME "ifelse" \notin Kinds, ~CodeAfterReturn
  PROVE  Spec => []EveryBlockReachesReturn
<1>. QED BY InitEnded, NextKeepsEnded, EndedInvImplies, PTL DEF Spec
(***************************************************************************)
(* How a loop is entered.  A branch to the condition of a while is made    *)
(* where the insertion point is open, and is the only edge from there.     *)
(***************************************************************************)
SoleEdges(E, C) == \A e, d \in E : e[2] \in C /\ d[1] = e[1] => d = e

SoleInv == LoopsInv /\ EndedInv /\ SoleEdges(Arcs(bbs), Conds(bbs, nb))

\* New edges leave blocks that none left before.
LEMMA SoleMore ==
  ASSUME NEW n, NEW E \in SUBSET ((1 .. n) \X (1 .. n)),
         NEW C, NEW D, \A x \in 1 .. n : x \in D <=> x \in C, SoleEdges(E, C),
         NEW X, SoleEdges(X, D), \A e \in E : \A d \in X : e[1] # d[1]
  PROVE  SoleEdges(E \union X, D)
<1>1. \A e \in E : e[2] \in 1 .. n
  OBVIOUS
<1>. QED BY <1>1 DEF SoleEdges

SoleNow == SoleEdges(Arcs(bbs), Conds(bbs, nb))
NextSole == SoleEdges(Arcs(bbs'), Conds(bbs', nb'))

\* The edges X are new, and leave the insertion point, where none left, or new blocks.
LEMMA SoleStep ==
  ASSUME Good(bbs, nb, BB_, frames, pc), Edged, SoleNow, Succs(bbs, BB_) = {},
         nb' \in Nat, nb <= nb', \A z \in 1 .. nb : bbs'[z].label = bbs[z].label,
         NEW X, Arcs(bbs') = Arcs(bbs) \union X,
         \A d \in X : d[1] = BB_ \/ d[1] \notin 1 .. nb, SoleEdges(X, Conds(bbs', nb'))
  PROVE  NextSole
<1> DEFINE E == Arcs(bbs)
           C == Conds(bbs, nb)
           D == Conds(bbs', nb')
<1>1. nb \in Nat /\ E \in SUBSET ((1 .. nb) \X (1 .. nb))
  BY EdgeTypes, ArcsInside DEF Edged
<1>2. \A e \in E : \A d \in X : e[1] # d[1]
  <2> SUFFICES ASSUME NEW e \in E, NEW d \in X, e[1] = d[1] PROVE FALSE
    OBVIOUS
  <2>1. e[1] \in 1 .. nb /\ e[2] \in Succs(bbs, e[1])
    BY <1>1 DEF Arcs
  <2>. QED BY <2>1
<1>3. \A z \in 1 .. nb : z \in D <=> z \in C
  BY <1>1, CondsKept
<1>4. SoleEdges(E, C) /\ SoleEdges(X, D)
  BY DEF SoleNow
<1>5. NextSole <=> SoleEdges(E \union X, D)
  BY DEF NextSole
<1>. HIDE DEF E, C, D
<1>. QED BY <1>1, <1>2, <1>3, <1>4, <1>5, SoleMore

\* Steps that make no edge.
LEMMA PlainStepsSole ==
  ASSUME Good(bbs, nb, BB_, frames, pc), Edged, SoleNow,
         \/ VisitEmpty \/ VisitExpressionStmt \/ VisitCompoundStmt
         \/ VisitSelectionStmt \/ VisitReturnStmt
         \/ FinishExpressionStmt \/ FinishReturn
         \/ NextStatement \/ EndCompoundStmt \/ FinishFunction
  PROVE  NextSole
<1>1. nb' = nb /\ SameLists(bbs, bbs') /\ nb \in Nat /\ 1 .. nb \subseteq Blocks
  BY PlainSteps, EdgeTypes
<1>2. Arcs(bbs') = Arcs(bbs) /\ \A x \in Blocks : bbs'[x].label = bbs[x].label
  BY <1>1, SameArcs
<1>3. Conds(bbs', nb') = Conds(bbs, nb)
  BY <1>1, <1>2 DEF Conds
<1>. QED BY <1>2, <1>3 DEF SoleNow, NextSole

\* The branch of an if goes to blocks made for it.
LEMMA BranchIfSole ==
  ASSUME Good(bbs, nb, BB_, frames, pc), Edged, Terminating, SoleNow, BranchIf
  PROVE  NextSole
<1> DEFINE X == {<<BB_, nb + 1>>, <<BB_, nb + 2>>}
<1>1. /\ nb + 2 <= MaxBlocks /\ nb' = nb + 2 /\ bbs' = TwoWay(bbs, nb, BB_, "true", "ret") /\ pc = "expr"
  BY DEF BranchIf, ExprVisited, TwoWay
<1>2. /\ nb \in Nat /\ BB_ \in 1 .. nb /\ bbs \in Graph /\ Lists(bbs, nb) /\ Succs(bbs, BB_) = {}
  BY <1>1, EdgeTypes, OpenPoint DEF Edged
<1>3. "true" \in Labels /\ "ret" \in Labels /\ "true" # "condition" /\ "ret" # "condition"
  BY DEF Labels, FixedLabels
<1>4. Arcs(bbs') = Arcs(bbs) \union X
  BY <1>1, <1>2, <1>3, TwoWayArcs
<1>5. /\ \A x \in 1 .. nb : bbs'[x].label = bbs[x].label
      /\ bbs'[nb + 1].label = "true" /\ bbs'[nb + 2].label = "ret"
  BY <1>1, <1>2, <1>3, TwoWayLists
<1>6. SoleEdges(X, Conds(bbs', nb'))
  BY <1>5 DEF SoleEdges, Conds
<1>7. nb' \in Nat /\ nb <= nb' /\ \A d \in X : d[1] = BB_
  BY <1>1, <1>2
<1>. HIDE DEF X
<1>. QED BY <1>2, <1>4, <1>5, <1>6, <1>7, SoleStep

\* So do the branches of an index test.
LEMMA VisitVarIndexedSole ==
  ASSUME Good(bbs, nb, BB_, frames, pc), Edged, Terminating, SoleNow, VisitVarIndexed
  PROVE  NextSole
<1>0. PICK failName \in Labels, passName \in Labels : IndexTested(failName, passName)
  BY IndexTest
<1>n. failName # "condition" /\ passName # "condition"
  BY <1>0 DEF IndexTested
<1> DEFINE fail == nb + 1
           pass == nb + 2
           X == {<<BB_, fail>>, <<BB_, pass>>, <<fail, pass>>}
           tested == TwoWay(bbs, nb, BB_, failName, passName)
           called == Emit(tested, fail, "op")
           failed == CreateBr(called, fail, pass)
<1>1. nb + 2 <= MaxBlocks /\ nb' = pass /\ bbs' = Emit(failed, pass, "op") /\ pc = "expr"
  BY <1>0 DEF IndexTested
<1>2. /\ nb \in Nat /\ BB_ \in 1 .. nb /\ bbs \in Graph /\ Lists(bbs, nb) /\ Succs(bbs, BB_) = {}
  BY <1>1, EdgeTypes, OpenPoint DEF Edged
<1>3. /\ fail \in Blocks /\ pass \in Blocks /\ pass \in Nat /\ nb <= pass
      /\ fail \notin 1 .. nb /\ \A z \in 1 .. nb : z \in Blocks
  BY <1>1, <1>2, EdgeTypes, BoundsAssumption DEF Blocks
<1>4. failName \in Labels /\ passName \in Labels /\ failName # "condition" /\ passName # "condition"
  BY <1>0 DEF IndexTested
<1>5. /\ tested \in Graph /\ Arcs(tested) = Arcs(bbs) \union {<<BB_, fail>>, <<BB_, pass>>}
      /\ \A z \in 1 .. nb : tested[z].label = bbs[z].label
      /\ tested[fail].label = failName /\ tested[pass].label = passName
  <2>1. tested = TwoWay(bbs, nb, BB_, failName, passName) /\ nb + 2 <= MaxBlocks
    BY <1>1
  <2>. HIDE DEF tested
  <2>2. tested \in Graph /\ Arcs(tested) = Arcs(bbs) \union {<<BB_, fail>>, <<BB_, pass>>}
    BY <1>2, <1>4, <2>1, TwoWayArcs
  <2>3. /\ \A z \in 1 .. nb : tested[z].label = bbs[z].label
        /\ tested[fail].label = failName /\ tested[pass].label = passName
    <3>1. failName \in Labels /\ passName \in Labels
      BY <1>4
    <3>2. failName # "condition" /\ passName # "condition"
      BY <1>4
    <3>3. tested \in Graph
      BY <2>2
    <3>. QED BY <1>2, <2>1, <3>1, <3>2, <3>3, TwoWayLists
  <2>. QED BY <2>2, <2>3
<1>. HIDE DEF tested, fail, pass
<1>6. called \in Graph /\ SameLists(tested, called)
  BY <1>3, <1>5, EmitLists
<1>. HIDE DEF called
<1>7. failed \in Graph /\ Linked(called, failed, fail, pass)
  BY <1>3, <1>6, CreateBrLinks
<1>. HIDE DEF failed
<1>8. SameLists(failed, bbs')
  BY <1>1, <1>3, <1>7, EmitLists
<1>9. Arcs(bbs') = Arcs(bbs) \union X
  <2>1. Arcs(called) = Arcs(tested) /\ Arcs(bbs') = Arcs(failed)
    BY <1>6, <1>8, SameArcs
  <2>2. Arcs(failed) = Arcs(called) \union {<<fail, pass>>}
    BY <1>3, <1>6, <1>7, LinkedArcs
  <2>. QED BY <1>5, <2>1, <2>2
<1>10. \A z \in Blocks : bbs'[z].label = tested[z].label
  BY <1>6, <1>7, <1>8 DEF SameLists, Linked
<1>11. fail \notin Conds(bbs', nb') /\ pass \notin Conds(bbs', nb')
  BY <1>n, <1>3, <1>5, <1>10 DEF Conds
<1>12. SoleEdges(X, Conds(bbs', nb'))
  BY <1>11 DEF SoleEdges
<1>13. /\ nb' \in Nat /\ nb <= nb' /\ \A z \in 1 .. nb : bbs'[z].label = bbs[z].label
       /\ \A d \in X : d[1] = BB_ \/ d[1] \notin 1 .. nb
  <2>1. nb' \in Nat /\ nb <= nb'
    BY <1>1, <1>3
  <2>2. \A z \in 1 .. nb : bbs'[z].label = bbs[z].label
    BY <1>3, <1>5, <1>10
  <2>3. \A d \in X : d[1] = BB_ \/ d[1] \notin 1 .. nb
    BY <1>3
  <2>. QED BY <2>1, <2>2, <2>3
<1>. HIDE DEF X
<1>. QED BY <1>2, <1>9, <1>12, <1>13, SoleStep

\* The branch to the condition of a new while is alone.
LEMMA VisitIterationStmtSole ==
  ASSUME Good(bbs, nb, BB_, frames, pc), Edged, Terminating, SoleNow, VisitIterationStmt
  PROVE  NextSole
<1> DEFINE c == nb + 1
           l == nb + 2
           r == nb + 3
           X == {<<BB_, c>>}
           g1 == Create(bbs, c, "condition")
           g2 == Create(g1, l, "loop")
           g3 == Create(g2, r, "ret")
<1>1. r <= MaxBlocks /\ nb' = r /\ bbs' = CreateBr(g3, BB_, c) /\ pc = "stmt"
  BY DEF VisitIterationStmt, Visit
<1>2. /\ nb \in Nat /\ BB_ \in 1 .. nb /\ bbs \in Graph /\ Lists(bbs, nb) /\ Succs(bbs, BB_) = {}
  BY <1>1, EdgeTypes, OpenPoint DEF Edged
<1>3. /\ c \in Blocks /\ l \in Blocks /\ r \in Blocks /\ BB_ \in Blocks
      /\ r \in Nat /\ nb <= r /\ c # l /\ c # r /\ l # r
      /\ c > nb /\ l > nb /\ r > nb
      /\ \A z \in 1 .. nb : z \in Blocks /\ z # c /\ z # l /\ z # r
  BY <1>1, <1>2, EdgeTypes, BoundsAssumption DEF Blocks
<1>4. bbs[c].succ = <<>> /\ bbs[l].succ = <<>> /\ bbs[r].succ = <<>>
  BY <1>2, <1>3 DEF Lists
<1>. HIDE DEF c, l, r
<1>6. g1 \in Graph /\ Added(bbs, g1, c, "condition")
  BY <1>2, <1>3, CreateLists DEF Labels, FixedLabels
<1>. HIDE DEF g1
<1>7. Arcs(g1) = Arcs(bbs) /\ g1[l].succ = <<>> /\ g1[r].succ = <<>>
  <2>1. Arcs(g1) = Arcs(bbs)
    BY <1>2, <1>3, <1>4, <1>6, AddedArcs DEF Unconnected
  <2>. QED BY <1>3, <1>4, <1>6, <2>1 DEF Added
<1>8. g2 \in Graph /\ Added(g1, g2, l, "loop")
  BY <1>3, <1>6, CreateLists DEF Labels, FixedLabels
<1>. HIDE DEF g2
<1>9. Arcs(g2) = Arcs(bbs) /\ g2[r].succ = <<>>
  BY <1>3, <1>6, <1>7, <1>8, AddedArcs DEF Unconnected
<1>10. g3 \in Graph /\ Added(g2, g3, r, "ret")
  BY <1>3, <1>8, CreateLists DEF Labels, FixedLabels
<1>. HIDE DEF g3
<1>11. Arcs(g3) = Arcs(bbs)
  BY <1>3, <1>8, <1>9, <1>10, AddedArcs DEF Unconnected
<1>12. Linked(g3, bbs', BB_, c)
  BY <1>1, <1>3, <1>10, CreateBrLinks
<1>13. Arcs(bbs') = Arcs(bbs) \union X
  BY <1>3, <1>10, <1>11, <1>12, LinkedArcs
<1>14. \A z \in 1 .. nb : bbs'[z].label = bbs[z].label
  BY <1>3, <1>6, <1>8, <1>10, <1>12 DEF Added, Linked
<1>15. SoleEdges(X, Conds(bbs', nb')) /\ \A d \in X : d[1] = BB_
  BY DEF SoleEdges
<1>. HIDE DEF X
<1>. QED BY <1>1, <1>2, <1>3, <1>13, <1>14, <1>15, SoleStep

\* A while branches to its body and to the block that follows.
LEMMA BranchWhileSole ==
  ASSUME Good(bbs, nb, BB_, frames, pc), Edged, Terminating, SoleNow, BranchWhile
  PROVE  NextSole
<1> DEFINE w == Last(frames)
           l == w.loopBB
           r == w.retBB
           X == {<<BB_, l>>, <<BB_, r>>}
           g == Emit(bbs, BB_, "op")
<1>1. /\ frames # <<>> /\ w.kind = "whileCond" /\ nb' = nb /\ pc = "expr"
      /\ bbs' = CreateCondBr(g, BB_, l, r)
  BY DEF BranchWhile, ExprVisited, Top, Good
<1>2. /\ nb \in Nat /\ BB_ \in 1 .. nb /\ BB_ \in Blocks /\ 1 .. nb \subseteq Blocks
      /\ bbs \in Graph /\ Succs(bbs, BB_) = {} /\ FrameOK(w, nb) /\ Own(bbs, w)
  BY <1>1, EdgeTypes, OpenPoint, Below
<1>3. l \in 1 .. nb /\ r \in 1 .. nb /\ l \in Blocks /\ r \in Blocks
  BY <1>1, <1>2 DEF FrameOK
<1>4. l # r /\ bbs[l].label # "condition" /\ bbs[r].label # "condition"
  BY <1>1, <1>2 DEF Own
<1>. HIDE DEF l, r, w
<1>5. g \in Graph /\ SameLists(bbs, g) /\ Arcs(g) = Arcs(bbs)
  BY <1>2, EmitLists, SameArcs
<1>. HIDE DEF g
<1>6. PICK k \in Graph : Linked(g, k, BB_, r) /\ Linked(k, bbs', BB_, l)
  BY <1>1, <1>2, <1>3, <1>4, <1>5, CreateCondBrLinks
<1>7. Arcs(k) = Arcs(bbs) \union {<<BB_, r>>}
  BY <1>2, <1>3, <1>5, <1>6, LinkedArcs
<1>8. Arcs(bbs') = Arcs(k) \union {<<BB_, l>>}
  BY <1>2, <1>3, <1>6, LinkedArcs
<1>9. Arcs(bbs') = Arcs(bbs) \union X
  BY <1>7, <1>8
<1>10. \A z \in Blocks : bbs'[z].label = bbs[z].label
  BY <1>5, <1>6 DEF SameLists, Linked
<1>11. SoleEdges(X, Conds(bbs', nb')) /\ \A d \in X : d[1] = BB_
  BY <1>3, <1>4, <1>10 DEF SoleEdges, Conds
<1>12. nb' \in Nat /\ nb <= nb' /\ \A z \in 1 .. nb : bbs'[z].label = bbs[z].label
  BY <1>1, <1>2, <1>10
<1>. HIDE DEF X
<1>. QED BY <1>2, <1>9, <1>11, <1>12, SoleStep

\* A join makes one branch, in a block that is open.
LEMMA JoinSole ==
  ASSUME Good(bbs, nb, BB_, frames, pc), Edged, Terminating, SoleNow,
         NEW x \in 1 .. nb, Joins(x), nb' = nb
  PROVE  NextSole
<1>1. /\ nb \in Nat /\ BB_ \in 1 .. nb /\ BB_ \in Blocks /\ 1 .. nb \subseteq Blocks /\ bbs \in Graph
  BY EdgeTypes
<1>2. CASE HasTerminator(bbs, BB_)
  <2>1. bbs' = bbs
    BY <1>2 DEF Joins
  <2>. QED BY <2>1 DEF SoleNow, NextSole
<1>3. CASE ~HasTerminator(bbs, BB_)
  <2> DEFINE X == {<<BB_, x>>}
  <2>1. bbs' = CreateBr(bbs, BB_, x) /\ Ending(bbs, BB_) = "open"
    BY <1>3 DEF Joins, Ending
  <2>2. Succs(bbs, BB_) = {}
    BY <1>1, <2>1 DEF Terminating, Ended, Ends
  <2>3. Linked(bbs, bbs', BB_, x)
    BY <1>1, <2>1, CreateBrLinks
  <2>4. Arcs(bbs') = Arcs(bbs) \union X /\ \A z \in Blocks : bbs'[z].label = bbs[z].label
    BY <1>1, <2>3, LinkedArcs
  <2>5. SoleEdges(X, Conds(bbs', nb')) /\ \A d \in X : d[1] = BB_
    BY DEF SoleEdges
  <2>6. nb' \in Nat /\ nb <= nb' /\ \A z \in 1 .. nb : bbs'[z].label = bbs[z].label
    BY <1>1, <2>4
  <2>. HIDE DEF X
  <2>. QED BY <2>2, <2>4, <2>5, <2>6, SoleStep
<1>. QED BY <1>2, <1>3

LEMMA FinishIfSole ==
  ASSUME Good(bbs, nb, BB_, frames, pc), Edged, Terminating, SoleNow, FinishIf
  PROVE  NextSole
<1> DEFINE y == Last(frames).retBB
<1>1. frames # <<>> /\ Last(frames).kind = "ifTrue" /\ nb' = nb /\ Joins(y)
  BY DEF FinishIf, StmtVisited, Top, Joins
<1>2. y \in 1 .. nb
  BY <1>1, Innermost DEF FrameOK
<1>. QED BY <1>1, <1>2, JoinSole

LEMMA FinishWhileSole ==
  ASSUME Good(bbs, nb, BB_, frames, pc), Edged, Terminating, SoleNow, FinishWhile
  PROVE  NextSole
<1> DEFINE x == Last(frames).conditionBB
<1>1. frames # <<>> /\ Last(frames).kind = "whileBody" /\ nb' = nb /\ Joins(x)
  BY DEF FinishWhile, StmtVisited, Top, Joins
<1>2. x \in 1 .. nb
  BY <1>1, Innermost DEF FrameOK
<1>. QED BY <1>1, <1>2, JoinSole

\* The empty function has no edge.
LEMMA InitSole == Init => SoleInv
<1> SUFFICES ASSUME Init PROVE SoleEdges(Arcs(bbs), Conds(bbs, nb))
  BY InitLooped, InitEnded DEF SoleInv
<1>1. /\ nb = 1 /\ Arcs(bbs) \in SUBSET ((1 .. nb) \X (1 .. nb)) /\ Entry = 1
  BY InitEdged, EdgeTypes, ArcsInside DEF Init, EdgesInv, IInv
<1>2. \A e, d \in Arcs(bbs) : e = <<1, 1>> /\ d = <<1, 1>>
  BY <1>1
<1>. QED BY <1>2 DEF SoleEdges

LEMMA NextKeepsSole ==
  ASSUME "ifelse" \notin Kinds, ~CodeAfterReturn, SoleInv, [Next]_vars
  PROVE  SoleInv'
<1>1. LoopsInv' /\ EndedInv'
  BY NextKeepsLoops, NextKeepsEnded DEF SoleInv
<1>2. CASE UNCHANGED vars
  BY <1>1, <1>2 DEF vars, SoleInv, Arcs, Conds
<1>3. CASE Next
  <2>1. Good(bbs, nb, BB_, frames, pc) /\ Edged /\ Terminating /\ SoleNow
    BY DEF SoleInv, EndedInv, EdgesInv, IInv, Edged, Terminating, SoleNow
  <2>2. ~BranchIfElse /\ ~StartElse /\ ~FinishIfElse
    <3>1. frames # <<>> => Last(frames).kind \notin {"ifElseCond", "elseTrue", "elseFalse"}
      BY <2>1, Innermost DEF Awaits
    <3>2. pc = "expr" => frames # <<>>
      BY <2>1 DEF Good
    <3>. QED BY <3>1, <3>2 DEF BranchIfElse, StartElse, FinishIfElse, ExprVisited, StmtVisited, Top
  <2>3. NextSole
    BY <1>3, <2>1, <2>2, PlainStepsSole, VisitIterationStmtSole, VisitVarIndexedSole,
       BranchIfSole, BranchWhileSole, FinishIfSole, FinishWhileSole DEF Next
  <2>. QED BY <1>1, <2>3 DEF SoleInv, NextSole
<1>. QED BY <1>2, <1>3

\* The loops of the function are entered, and closed, by unconditional branches:
\* if a branch leads back to a block that dominates it, every branch there is one.
LoopsEnteredByBr ==
  \A e \in Edges : Dominates(e[2], e[1], Entry, Created, Edges) =>
    \A p \in Range(Function.pre[e[2]]) : Len(Function.succ[p]) = 1

\* Edges B that each lead to a dominator of their start are on no shortest path:
\* without them a dominator of t still leads to t.
LEMMA DominatorLeads ==
  ASSUME NEW N, NEW E, NEW r, EntryGraph(r, N, E),
         NEW B \in SUBSET E, \A d \in B : Dominates(d[2], d[1], r, N, E),
         NEW h \in N, NEW t \in N, h # r, Dominates(h, t, r, N, E),
         NEW S \in SUBSET N, Closed(S, E \ B), h \in S
  PROVE  t \in S
<1>1. IsFiniteSet(N) /\ r \in N /\ E \in SUBSET (N \X N) /\ \A e \in E : e[2] # r /\ e[1] \in N /\ e[2] \in N
  BY DEF EntryGraph
<1>2. ASSUME NEW U \in SUBSET N, r \in U, Closed(U, E \ B) PROVE U = N
  <2> DEFINE R == Reachable(r, N, E \ B)
  <2>1. /\ R \subseteq N /\ r \in R /\ Closed(R, E \ B)
        /\ \A T : r \in T /\ Closed(T, E \ B) => R \subseteq T
    <3>1. (E \ B) \intersect (N \X N) = E \ B
      BY <1>1
    <3>2. /\ R \subseteq N /\ r \in R
          /\ \A e \in (E \ B) \intersect (N \X N) : e[1] \in R => e[2] \in R
          /\ \A T : (/\ r \in T
                     /\ \A e \in (E \ B) \intersect (N \X N) : e[1] \in T => e[2] \in T)
                     => R \subseteq T
      BY <1>1, ReachableLeast
    <3>. HIDE DEF R
    <3>. QED BY <3>1, <3>2 DEF Closed
  <2>. HIDE DEF R
  <2>2. Closed(R, E)
    <3> SUFFICES ASSUME NEW e \in E, e[1] \in R, e[2] \notin R PROVE FALSE
      BY DEF Closed
    <3>1. e \in B /\ e[1] # e[2]
      BY <2>1 DEF Closed
    <3>2. PICK T \in SUBSET N : Cut(T, e[2], e[1], r, E)
      BY <1>1, <3>1, DominatesByCut
    <3>3. Closed(R \intersect T, E \ B) /\ r \in R \intersect T
      BY <2>1, <3>2 DEF Closed, Cut
    <3>4. e[1] \in T
      BY <2>1, <3>3
    <3>. QED BY <3>2, <3>4 DEF Cut
  <2>3. R = N
    BY <2>1, <2>2 DEF EntryGraph, AllReachableFrom
  <2>. QED BY <1>2, <2>1, <2>3
<1>3. CASE h = t
  BY <1>3
<1>4. CASE h # t
  <2>1. PICK T \in SUBSET N : Cut(T, h, t, r, E)
    BY <1>1, <1>4, DominatesByCut
  <2>2. Closed(T \union S, E \ B) /\ r \in T \union S
    BY <2>1 DEF Closed, Cut
  <2>3. T \union S = N
    BY <1>2, <2>2
  <2>. QED BY <2>1, <2>3 DEF Cut
<1>. QED BY <1>3, <1>4

\* The header of a loop is the condition block of a while.
LEMMA HeaderIsCondition ==
  ASSUME LoopsInv, frames = <<>>, NEW e \in Edges, Dominates(e[2], e[1], Entry, Created, Edges)
  PROVE  e[2] \in Conds(bbs, nb)
<1> DEFINE E == Edges
           B == Back(E, Conds(bbs, nb))
<1>1. Good(bbs, nb, BB_, frames, pc) /\ Lists(bbs, nb) /\ AllReachable
  BY IInvImplies DEF LoopsInv, EdgesInv, IInv
<1>2. nb \in Nat /\ Created = 1 .. nb /\ Entry \in 1 .. nb /\ bbs \in Graph /\ 1 .. nb \subseteq Blocks
  BY <1>1, EdgeTypes DEF Created, Blocks
<1>3. Arcs(bbs) = E /\ E \in SUBSET (Created \X Created)
  BY <1>2, <1>1, ArcsInside DEF EdgesOf, Edges
<1>4. Sorted(E \ B, nb) /\ \A d \in B : Sealed(E, nb, frames, d)
  BY <1>3 DEF LoopsInv, Looped, Seals
<1>5. EntryGraph(Entry, Created, E)
  <2>1. IsFiniteSet(Created) /\ Created \ Pending = Created
    BY <1>2, FS_Interval DEF Pending
  <2>2. ASSUME NEW d \in E, d[2] = Entry PROVE FALSE
    <3>1. d[1] \in Blocks /\ Entry \in Blocks /\ Entry \in Range(bbs[d[1]].succ)
      BY <1>2, <1>3, <2>2 DEF Edges, Succs
    <3>2. d[1] \in Range(bbs[Entry].pre)
      BY <1>1, <3>1 DEF Lists
    <3>. QED BY <1>1, <3>2, EmptyList DEF Lists
  <2>. QED BY <1>1, <1>2, <1>3, <2>1, <2>2 DEF EntryGraph, AllReachable
<1>6. \A d \in B : Dominates(d[2], d[1], Entry, Created, E)
  <2> SUFFICES ASSUME NEW d \in B PROVE Dominates(d[2], d[1], Entry, 1 .. nb, E)
    BY <1>2
  <2>1. d \in E /\ Sealed(E, nb, frames, d)
    BY <1>4 DEF Back
  <2>. QED BY <1>2, <1>3, <2>1, BackDominated
<1>7. CASE e \in B
  BY <1>7 DEF Back
<1>8. CASE e \notin B
  <2>1. PICK S \in SUBSET (1 .. nb) : Closed(S, E \ B) /\ e[2] \in S /\ e[1] \notin S
    BY <1>4, <1>8 DEF Sorted
  <2>2. e[1] \in Created /\ e[2] \in Created /\ e[2] # Entry /\ B \in SUBSET E
    BY <1>3, <1>5 DEF EntryGraph, Back
  <2>. HIDE DEF B, E
  <2>3. Dominates(e[2], e[1], Entry, Created, E)
    BY DEF E
  <2>4. S \in SUBSET Created
    BY <1>2
  <2>5. \A h, t \in Created : h # Entry /\ Dominates(h, t, Entry, Created, E) /\ h \in S => t \in S
    BY <1>5, <1>6, <2>1, <2>2, <2>4, DominatorLeads
  <2>6. e[1] \in S
    BY <2>1, <2>2, <2>3, <2>5
  <2>. QED BY <2>1, <2>6
<1>. QED BY <1>7, <1>8

LEMMA SoleInvImplies ==
  ASSUME SoleInv, frames = <<>>
  PROVE  LoopsEnteredByBr
<1>1. Good(bbs, nb, BB_, frames, pc) /\ Lists(bbs, nb) /\ LoopsInv
  BY DEF SoleInv, LoopsInv, EdgesInv, IInv
<1>2. nb \in Nat /\ Created = 1 .. nb /\ bbs \in Graph /\ 1 .. nb \subseteq Blocks
  BY <1>1, EdgeTypes DEF Created, Blocks
<1>3. Arcs(bbs) = Edges /\ Edges \in SUBSET (Created \X Created)
  BY <1>2, <1>1, ArcsInside DEF EdgesOf, Edges
<1> SUFFICES ASSUME NEW e \in Edges, Dominates(e[2], e[1], Entry, Created, Edges),
                    NEW p \in Range(bbs[e[2]].pre)
             PROVE  p \in Created /\ Len(bbs[p].succ) = 1
  BY <1>3 DEF LoopsEnteredByBr, Function
<1>4. e[2] \in Created /\ e[2] \in Blocks /\ e[2] \in Conds(bbs, nb)
  BY <1>1, <1>2, <1>3, HeaderIsCondition
<1>5. p \in Created /\ p \in Blocks /\ e[2] \in Range(bbs[p].succ)
  BY <1>1, <1>2, <1>4, PredsCreated DEF Lists
<1>6. \A x \in Range(bbs[p].succ) : x = e[2]
  <2> SUFFICES ASSUME NEW x \in Range(bbs[p].succ) PROVE x = e[2]
    OBVIOUS
  <2>1. x \in Blocks
    BY <1>2, <1>5, BlockTypes DEF Range
  <2>2. <<p, x>> \in Arcs(bbs) /\ <<p, e[2]>> \in Arcs(bbs)
    BY <1>4, <1>5, <2>1 DEF Arcs, Succs
  <2>3. <<p, x>> = <<p, e[2]>>
    BY <1>4, <2>2 DEF SoleInv, SoleEdges
  <2>. QED BY <2>3
<1> DEFINE s == bbs[p].succ
<1>7. s \in Seq(Blocks) /\ IsInjective(s) /\ e[2] \in Range(s) /\ \A x \in Range(s) : x = e[2]
  BY <1>1, <1>2, <1>5, <1>6, BlockTypes DEF Lists
<1>. HIDE DEF s
<1>8. Len(s) \in Nat /\ DOMAIN s = 1 .. Len(s) /\ \A i \in 1 .. Len(s) : s[i] \in Range(s)
  BY <1>7 DEF Range
<1>9. \A i, j \in 1 .. Len(s) : i = j
  BY <1>7, <1>8 DEF IsInjective
<1>10. PICK i \in 1 .. Len(s) : s[i] = e[2]
  BY <1>7, <1>8 DEF Range
<1>11. 1 \in 1 .. Len(s) /\ Len(s) \in 1 .. Len(s)
  BY <1>8, <1>10
<1>12. Len(s) = 1
  BY <1>9, <1>11
<1>. QED BY <1>5, <1>12 DEF s

\* Under the same conditions every loop of a finished function is entered through
\* an unconditional branch (the hypothesis EnteredByBr of ParentLoopCorrect): the
\* one predecessor that get_parent_loop looks at tells which loop is around it.
THEOREM BuiltLoopsEnteredByBr ==
  ASSUME "ifelse" \notin Kinds, ~CodeAfterReturn
  PROVE  Spec => [](pc = "end" => LoopsEnteredByBr)
<1>1. Init => (pc = "end" => frames = <<>>)
  BY DEF Init
<1>2. SoleInv /\ (pc = "end" => frames = <<>>) => (pc = "end" => LoopsEnteredByBr)
  BY SoleInvImplies
<1>3. SoleInv => EdgesInv
  BY DEF SoleInv, LoopsInv
<1>. QED BY <1>1, <1>2, <1>3, InitSole, NextKeepsSole, FinishedIsPopped, PTL DEF Spec
=============================================================================
