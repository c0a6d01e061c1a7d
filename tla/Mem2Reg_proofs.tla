--------------------------- MODULE Mem2Reg_proofs ---------------------------
(***************************************************************************)
(* For any function that the builder makes (BlocksAssumption,              *)
(* ProgramsAssumption): Mem2Reg keeps its types, its stacks are balanced,  *)
(* a function that sets its variables at the entry is not aborted, and     *)
(* what is left behind is in SSA form.                                     *)
(*                                                                         *)
(* The operators of the invariant take the parts of the state they are     *)
(* about: p is the function, c its code, fs the calls of re_name, vs the   *)
(* stacks of values.                                                       *)
(***************************************************************************)
EXTENDS Mem2RegRun, FlowGraph_proofs

Frames == {f \in [bb : Blocks, at : {"phis", "instrs", "succs", "kids"}, i : Nat \ {0},
                  kids : SUBSET Blocks, wait : SUBSET ValueNames] :
             f.at = "phis" => f.i = 1}
Codes == [Blocks -> Seq(Instructions)]

Dom(p, a, b) == Dominates(a, b, Entry, Blocks, EdgesOf(p))

(***************************************************************************)
(* The calls of re_name.  A block is open while a call is at work on it,   *)
(* and to come when it lies below a child that has not been visited.       *)
(***************************************************************************)
Open(fs, b) == \E k \in 1 .. Len(fs) : fs[k].bb = b
ToCome(p, fs, b) == \E k \in 1 .. Len(fs) : \E c \in fs[k].kids : Dom(p, c, b)

\* The open blocks are the dominators of the innermost, in their order, and
\* what is to come lies beside them.
Tree(p, fs) ==
  /\ fs \in Seq(Frames)
  /\ fs # <<>> => fs[1].bb = Entry
  /\ \A k \in 1 .. Len(fs) :
       /\ fs[k].kids \subseteq p.kids[fs[k].bb]
       /\ \A m \in 1 .. Len(fs) : k < m =>
            /\ fs[k].at = "kids"
            /\ fs[k].bb # fs[m].bb /\ Dom(p, fs[k].bb, fs[m].bb)
       /\ \A d \in Blocks : Dom(p, d, fs[k].bb) => \E m \in 1 .. k : fs[m].bb = d
       /\ \A c \in fs[k].kids : \A m \in 1 .. Len(fs) : ~Dom(p, c, fs[m].bb)

(***************************************************************************)
(* Sequences.                                                              *)
(***************************************************************************)
LEMMA FrontOf ==
  ASSUME NEW S, NEW s \in Seq(S), s # <<>>
  PROVE  /\ Front(s) \in Seq(S) /\ Len(Front(s)) = Len(s) - 1
         /\ \A k \in 1 .. Len(s) - 1 : Front(s)[k] = s[k]
<1>1. Len(s) \in Nat \ {0} /\ \A k \in 1 .. Len(s) : s[k] \in S
  OBVIOUS
<1>2. Front(s) = SubSeq(s, 1, Len(s) - 1)
  BY DEF Front
<1>3. Len(s) - 1 \in 0 .. Len(s) /\ \A i \in 1 .. Len(s) - 1 : i \in 1 .. Len(s)
  BY <1>1
<1>4. Front(s) = [k \in 1 .. Len(s) - 1 |-> s[k]]
  BY <1>1, <1>2, <1>3
<1>. QED BY <1>1, <1>3, <1>4

LEMMA SeqFrom ==
  ASSUME NEW S, NEW n \in Nat, NEW s, s = [i \in 1 .. n |-> s[i]], \A i \in 1 .. n : s[i] \in S
  PROVE  s \in Seq(S) /\ Len(s) = n
OBVIOUS

\* The last element replaced.
LEMMA SetLast ==
  ASSUME NEW S, NEW s \in Seq(S), s # <<>>, NEW e \in S
  PROVE  LET t == Append(Front(s), e)
         IN  /\ t \in Seq(S) /\ Len(t) = Len(s) /\ t # <<>> /\ Len(s) \in Nat \ {0}
             /\ t[Len(s)] = e /\ Last(t) = e
             /\ \A k \in 1 .. Len(s) : k # Len(s) => t[k] = s[k]
<1>1. Len(s) \in Nat \ {0} /\ \A k \in 1 .. Len(s) : s[k] \in S
  OBVIOUS
<1>2. /\ Front(s) \in Seq(S) /\ Len(Front(s)) = Len(s) - 1
      /\ \A k \in 1 .. Len(s) - 1 : Front(s)[k] = s[k]
  BY <1>1, FrontOf
<1>. QED BY <1>1, <1>2 DEF Last

\* The last element taken away.
LEMMA DropLast ==
  ASSUME NEW S, NEW s \in Seq(S), s # <<>>
  PROVE  /\ Front(s) \in Seq(S) /\ Len(Front(s)) = Len(s) - 1 /\ Len(s) \in Nat \ {0}
         /\ \A k \in 1 .. Len(s) - 1 : Front(s)[k] = s[k]
         /\ Last(s) = s[Len(s)] /\ Last(s) \in S
<1>1. Len(s) \in Nat \ {0} /\ \A k \in 1 .. Len(s) : s[k] \in S
  OBVIOUS
<1>. QED BY <1>1, FrontOf DEF Last

(***************************************************************************)
(* The dominator tree of a function.                                       *)
(***************************************************************************)
LEMMA GraphOf ==
  ASSUME NEW p \in Programs
  PROVE  EntryGraph(Entry, Blocks, EdgesOf(p))
BY BlocksAssumption, ProgramsAssumption DEF EntryGraph, EdgesOf

LEMMA DomOrder ==
  ASSUME NEW p \in Programs
  PROVE  /\ \A a \in Blocks : Dom(p, a, a) /\ Dom(p, Entry, a)
         /\ \A a \in Blocks : Dom(p, a, Entry) => a = Entry
         /\ \A a, b \in Blocks : Dom(p, a, b) /\ Dom(p, b, a) => a = b
         /\ \A a, b, c \in Blocks : Dom(p, a, b) /\ Dom(p, b, c) => Dom(p, a, c)
         /\ \A a, b, c \in Blocks : Dom(p, a, c) /\ Dom(p, b, c) => Dom(p, a, b) \/ Dom(p, b, a)
<1>1. EntryGraph(Entry, Blocks, EdgesOf(p))
  BY GraphOf
<1>2. \A a \in Blocks : Dom(p, a, a) /\ Dom(p, Entry, a)
  BY DEF Dom, Dominates
<1>3. \A a \in Blocks : Dom(p, a, Entry) => a = Entry
  BY <1>1, EntryDominated DEF Dom
<1>4. \A a, b \in Blocks : Dom(p, a, b) /\ Dom(p, b, a) => a = b
  BY <1>1, DominatesAntisymmetric DEF Dom
<1>5. \A a, b, c \in Blocks : Dom(p, a, b) /\ Dom(p, b, c) => Dom(p, a, c)
  BY <1>1, DominatesTransitive DEF Dom
<1>6. \A a, b, c \in Blocks : Dom(p, a, c) /\ Dom(p, b, c) => Dom(p, a, b) \/ Dom(p, b, a)
  BY <1>1, DominatorsComparable DEF Dom
<1>. QED BY <1>2, <1>3, <1>4, <1>5, <1>6

LEMMA KidsOf ==
  ASSUME NEW p \in Programs, NEW b \in Blocks
  PROVE  /\ p.kids[b] \in SUBSET (Blocks \ {Entry})
         /\ \A c \in p.kids[b] : /\ c # b /\ Dom(p, b, c)
                                 /\ \A a \in Blocks : Dom(p, a, c) => a = c \/ Dom(p, a, b)
         /\ \A d \in Blocks : Dom(p, b, d) /\ b # d => \E x \in p.kids[b] : Dom(p, x, d)
<1>1. EntryGraph(Entry, Blocks, EdgesOf(p)) /\ Entry \in Blocks
  BY GraphOf, BlocksAssumption
<1>2. p.kids[b] = {c \in Blocks \ {Entry} : b \in ImmediateDominators(c, Entry, Blocks, EdgesOf(p))}
  BY ProgramsAssumption
<1>3. \A d \in Blocks : Dom(p, b, d) /\ b # d => \E x \in p.kids[b] : Dom(p, x, d)
  BY <1>1, <1>2, ChildBetween DEF Dom
<1>4. \A c \in p.kids[b] : /\ c # b /\ Dom(p, b, c)
                           /\ \A a \in Blocks : Dom(p, a, c) => a = c \/ Dom(p, a, b)
  BY <1>2 DEF ImmediateDominators, StrictlyDominates, Dom
<1>. QED BY <1>2, <1>3, <1>4

LEMMA FrameFields ==
  ASSUME NEW fs \in Seq(Frames)
  PROVE  /\ Len(fs) \in Nat
         /\ \A k \in 1 .. Len(fs) :
              /\ fs[k] \in Frames /\ fs[k].bb \in Blocks /\ fs[k].kids \in SUBSET Blocks
              /\ fs[k].i \in Nat \ {0} /\ fs[k].wait \in SUBSET ValueNames
              /\ fs[k].at \in {"phis", "instrs", "succs", "kids"}
              /\ fs[k].at = "phis" => fs[k].i = 1
<1>1. Len(fs) \in Nat /\ \A k \in 1 .. Len(fs) : fs[k] \in Frames
  OBVIOUS
<1>2. \A f \in Frames : /\ f.bb \in Blocks /\ f.kids \in SUBSET Blocks
                        /\ f.i \in Nat \ {0} /\ f.wait \in SUBSET ValueNames
                        /\ f.at \in {"phis", "instrs", "succs", "kids"}
                        /\ f.at = "phis" => f.i = 1
  BY DEF Frames
<1>. QED BY <1>1, <1>2

\* Steps of the innermost call.
LEMMA TopMoves ==
  ASSUME NEW p \in Programs, NEW fs, Tree(p, fs), fs # <<>>, NEW f \in Frames,
         f.bb = Last(fs).bb, f.kids \subseteq Last(fs).kids
  PROVE  LET new == Append(Front(fs), f)
         IN  /\ Tree(p, new)
             /\ \A b \in Blocks : /\ Open(new, b) <=> Open(fs, b)
                                  /\ ToCome(p, new, b) => ToCome(p, fs, b)
<1> DEFINE new == Append(Front(fs), f)
<1>1. fs \in Seq(Frames)
  BY DEF Tree
<1>2. /\ new \in Seq(Frames) /\ Len(new) = Len(fs) /\ new # <<>> /\ Len(fs) \in Nat \ {0}
      /\ new[Len(fs)] = f /\ \A k \in 1 .. Len(fs) : k # Len(fs) => new[k] = fs[k]
  BY <1>1, SetLast
<1>3. Last(fs) = fs[Len(fs)]
  BY DEF Last
<1>. HIDE DEF new
<1>4. \A k \in 1 .. Len(fs) : /\ new[k].bb = fs[k].bb /\ new[k].kids \subseteq fs[k].kids
                              /\ k # Len(fs) => new[k].at = fs[k].at
  BY <1>2, <1>3
<1>5. new[1].bb = Entry
  BY <1>2, <1>4 DEF Tree
<1>6. ASSUME NEW k \in 1 .. Len(new)
      PROVE  /\ new[k].kids \subseteq p.kids[new[k].bb]
             /\ \A m \in 1 .. Len(new) : k < m =>
                  /\ new[k].at = "kids"
                  /\ new[k].bb # new[m].bb /\ Dom(p, new[k].bb, new[m].bb)
             /\ \A d \in Blocks : Dom(p, d, new[k].bb) => \E m \in 1 .. k : new[m].bb = d
             /\ \A c \in new[k].kids : \A m \in 1 .. Len(new) : ~Dom(p, c, new[m].bb)
  <2>1. new[k].kids \subseteq p.kids[new[k].bb]
    BY <1>2, <1>4, <1>6 DEF Tree
  <2>2. ASSUME NEW m \in 1 .. Len(new), k < m
        PROVE  new[k].at = "kids" /\ new[k].bb # new[m].bb /\ Dom(p, new[k].bb, new[m].bb)
    <3>1. k # Len(fs) /\ k \in 1 .. Len(fs) /\ m \in 1 .. Len(fs)
      BY <1>2, <2>2
    <3>. QED BY <1>4, <2>2, <3>1 DEF Tree
  <2>3. ASSUME NEW d \in Blocks, Dom(p, d, new[k].bb) PROVE \E m \in 1 .. k : new[m].bb = d
    <3>1. PICK m \in 1 .. k : fs[m].bb = d
      BY <1>2, <1>4, <2>3 DEF Tree
    <3>2. m \in 1 .. Len(fs)
      BY <1>2
    <3>. QED BY <1>4, <3>1, <3>2
  <2>4. ASSUME NEW c \in new[k].kids, NEW m \in 1 .. Len(new) PROVE ~Dom(p, c, new[m].bb)
    BY <1>2, <1>4, <2>4 DEF Tree
  <2>. QED BY <2>1, <2>2, <2>3, <2>4
<1>7. Tree(p, new)
  BY <1>2, <1>5, <1>6 DEF Tree
<1>8. \A b \in Blocks : Open(new, b) <=> Open(fs, b)
  BY <1>2, <1>4 DEF Open
<1>9. \A b \in Blocks : ToCome(p, new, b) => ToCome(p, fs, b)
  BY <1>2, <1>4 DEF ToCome
<1>. QED BY <1>7, <1>8, <1>9 DEF new

\* A call on a child that is no longer to come.
NewCall(p, b) == [bb |-> b, at |-> "phis", i |-> 1, kids |-> p.kids[b], wait |-> {}]

LEMMA NewCallType ==
  ASSUME NEW p \in Programs, NEW b \in Blocks
  PROVE  NewCall(p, b) \in Frames
BY KidsOf DEF NewCall, Frames

LEMMA CallBegins ==
  ASSUME NEW p \in Programs, NEW fs, Tree(p, fs), fs # <<>>, Last(fs).at = "kids",
         NEW c \in p.kids[Last(fs).bb],
         \A k \in 1 .. Len(fs) : c \notin fs[k].kids,
         \A m \in 1 .. Len(fs) : ~Dom(p, c, fs[m].bb),
         NEW new, new = Append(fs, NewCall(p, c))
  PROVE  Tree(p, new)
<1> DEFINE n == Len(fs)
<1>1. fs \in Seq(Frames) /\ n \in Nat \ {0} /\ Last(fs) = fs[n]
  BY DEF Tree, Last
<1>2. fs[n] \in Frames /\ fs[n].bb \in Blocks
  BY <1>1, FrameFields
<1>3. /\ c \in Blocks \ {Entry} /\ c # fs[n].bb /\ Dom(p, fs[n].bb, c)
      /\ \A a \in Blocks : Dom(p, a, c) => a = c \/ Dom(p, a, fs[n].bb)
  BY <1>1, <1>2, KidsOf
<1>4. NewCall(p, c) \in Frames
  BY <1>3, NewCallType
<1>5. /\ new \in Seq(Frames) /\ Len(new) = n + 1 /\ new # <<>>
      /\ new[n + 1] = NewCall(p, c) /\ \A k \in 1 .. n : new[k] = fs[k]
  BY <1>1, <1>4
<1>6. \A k \in 1 .. n : fs[k] \in Frames /\ fs[k].bb \in Blocks /\ fs[k].kids \subseteq Blocks
  BY <1>1, FrameFields
<1>7. \A k \in 1 .. n : fs[k].at = "kids" /\ Dom(p, fs[k].bb, fs[n].bb)
  <2>1. fs[n].at = "kids" /\ Dom(p, fs[n].bb, fs[n].bb)
    BY <1>1, <1>2, DomOrder
  <2>2. \A k \in 1 .. n : k # n => fs[k].at = "kids" /\ Dom(p, fs[k].bb, fs[n].bb)
    BY <1>1 DEF Tree
  <2>. QED BY <2>1, <2>2
<1>8. \A k \in 1 .. n : Dom(p, fs[k].bb, c) /\ fs[k].bb # c
  <2>1. \A k \in 1 .. n : Dom(p, fs[k].bb, c)
    BY <1>2, <1>3, <1>6, <1>7, DomOrder
  <2>2. \A k \in 1 .. n : fs[k].bb # c
    BY <1>3, DomOrder
  <2>. QED BY <2>1, <2>2
<1>9. NewCall(p, c).bb = c /\ NewCall(p, c).kids = p.kids[c]
  BY DEF NewCall
<1>10. ASSUME NEW k \in 1 .. Len(new), NEW x \in new[k].kids, NEW m \in 1 .. Len(new)
       PROVE  ~Dom(p, x, new[m].bb)
  <2>. SUFFICES ASSUME Dom(p, x, new[m].bb) PROVE FALSE
    OBVIOUS
  <2>1. CASE k = n + 1
    <3>1. x \in Blocks /\ x # c /\ Dom(p, c, x)
      BY <1>3, <1>5, <1>9, <2>1, KidsOf
    <3>2. CASE m = n + 1
      BY <1>3, <1>5, <1>9, <3>1, <3>2, DomOrder
    <3>3. CASE m \in 1 .. n
      <4>1. Dom(p, c, fs[m].bb)
        BY <1>3, <1>5, <1>6, <3>1, <3>3, DomOrder
      <4>. QED BY <3>3, <4>1
    <3>. QED BY <1>1, <1>5, <3>2, <3>3
  <2>2. CASE k \in 1 .. n
    <3>1. x \in fs[k].kids /\ x \in Blocks /\ x # c
      BY <1>5, <1>6, <2>2
    <3>2. \A j \in 1 .. n : ~Dom(p, x, fs[j].bb)
      BY <2>2, <3>1 DEF Tree
    <3>3. CASE m = n + 1
      <4>1. Dom(p, x, c)
        BY <1>5, <1>9, <3>3
      <4>2. Dom(p, x, fs[n].bb)
        BY <1>3, <3>1, <4>1
      <4>. QED BY <1>1, <3>2, <4>2
    <3>4. CASE m \in 1 .. n
      BY <1>5, <3>2, <3>4
    <3>. QED BY <1>1, <1>5, <3>3, <3>4
  <2>. QED BY <1>1, <1>5, <2>1, <2>2
<1>11. ASSUME NEW k \in 1 .. Len(new)
       PROVE  /\ new[k].kids \subseteq p.kids[new[k].bb]
              /\ \A m \in 1 .. Len(new) : k < m =>
                   /\ new[k].at = "kids"
                   /\ new[k].bb # new[m].bb /\ Dom(p, new[k].bb, new[m].bb)
              /\ \A d \in Blocks : Dom(p, d, new[k].bb) => \E m \in 1 .. k : new[m].bb = d
  <2>1. CASE k = n + 1
    <3>1. new[k].bb = c /\ new[k].kids = p.kids[c]
      BY <1>5, <1>9, <2>1
    <3>2. ASSUME NEW d \in Blocks, Dom(p, d, c) PROVE \E m \in 1 .. k : new[m].bb = d
      <4>1. CASE d = c
        BY <1>1, <2>1, <3>1, <4>1
      <4>2. CASE d # c
        <5>1. PICK m \in 1 .. n : fs[m].bb = d
          BY <1>1, <1>3, <3>2, <4>2 DEF Tree
        <5>. QED BY <1>1, <1>5, <2>1, <5>1
      <4>. QED BY <4>1, <4>2
    <3>3. \A m \in 1 .. Len(new) : ~(k < m)
      BY <1>1, <1>5, <2>1
    <3>. QED BY <3>1, <3>2, <3>3
  <2>2. CASE k \in 1 .. n
    <3>1. new[k] = fs[k] /\ new[k].kids \subseteq p.kids[new[k].bb]
      BY <1>5, <2>2 DEF Tree
    <3>2. ASSUME NEW m \in 1 .. Len(new), k < m
          PROVE  new[k].at = "kids" /\ new[k].bb # new[m].bb /\ Dom(p, new[k].bb, new[m].bb)
      <4>1. CASE m = n + 1
        BY <1>5, <1>7, <1>8, <1>9, <2>2, <3>1, <4>1
      <4>2. CASE m \in 1 .. n
        BY <1>5, <2>2, <3>2, <4>2 DEF Tree
      <4>. QED BY <1>1, <1>5, <4>1, <4>2
    <3>3. ASSUME NEW d \in Blocks, Dom(p, d, new[k].bb) PROVE \E m \in 1 .. k : new[m].bb = d
      <4>1. PICK m \in 1 .. k : fs[m].bb = d
        BY <2>2, <3>1, <3>3 DEF Tree
      <4>. QED BY <1>1, <1>5, <2>2, <4>1
    <3>. QED BY <3>1, <3>2, <3>3
  <2>. QED BY <1>1, <1>5, <2>1, <2>2
<1>12. new[1].bb = Entry
  BY <1>1, <1>5 DEF Tree
<1>. QED BY <1>5, <1>10, <1>11, <1>12 DEF Tree

\* A child of the innermost block is a child of no other open block.
LEMMA ChildApart ==
  ASSUME NEW p \in Programs, NEW fs, Tree(p, fs), fs # <<>>, NEW c \in Last(fs).kids
  PROVE  /\ c \in p.kids[Last(fs).bb] /\ c \in Blocks
         /\ \A k \in 1 .. Len(fs) : k # Len(fs) => c \notin fs[k].kids
         /\ \A m \in 1 .. Len(fs) : ~Dom(p, c, fs[m].bb)
<1> DEFINE n == Len(fs)
<1>1. fs \in Seq(Frames) /\ n \in Nat \ {0} /\ Last(fs) = fs[n] /\ n \in 1 .. n
  BY DEF Tree, Last
<1>2. \A k \in 1 .. n : fs[k].bb \in Blocks /\ fs[k].kids \in SUBSET Blocks
  BY <1>1, FrameFields
<1>3. c \in p.kids[fs[n].bb] /\ \A m \in 1 .. n : ~Dom(p, c, fs[m].bb)
  BY <1>1 DEF Tree
<1>4. ASSUME NEW k \in 1 .. n, k # n, c \in fs[k].kids PROVE FALSE
  <2>1. c \in p.kids[fs[k].bb] /\ fs[k].bb # fs[n].bb
    BY <1>1, <1>4 DEF Tree
  <2>2. Dom(p, fs[k].bb, c) /\ fs[k].bb # c /\ Dom(p, fs[n].bb, c) /\ fs[n].bb # c
    BY <1>1, <1>2, <1>3, <2>1, KidsOf
  <2>3. Dom(p, fs[k].bb, fs[n].bb) /\ Dom(p, fs[n].bb, fs[k].bb)
    <3>1. \A a \in Blocks : Dom(p, a, c) => a = c \/ Dom(p, a, fs[n].bb)
      BY <1>1, <1>2, <1>3, KidsOf
    <3>2. \A a \in Blocks : Dom(p, a, c) => a = c \/ Dom(p, a, fs[k].bb)
      BY <1>2, <2>1, KidsOf
    <3>. QED BY <1>1, <1>2, <2>2, <3>1, <3>2
  <2>. QED BY <1>1, <1>2, <2>1, <2>3, DomOrder
<1>. QED BY <1>1, <1>2, <1>3, <1>4

\* re_name calls itself for child c.
LEMMA TreeEntered ==
  ASSUME NEW p \in Programs, NEW fs, Tree(p, fs), fs # <<>>, Last(fs).at = "kids",
         NEW c \in Last(fs).kids,
         NEW f \in Frames, f.bb = Last(fs).bb, f.kids = Last(fs).kids \ {c}, f.at = "kids"
  PROVE  LET new == Append(Append(Front(fs), f), NewCall(p, c))
         IN  /\ Tree(p, new)
             /\ \A b \in Blocks : /\ Open(new, b) <=> Open(fs, b) \/ b = c
                                  /\ ToCome(p, new, b) \/ b = c <=> ToCome(p, fs, b)
<1> DEFINE n == Len(fs)
           mid == Append(Front(fs), f)
           new == Append(mid, NewCall(p, c))
<1>16. mid = Append(Front(fs), f) /\ new = Append(mid, NewCall(p, c))
  OBVIOUS
<1>. HIDE DEF mid, new
<1>1. fs \in Seq(Frames) /\ n \in Nat \ {0} /\ Last(fs) = fs[n] /\ n \in 1 .. n /\ fs[n] \in Frames
  BY DEF Tree, Last
<1>2. /\ f \in Frames /\ f.bb = fs[n].bb /\ f.kids = fs[n].kids \ {c} /\ f.at = "kids"
  BY <1>1
<1>3. /\ Tree(p, mid)
      /\ \A b \in Blocks : Open(mid, b) <=> Open(fs, b)
  <2>1. f \in Frames /\ f.bb = Last(fs).bb /\ f.kids \subseteq Last(fs).kids
    BY <1>1, <1>2
  <2>2. /\ Tree(p, Append(Front(fs), f))
        /\ \A b \in Blocks : Open(Append(Front(fs), f), b) <=> Open(fs, b)
    BY <2>1, TopMoves
  <2>. QED BY <1>16, <2>2
<1>4. /\ mid \in Seq(Frames) /\ Len(mid) = n /\ mid # <<>> /\ mid[n] = f /\ Last(mid) = f
      /\ \A k \in 1 .. n : k # n => mid[k] = fs[k]
  BY <1>1, <1>2, <1>16, SetLast
<1>5. /\ c \in p.kids[fs[n].bb] /\ c \in Blocks
      /\ \A k \in 1 .. n : k # n => c \notin fs[k].kids
      /\ \A m \in 1 .. n : ~Dom(p, c, fs[m].bb)
  BY <1>1, ChildApart
<1>6. \A k \in 1 .. n : mid[k].bb = fs[k].bb /\ mid[k].kids = fs[k].kids \ {c}
  BY <1>1, <1>2, <1>4, <1>5
<1>7. Tree(p, new)
  <2>1. \A k \in 1 .. Len(mid) : c \notin mid[k].kids /\ ~Dom(p, c, mid[k].bb)
    BY <1>4, <1>5, <1>6
  <2>2. Last(mid).at = "kids" /\ c \in p.kids[Last(mid).bb]
    BY <1>2, <1>4, <1>5
  <2>. QED BY <1>3, <1>4, <1>16, <2>1, <2>2, CallBegins
<1>8. NewCall(p, c) \in Frames /\ NewCall(p, c).bb = c /\ NewCall(p, c).kids = p.kids[c]
  BY <1>5, NewCallType DEF NewCall
<1>9. Len(new) = n + 1 /\ new[n + 1] = NewCall(p, c) /\ \A k \in 1 .. n : new[k] = mid[k]
  BY <1>1, <1>4, <1>8, <1>16
<1>10. \A k \in 1 .. n + 1 : k \in 1 .. n \/ k = n + 1
  BY <1>1
<1>11. n + 1 \in 1 .. n + 1 /\ 1 .. n \subseteq 1 .. n + 1
  BY <1>1
<1>12. ASSUME NEW b \in Blocks PROVE Open(new, b) <=> Open(fs, b) \/ b = c
  <2>1. ASSUME Open(new, b) PROVE Open(fs, b) \/ b = c
    <3>1. PICK k \in 1 .. n + 1 : new[k].bb = b
      BY <1>9, <2>1 DEF Open
    <3>2. CASE k \in 1 .. n
      BY <1>6, <1>9, <3>1, <3>2 DEF Open
    <3>3. CASE k = n + 1
      BY <1>8, <1>9, <3>1, <3>3
    <3>. QED BY <1>10, <3>2, <3>3
  <2>2. ASSUME Open(fs, b) PROVE Open(new, b)
    BY <1>6, <1>9, <1>11, <2>2 DEF Open
  <2>3. ASSUME b = c PROVE Open(new, b)
    BY <1>8, <1>9, <1>11, <2>3 DEF Open
  <2>. QED BY <2>1, <2>2, <2>3
<1>13. ASSUME NEW b \in Blocks, ToCome(p, new, b) PROVE ToCome(p, fs, b)
  <2>1. PICK k \in 1 .. n + 1 : \E x \in new[k].kids : Dom(p, x, b)
    BY <1>9, <1>13 DEF ToCome
  <2>2. CASE k \in 1 .. n
    BY <1>6, <1>9, <2>1, <2>2 DEF ToCome
  <2>3. CASE k = n + 1
    <3>1. PICK x \in p.kids[c] : Dom(p, x, b)
      BY <1>8, <1>9, <2>1, <2>3
    <3>2. x \in Blocks /\ Dom(p, c, x)
      BY <1>5, KidsOf
    <3>3. Dom(p, c, b)
      BY <1>5, <3>1, <3>2, DomOrder
    <3>. QED BY <1>1, <3>3 DEF ToCome
  <2>. QED BY <1>10, <2>2, <2>3
<1>14. ToCome(p, fs, c)
  <2>1. Dom(p, c, c)
    BY <1>5, DomOrder
  <2>. QED BY <1>1, <2>1 DEF ToCome
<1>15. ASSUME NEW b \in Blocks, ToCome(p, fs, b), b # c PROVE ToCome(p, new, b)
  <2>1. PICK k \in 1 .. n : \E x \in fs[k].kids : Dom(p, x, b)
    BY <1>15 DEF ToCome
  <2>2. PICK x \in fs[k].kids : Dom(p, x, b)
    BY <2>1
  <2>3. CASE x # c
    <3>1. x \in new[k].kids /\ k \in 1 .. Len(new)
      BY <1>6, <1>9, <1>11, <2>3
    <3>. QED BY <2>2, <3>1 DEF ToCome
  <2>4. CASE x = c
    <3>1. PICK y \in p.kids[c] : Dom(p, y, b)
      BY <1>5, <1>15, <2>2, <2>4, KidsOf
    <3>. QED BY <1>8, <1>9, <1>11, <3>1 DEF ToCome
  <2>. QED BY <2>3, <2>4
<1>. QED BY <1>7, <1>12, <1>13, <1>14, <1>15 DEF mid, new

\* The innermost call returns.
LEMMA TreeLeft ==
  ASSUME NEW p \in Programs, NEW fs, Tree(p, fs), fs # <<>>, Last(fs).kids = {}
  PROVE  LET new == Front(fs)
         IN  /\ Tree(p, new)
             /\ \A b \in Blocks : /\ Open(fs, b) <=> Open(new, b) \/ b = Last(fs).bb
                                  /\ ToCome(p, new, b) <=> ToCome(p, fs, b)
                                  /\ Open(new, b) \/ ToCome(p, new, b) => ~Dom(p, Last(fs).bb, b)
<1> DEFINE n == Len(fs)
           t == fs[n].bb
           new == Front(fs)
<1>1. fs \in Seq(Frames)
  BY DEF Tree
<1>2. /\ new \in Seq(Frames) /\ Len(new) = n - 1 /\ n \in Nat \ {0} /\ n \in 1 .. n
      /\ \A k \in 1 .. n - 1 : new[k] = fs[k] /\ k \in 1 .. n /\ k < n
      /\ \A k \in 1 .. n : k \in 1 .. n - 1 \/ k = n
      /\ Last(fs) = fs[n]
  BY <1>1, DropLast
<1>. HIDE DEF new
<1>3. \A k \in 1 .. n : fs[k].bb \in Blocks /\ fs[k].kids \in SUBSET Blocks
  BY <1>1, FrameFields
<1>4. Tree(p, new)
  <2>1. ASSUME new # <<>> PROVE new[1].bb = Entry
    <3>1. Len(new) # 0
      BY <1>2, <2>1
    <3>. QED BY <1>2, <3>1 DEF Tree
  <2>2. ASSUME NEW k \in 1 .. Len(new)
        PROVE  /\ new[k].kids \subseteq p.kids[new[k].bb]
               /\ \A m \in 1 .. Len(new) : k < m =>
                    /\ new[k].at = "kids"
                    /\ new[k].bb # new[m].bb /\ Dom(p, new[k].bb, new[m].bb)
               /\ \A d \in Blocks : Dom(p, d, new[k].bb) => \E m \in 1 .. k : new[m].bb = d
               /\ \A c \in new[k].kids : \A m \in 1 .. Len(new) : ~Dom(p, c, new[m].bb)
    <3>1. \A m \in 1 .. k : m \in 1 .. n - 1
      BY <1>2
    <3>2. k \in 1 .. n /\ new[k] = fs[k] /\ \A m \in 1 .. Len(new) : m \in 1 .. n /\ new[m] = fs[m]
      BY <1>2
    <3>3. ASSUME NEW d \in Blocks, Dom(p, d, new[k].bb) PROVE \E m \in 1 .. k : new[m].bb = d
      <4>1. PICK m \in 1 .. k : fs[m].bb = d
        BY <3>2, <3>3 DEF Tree
      <4>. QED BY <1>2, <3>1, <4>1
    <3>4. ASSUME NEW m \in 1 .. Len(new), k < m
          PROVE  new[k].at = "kids" /\ new[k].bb # new[m].bb /\ Dom(p, new[k].bb, new[m].bb)
      BY <3>2, <3>4 DEF Tree
    <3>5. new[k].kids \subseteq p.kids[new[k].bb]
      BY <3>2 DEF Tree
    <3>6. \A c \in new[k].kids : \A m \in 1 .. Len(new) : ~Dom(p, c, new[m].bb)
      BY <3>2 DEF Tree
    <3>. QED BY <3>3, <3>4, <3>5, <3>6
  <2>. QED BY <1>2, <2>1, <2>2 DEF Tree
<1>5. ASSUME NEW b \in Blocks PROVE Open(fs, b) <=> Open(new, b) \/ b = t
  BY <1>2 DEF Open
<1>6. ASSUME NEW b \in Blocks PROVE ToCome(p, new, b) <=> ToCome(p, fs, b)
  BY <1>2 DEF ToCome
<1>7. ASSUME NEW b \in Blocks, Open(new, b), Dom(p, t, b) PROVE FALSE
  <2>1. PICK k \in 1 .. n : k < n /\ fs[k].bb = b
    BY <1>2, <1>7 DEF Open
  <2>2. b # t /\ Dom(p, b, t)
    BY <1>2, <2>1 DEF Tree
  <2>. QED BY <1>2, <1>3, <1>7, <2>2, DomOrder
<1>8. ASSUME NEW b \in Blocks, ToCome(p, new, b), Dom(p, t, b) PROVE FALSE
  <2>1. PICK k \in 1 .. n : k < n /\ \E x \in fs[k].kids : Dom(p, x, b)
    BY <1>2, <1>8 DEF ToCome
  <2>2. PICK x \in fs[k].kids : Dom(p, x, b)
    BY <2>1
  <2>3. /\ x \in Blocks /\ t \in Blocks /\ fs[k].bb \in Blocks /\ x \in p.kids[fs[k].bb]
        /\ ~Dom(p, x, t) /\ fs[k].bb # t /\ Dom(p, fs[k].bb, t)
    BY <1>2, <1>3, <2>1, <2>2 DEF Tree
  <2>4. Dom(p, t, x)
    BY <1>8, <2>2, <2>3, DomOrder
  <2>5. t = x \/ Dom(p, t, fs[k].bb)
    BY <2>3, <2>4, KidsOf
  <2>. QED BY <2>3, <2>5, DomOrder
<1>. QED BY <1>2, <1>4, <1>5, <1>6, <1>7, <1>8 DEF new

(***************************************************************************)
(* Kept: what is left of a sequence.                                       *)
(***************************************************************************)
Keep(r, s, K, i) == IF s[i] \in K THEN Append(r, s[i]) ELSE r
Keeping(f, s, K, n) ==
  f = [i \in 0 .. n |-> IF i = 0 THEN <<>> ELSE Keep(f[i - 1], s, K, i)]

\* The prefixes of Kept are a function.
LEMMA KeepingExists ==
  ASSUME NEW s, NEW K, NEW n \in Nat
  PROVE  \E f : Keeping(f, s, K, n)
<1> DEFINE Bad == {m \in Nat : ~ \E f : Keeping(f, s, K, m)}
<1> SUFFICES ASSUME Bad # {} PROVE FALSE
  OBVIOUS
<1>1. PICK m \in Bad : \A l \in Bad : m <= l
  <2>1. Bad \in SUBSET Nat
    OBVIOUS
  <2>. HIDE DEF Bad
  <2>. QED BY <2>1, Least
<1>2. CASE m = 0
  <2>1. Keeping([k \in 0 .. 0 |-> <<>>], s, K, 0)
    BY DEF Keeping
  <2>. QED BY <1>2, <2>1
<1>3. CASE m # 0
  <2>1. m - 1 \in Nat /\ m - 1 \notin Bad
    BY <1>1, <1>3
  <2>2. PICK f : Keeping(f, s, K, m - 1)
    BY <2>1
  <2> DEFINE g == [k \in 0 .. m |-> IF k = m THEN Keep(f[m - 1], s, K, m) ELSE f[k]]
             h == [k \in 0 .. m |-> IF k = 0 THEN <<>> ELSE Keep(g[k - 1], s, K, k)]
  <2>3. ASSUME NEW k \in 0 .. m PROVE g[k] = h[k]
    <3>1. CASE k = 0
      <4>1. f[0] = <<>>
        BY <2>1, <2>2 DEF Keeping
      <4>. QED BY <3>1, <4>1, <1>3
    <3>2. CASE k = m
      <4>1. g[m] = Keep(f[m - 1], s, K, m) /\ h[m] = Keep(g[m - 1], s, K, m) /\ g[m - 1] = f[m - 1]
        BY <2>1, <1>3
      <4>. QED BY <3>2, <4>1
    <3>3. CASE k # 0 /\ k # m
      <4>1. k \in 0 .. m - 1 /\ k - 1 \in 0 .. m - 1
        BY <3>3, <1>1
      <4>2. f[k] = Keep(f[k - 1], s, K, k)
        BY <4>1, <3>3, <2>2 DEF Keeping
      <4>3. g[k] = f[k] /\ g[k - 1] = f[k - 1] /\ h[k] = Keep(g[k - 1], s, K, k)
        BY <4>1, <3>3
      <4>. QED BY <4>2, <4>3
    <3>. QED BY <3>1, <3>2, <3>3
  <2>4. g = h
    <3>1. g = [k \in 0 .. m |-> g[k]] /\ h = [k \in 0 .. m |-> h[k]]
      OBVIOUS
    <3>. HIDE DEF g, h
    <3>. QED BY <2>3, <3>1
  <2>5. Keeping(g, s, K, m)
    <3>. HIDE DEF g
    <3>. QED BY <2>4 DEF Keeping
  <2>. QED BY <2>5
<1>. QED BY <1>2, <1>3

\* r has the elements of the first m of s that are in K, in their order.
Selects(r, s, K, m) ==
  /\ \A i \in 1 .. Len(r) : \E k \in 1 .. m : r[i] = s[k] /\ s[k] \in K
  /\ \A k \in 1 .. m : s[k] \in K => \E i \in 1 .. Len(r) : r[i] = s[k]
  /\ \A i, j \in 1 .. Len(r) : i < j => \E k, l \in 1 .. m : k < l /\ r[i] = s[k] /\ r[j] = s[l]

LEMMA KeepOne ==
  ASSUME NEW S, NEW s \in Seq(S), NEW K, NEW m \in 1 .. Len(s), NEW r \in Seq(S),
         Selects(r, s, K, m - 1)
  PROVE  Keep(r, s, K, m) \in Seq(S) /\ Selects(Keep(r, s, K, m), s, K, m)
<1>1. /\ m - 1 \in Nat /\ m \in Nat /\ s[m] \in S
      /\ \A k \in 1 .. m : k \in 1 .. m - 1 \/ k = m
      /\ \A k \in 1 .. m - 1 : k \in 1 .. m /\ k < m
  OBVIOUS
<1>2. CASE s[m] \notin K
  <2>1. Keep(r, s, K, m) = r
    BY <1>2 DEF Keep
  <2>2. \A i \in 1 .. Len(r) : \E k \in 1 .. m : r[i] = s[k] /\ s[k] \in K
    BY <1>1 DEF Selects
  <2>3. \A k \in 1 .. m : s[k] \in K => \E i \in 1 .. Len(r) : r[i] = s[k]
    BY <1>1, <1>2 DEF Selects
  <2>4. \A i, j \in 1 .. Len(r) : i < j => \E k, l \in 1 .. m : k < l /\ r[i] = s[k] /\ r[j] = s[l]
    BY <1>1 DEF Selects
  <2>. QED BY <2>1, <2>2, <2>3, <2>4 DEF Selects
<1>3. CASE s[m] \in K
  <2> DEFINE t == Append(r, s[m])
  <2>1. Keep(r, s, K, m) = t
    BY <1>3 DEF Keep
  <2>2. /\ t \in Seq(S) /\ Len(t) = Len(r) + 1 /\ Len(r) \in Nat /\ t[Len(r) + 1] = s[m]
        /\ \A i \in 1 .. Len(r) : t[i] = r[i]
    BY <1>1
  <2>. HIDE DEF t
  <2>3. /\ \A i \in 1 .. Len(t) : i \in 1 .. Len(r) \/ i = Len(r) + 1
        /\ \A i \in 1 .. Len(r) : i \in 1 .. Len(t)
        /\ Len(r) + 1 \in 1 .. Len(t)
        /\ \A i, j \in 1 .. Len(t) : i < j => i \in 1 .. Len(r)
    BY <2>2
  <2>4. ASSUME NEW i \in 1 .. Len(t) PROVE \E k \in 1 .. m : t[i] = s[k] /\ s[k] \in K
    <3>1. CASE i \in 1 .. Len(r)
      BY <1>1, <2>2, <3>1, ZenonT(30) DEF Selects
    <3>2. CASE i = Len(r) + 1
      BY <1>1, <1>3, <2>2, <3>2
    <3>. QED BY <2>3, <3>1, <3>2
  <2>5. ASSUME NEW k \in 1 .. m, s[k] \in K PROVE \E i \in 1 .. Len(t) : t[i] = s[k]
    <3>1. CASE k = m
      BY <2>2, <2>3, <3>1
    <3>2. CASE k \in 1 .. m - 1
      <4>1. PICK i \in 1 .. Len(r) : r[i] = s[k]
        BY <2>5, <3>2 DEF Selects
      <4>. QED BY <2>2, <2>3, <4>1
    <3>. QED BY <1>1, <3>1, <3>2
  <2>6. ASSUME NEW i \in 1 .. Len(t), NEW j \in 1 .. Len(t), i < j
        PROVE  \E k, l \in 1 .. m : k < l /\ t[i] = s[k] /\ t[j] = s[l]
    <3>1. i \in 1 .. Len(r)
      BY <2>3, <2>6
    <3>2. CASE j \in 1 .. Len(r)
      <4>1. PICK k \in 1 .. m - 1, l \in 1 .. m - 1 : k < l /\ r[i] = s[k] /\ r[j] = s[l]
        BY <2>6, <3>1, <3>2 DEF Selects
      <4>. QED BY <1>1, <2>2, <3>1, <3>2, <4>1
    <3>3. CASE j = Len(r) + 1
      <4>1. PICK k \in 1 .. m - 1 : r[i] = s[k]
        BY <3>1 DEF Selects
      <4>. QED BY <1>1, <2>2, <3>1, <3>3, <4>1
    <3>. QED BY <2>3, <3>2, <3>3
  <2>. QED BY <2>1, <2>2, <2>4, <2>5, <2>6 DEF Selects
<1>. QED BY <1>2, <1>3

LEMMA KeptSelects ==
  ASSUME NEW S, NEW s \in Seq(S), NEW K
  PROVE  Kept(s, K) \in Seq(S) /\ Selects(Kept(s, K), s, K, Len(s))
<1> DEFINE n == Len(s)
<1>1. n \in Nat
  OBVIOUS
<1>2. PICK f : Keeping(f, s, K, n) /\ Kept(s, K) = f[n]
  <2> DEFINE g == CHOOSE g : Keeping(g, s, K, n)
  <2>1. Keeping(g, s, K, n)
    BY <1>1, KeepingExists
  <2>2. Kept(s, K) = g[n]
    BY DEF Kept, Keeping, Keep
  <2>. QED BY <2>1, <2>2
<1>3. f[0] = <<>> /\ \A k \in 1 .. n : f[k] = Keep(f[k - 1], s, K, k)
  <2>1. 0 \in 0 .. n /\ \A k \in 1 .. n : k \in 0 .. n /\ k # 0
    BY <1>1
  <2>2. \A k \in 0 .. n : f[k] = IF k = 0 THEN <<>> ELSE Keep(f[k - 1], s, K, k)
    BY <1>2 DEF Keeping
  <2>. QED BY <2>1, <2>2
<1> DEFINE Bad == {k \in 0 .. n : ~(f[k] \in Seq(S) /\ Selects(f[k], s, K, k))}
<1>4. CASE Bad = {}
  <2>1. n \in 0 .. n
    BY <1>1
  <2>. QED BY <1>2, <1>4, <2>1
<1>5. ASSUME Bad # {} PROVE FALSE
  <2>1. PICK m \in Bad : \A l \in Bad : m <= l
    <3>1. Bad \in SUBSET Nat
      OBVIOUS
    <3>2. Bad # {}
      BY <1>5
    <3>. HIDE DEF Bad
    <3>. QED BY <3>1, <3>2, Least
  <2>2. m # 0
    <3>1. <<>> \in Seq(S) /\ Selects(<<>>, s, K, 0)
      BY DEF Selects
    <3>. QED BY <1>3, <2>1, <3>1
  <2>3. m \in 1 .. n /\ m - 1 \in 0 .. n /\ m - 1 \notin Bad
    BY <1>1, <2>1, <2>2
  <2>4. f[m - 1] \in Seq(S) /\ Selects(f[m - 1], s, K, m - 1)
    BY <2>3
  <2>5. f[m] \in Seq(S) /\ Selects(f[m], s, K, m)
    BY <1>3, <2>3, <2>4, KeepOne
  <2>. QED BY <2>1, <2>5
<1>. QED BY <1>4, <1>5

(***************************************************************************)
(* The code.                                                               *)
(***************************************************************************)
SameAccess(ins, old) == ins.op = old.op /\ ins.def = old.def /\ ins.var = old.var

\* The code of block b is what the builder made, with phis in front.
AsBuilt(p, c, b) ==
  \E n \in Nat :
    /\ Len(c[b]) = n + Len(p.code[b])
    /\ \A i \in 1 .. n : /\ c[b][i].op = "phi" /\ c[b][i].var \in Vars
                         /\ c[b][i].def = <<"phi", b, c[b][i].var>>
    /\ \A i, j \in 1 .. n : c[b][i].var = c[b][j].var => i = j
    /\ \A i \in 1 .. Len(p.code[b]) : SameAccess(c[b][n + i], p.code[b][i])

\* The operand v of instruction i of block b is computed before it.
InScope(p, c, b, i, v) ==
  \E d \in Blocks : \E j \in 1 .. Len(c[d]) :
    /\ c[d][j].def = v /\ c[d][j].op \in {"load", "phi"}
    /\ IF d = b THEN j < i ELSE Dom(p, d, b)
StoresInScope(p, c, b) ==
  \A i \in 1 .. Len(c[b]) :
    c[b][i].op = "store" =>
      c[b][i].val \in Operands /\ (c[b][i].val[1] = "const" \/ InScope(p, c, b, i, c[b][i].val))

\* The call f is done with instruction j of its block.
Ran(f, j) == f.at \in {"succs", "kids"} \/ (f.at = "instrs" /\ j < f.i)

\* The definitions of x that call f has pushed.
Pushes(c, f, x) ==
  {j \in 1 .. Len(c[f.bb]) :
     /\ c[f.bb][j].var = x
     /\ \/ c[f.bb][j].op = "phi" /\ f.at # "phis"
        \/ c[f.bb][j].op = "store" /\ Ran(f, j)}

\* Call f has come by the definition of v.
DefinedBy(c, f, v) ==
  \E j \in 1 .. Len(c[f.bb]) :
    /\ c[f.bb][j].def = v
    /\ \/ c[f.bb][j].op = "phi" /\ f.at # "phis"
       \/ c[f.bb][j].op = "load" /\ Ran(f, j)

LEMMA InstructionFields ==
  ASSUME NEW ins \in Instructions
  PROVE  /\ ins.op \in Ops /\ ins.def \in ValueNames /\ ins.var \in Vars \union {NoVar}
         /\ ins.val \in Operands \union {NoValue} /\ ins.pairs \in Seq(Operands \X Blocks)
BY DEF Instructions

LEMMA CodeFields ==
  ASSUME NEW c \in Codes, NEW b \in Blocks
  PROVE  /\ c[b] \in Seq(Instructions) /\ Len(c[b]) \in Nat /\ DOMAIN c[b] = 1 .. Len(c[b])
         /\ \A i \in 1 .. Len(c[b]) : c[b][i] \in Instructions
<1>1. c[b] \in Seq(Instructions)
  BY DEF Codes
<1>. QED BY <1>1

LEMMA ProgramFields ==
  ASSUME NEW p \in Programs
  PROVE  /\ p.code \in Codes /\ p.succ \in [Blocks -> Seq(Blocks)]
         /\ \A b \in Blocks : IsInjective(p.succ[b])
         /\ \A b \in Blocks : \A i \in 1 .. Len(p.code[b]) :
              LET ins == p.code[b][i]
              IN  /\ ins.op # "phi" /\ ins.def[1] # "phi" /\ ins.val[1] # "phi" /\ ins.pairs = <<>>
                  /\ ins.op = "load" <=> ins.def[1] = "load"
                  /\ ins.op \in {"alloca", "load", "store"} => ins.var \in Vars
                  /\ ins.op \in {"store", "use"} => ins.val # NoValue
                  /\ ins.val[1] = "load" => ComputedBefore(p, ins.val, b, i)
         /\ \A b, d \in Blocks : \A i \in 1 .. Len(p.code[b]), j \in 1 .. Len(p.code[d]) :
              p.code[b][i].def = p.code[d][j].def => b = d /\ i = j
<1>1. ProperCode(p) /\ p.succ \in [Blocks -> Seq(Blocks)] /\ \A b \in Blocks : IsInjective(p.succ[b])
  BY ProgramsAssumption
<1>2. p.code \in Codes
  BY <1>1 DEF ProperCode, Codes
<1>3. \A b \in Blocks : DOMAIN p.code[b] = 1 .. Len(p.code[b])
  BY <1>2, CodeFields
<1>4. ASSUME NEW b \in Blocks, NEW i \in 1 .. Len(p.code[b])
      PROVE  LET ins == p.code[b][i]
             IN  /\ ins.op # "phi" /\ ins.def[1] # "phi" /\ ins.val[1] # "phi" /\ ins.pairs = <<>>
                 /\ ins.op = "load" <=> ins.def[1] = "load"
                 /\ ins.op \in {"alloca", "load", "store"} => ins.var \in Vars
                 /\ ins.op \in {"store", "use"} => ins.val # NoValue
                 /\ ins.val[1] = "load" => ComputedBefore(p, ins.val, b, i)
  <2>1. i \in DOMAIN p.code[b]
    BY <1>3
  <2>. QED BY <1>1, <2>1 DEF ProperCode
<1>5. \A b, d \in Blocks : \A i \in 1 .. Len(p.code[b]), j \in 1 .. Len(p.code[d]) :
        p.code[b][i].def = p.code[d][j].def => b = d /\ i = j
  BY <1>1, <1>3 DEF ProperCode
<1>. QED BY <1>1, <1>2, <1>4, <1>5

(***************************************************************************)
(* Rewriting operands changes no definition.                               *)
(***************************************************************************)
SameShape(c, e) ==
  \A b \in Blocks : /\ Len(e[b]) = Len(c[b])
                    /\ \A i \in 1 .. Len(c[b]) : SameAccess(e[b][i], c[b][i])

LEMMA ShapeKept ==
  ASSUME NEW p \in Programs, NEW c \in Codes, NEW e \in Codes, SameShape(c, e)
  PROVE  /\ \A b \in Blocks : AsBuilt(p, c, b) => AsBuilt(p, e, b)
         /\ \A f \in Frames : \A x : Pushes(e, f, x) = Pushes(c, f, x)
         /\ \A f \in Frames : \A v : DefinedBy(c, f, v) => DefinedBy(e, f, v)
         /\ \A b \in Blocks : \A i, v : InScope(p, c, b, i, v) => InScope(p, e, b, i, v)
<1>1. \A b \in Blocks : Len(c[b]) \in Nat /\ Len(p.code[b]) \in Nat
  BY CodeFields, ProgramFields
<1>2. ASSUME NEW b \in Blocks, AsBuilt(p, c, b) PROVE AsBuilt(p, e, b)
  <2>1. PICK n \in Nat :
          /\ Len(c[b]) = n + Len(p.code[b])
          /\ \A i \in 1 .. n : /\ c[b][i].op = "phi" /\ c[b][i].var \in Vars
                               /\ c[b][i].def = <<"phi", b, c[b][i].var>>
          /\ \A i, j \in 1 .. n : c[b][i].var = c[b][j].var => i = j
          /\ \A i \in 1 .. Len(p.code[b]) : SameAccess(c[b][n + i], p.code[b][i])
    BY <1>2 DEF AsBuilt
  <2>2. Len(e[b]) = Len(c[b]) /\ \A i \in 1 .. Len(c[b]) : SameAccess(e[b][i], c[b][i])
    BY DEF SameShape
  <2>3. \A i \in 1 .. n : i \in 1 .. Len(c[b])
    BY <1>1, <2>1
  <2>4. \A i \in 1 .. Len(p.code[b]) : n + i \in 1 .. Len(c[b])
    BY <1>1, <2>1
  <2>5. \A i \in 1 .. n : e[b][i].op = c[b][i].op /\ e[b][i].def = c[b][i].def /\ e[b][i].var = c[b][i].var
    BY <2>2, <2>3 DEF SameAccess
  <2>6. \A i \in 1 .. Len(p.code[b]) : SameAccess(e[b][n + i], p.code[b][i])
    BY <2>1, <2>2, <2>4 DEF SameAccess
  <2>7. \A i \in 1 .. n : /\ e[b][i].op = "phi" /\ e[b][i].var \in Vars
                          /\ e[b][i].def = <<"phi", b, e[b][i].var>>
    BY <2>1, <2>5
  <2>8. \A i, j \in 1 .. n : e[b][i].var = e[b][j].var => i = j
    BY <2>1, <2>5
  <2>9. Len(e[b]) = n + Len(p.code[b])
    BY <2>1, <2>2
  <2>. QED BY <2>6, <2>7, <2>8, <2>9 DEF AsBuilt
<1>3. \A f \in Frames : f.bb \in Blocks
  BY DEF Frames
<1>4. ASSUME NEW f \in Frames, NEW x PROVE Pushes(e, f, x) = Pushes(c, f, x)
  BY <1>3 DEF Pushes, SameShape, SameAccess
<1>5. ASSUME NEW f \in Frames, NEW v, DefinedBy(c, f, v) PROVE DefinedBy(e, f, v)
  BY <1>3, <1>5 DEF DefinedBy, SameShape, SameAccess
<1>6. ASSUME NEW b \in Blocks, NEW i, NEW v, InScope(p, c, b, i, v) PROVE InScope(p, e, b, i, v)
  BY <1>6 DEF InScope, SameShape, SameAccess
<1>. QED BY <1>2, <1>4, <1>5, <1>6

LEMMA Redirected ==
  ASSUME NEW ins \in Instructions, NEW old, NEW new \in Operands
  PROVE  /\ Redirect(ins, old, new) \in Instructions
         /\ SameAccess(Redirect(ins, old, new), ins)
         /\ Redirect(ins, old, new).val = IF ins.val = old THEN new ELSE ins.val
         /\ Len(Redirect(ins, old, new).pairs) = Len(ins.pairs)
         /\ \A j \in 1 .. Len(ins.pairs) : Redirect(ins, old, new).pairs[j] =
              IF ins.pairs[j][1] = old THEN <<new, ins.pairs[j][2]>> ELSE ins.pairs[j]
<1> DEFINE val == IF ins.val = old THEN new ELSE ins.val
           pairs == [j \in 1 .. Len(ins.pairs) |->
                       IF ins.pairs[j][1] = old THEN <<new, ins.pairs[j][2]>> ELSE ins.pairs[j]]
           r == Redirect(ins, old, new)
<1>1. ins.pairs \in Seq(Operands \X Blocks) /\ DOMAIN ins.pairs = 1 .. Len(ins.pairs) /\ Len(ins.pairs) \in Nat
  BY InstructionFields
<1>2. \A j \in 1 .. Len(ins.pairs) : ins.pairs[j] \in Operands \X Blocks
  BY <1>1
<1>3. pairs \in Seq(Operands \X Blocks) /\ Len(pairs) = Len(ins.pairs)
  BY <1>1, <1>2
<1>4. val \in Operands \union {NoValue}
  BY InstructionFields
<1>5. r = [ins EXCEPT !.val = val, !.pairs = pairs]
  BY <1>1 DEF Redirect
<1>. HIDE DEF val, pairs, r
<1>6. /\ r \in Instructions /\ r.op = ins.op /\ r.def = ins.def /\ r.var = ins.var
      /\ r.val = val /\ r.pairs = pairs
  BY <1>3, <1>4, <1>5 DEF Instructions
<1>. QED BY <1>3, <1>6 DEF SameAccess, val, pairs, r

(***************************************************************************)
(* The stacks: base[k] are their heights when call k began, and each call  *)
(* has pushed the definitions of its block that it has come by.            *)
(***************************************************************************)
FromCalls(c, fs, k, v) == v[1] = "const" \/ \E m \in 1 .. k : DefinedBy(c, fs[m], v)

Heights(c, fs, base) ==
  /\ base \in [1 .. Len(fs) + 1 -> [Vars -> Nat]]
  /\ \A x \in Vars : base[1][x] = 0
  /\ \A k \in 1 .. Len(fs) : \A x \in Vars :
       base[k + 1][x] = base[k][x] + Cardinality(Pushes(c, fs[k], x))
  /\ \A k, m \in 1 .. Len(fs) + 1 : k <= m => \A x \in Vars : base[k][x] <= base[m][x]

Pushed(c, fs, vs, base) ==
  /\ \A x \in Vars : Len(vs[x]) = base[Len(fs) + 1][x]
  /\ \A k \in 1 .. Len(fs) : \A x \in Vars : \A j \in 1 .. base[k + 1][x] :
       FromCalls(c, fs, k, vs[x][j])

Stacks(c, fs, vs) ==
  /\ vs \in [Vars -> Seq(Operands)]
  /\ \E base : Heights(c, fs, base) /\ Pushed(c, fs, vs, base)

LEMMA PushesFinite ==
  ASSUME NEW c \in Codes, NEW f \in Frames, NEW x
  PROVE  /\ IsFiniteSet(Pushes(c, f, x)) /\ Cardinality(Pushes(c, f, x)) \in Nat
         /\ Pushes(c, f, x) # {} => Cardinality(Pushes(c, f, x)) > 0
<1>1. f.bb \in Blocks
  BY DEF Frames
<1>2. Len(c[f.bb]) \in Nat
  BY <1>1, CodeFields
<1>3. IsFiniteSet(1 .. Len(c[f.bb])) /\ Pushes(c, f, x) \in SUBSET (1 .. Len(c[f.bb]))
  BY <1>2, FS_Interval DEF Pushes
<1>4. IsFiniteSet(Pushes(c, f, x))
  BY <1>3, FS_Subset
<1>5. Cardinality(Pushes(c, f, x)) \in Nat /\ (Cardinality(Pushes(c, f, x)) = 0 <=> Pushes(c, f, x) = {})
  BY <1>4, FS_CardinalityType, FS_EmptySet
<1>. QED BY <1>4, <1>5

\* Without calls the stacks are empty.
LEMMA NoCalls ==
  ASSUME NEW c
  PROVE  /\ Stacks(c, <<>>, [x \in Vars |-> <<>>])
         /\ \A vs : Stacks(c, <<>>, vs) => vs = [x \in Vars |-> <<>>]
<1>0. Len(<<>>) = 0 /\ 1 .. 0 + 1 = {1} /\ 1 .. 0 = {}
  OBVIOUS
<1>1. Stacks(c, <<>>, [x \in Vars |-> <<>>])
  <2> DEFINE base == [k \in 1 .. Len(<<>>) + 1 |-> [x \in Vars |-> 0]]
             vs == [x \in Vars |-> <<>>]
  <2>1. base[1] = [x \in Vars |-> 0] /\ base \in [1 .. Len(<<>>) + 1 -> [Vars -> Nat]]
    BY <1>0
  <2>2. \A x \in Vars : base[1][x] = 0
    BY <2>1
  <2>. HIDE DEF base
  <2>3. Heights(c, <<>>, base)
    BY <1>0, <2>1, <2>2 DEF Heights
  <2>4. vs \in [Vars -> Seq(Operands)] /\ \A x \in Vars : vs[x] = <<>> /\ Len(vs[x]) = 0
    OBVIOUS
  <2>. HIDE DEF vs
  <2>5. Pushed(c, <<>>, vs, base)
    BY <1>0, <2>2, <2>4 DEF Pushed
  <2>. QED BY <2>3, <2>4, <2>5 DEF Stacks, vs
<1>2. ASSUME NEW vs, Stacks(c, <<>>, vs) PROVE vs = [x \in Vars |-> <<>>]
  <2>1. PICK base : Heights(c, <<>>, base) /\ Pushed(c, <<>>, vs, base)
    BY <1>2 DEF Stacks
  <2>2. \A x \in Vars : vs[x] \in Seq(Operands) /\ Len(vs[x]) = 0
    BY <1>0, <1>2, <2>1 DEF Stacks, Heights, Pushed
  <2>3. \A x \in Vars : vs[x] = <<>>
    BY <2>2
  <2>4. vs = [x \in Vars |-> vs[x]]
    BY <1>2 DEF Stacks
  <2>. QED BY <2>3, <2>4
<1>. QED BY <1>1, <1>2

\* Nothing is pushed or popped.
MovesOn(c, fs, e, new) ==
  /\ Len(new) = Len(fs)
  /\ \A k \in 1 .. Len(fs) : \A x \in Vars : Pushes(e, new[k], x) = Pushes(c, fs[k], x)
  /\ \A k \in 1 .. Len(fs) : \A v : DefinedBy(c, fs[k], v) => DefinedBy(e, new[k], v)

LEMMA StacksMove ==
  ASSUME NEW c, NEW e, NEW fs \in Seq(Frames), NEW new, NEW vs,
         MovesOn(c, fs, e, new), Stacks(c, fs, vs)
  PROVE  Stacks(e, new, vs)
<1>0. Len(fs) \in Nat
  OBVIOUS
<1>1. PICK base : Heights(c, fs, base) /\ Pushed(c, fs, vs, base)
  BY DEF Stacks
<1>2. Heights(e, new, base)
  BY <1>1 DEF Heights, MovesOn
<1>3. ASSUME NEW k \in 1 .. Len(fs), NEW v, FromCalls(c, fs, k, v) PROVE FromCalls(e, new, k, v)
  <2>1. \A m \in 1 .. k : m \in 1 .. Len(fs)
    BY <1>0
  <2>. QED BY <1>3, <2>1 DEF FromCalls, MovesOn
<1>4. Pushed(e, new, vs, base)
  BY <1>1, <1>3 DEF Pushed, MovesOn
<1>. QED BY <1>2, <1>4 DEF Stacks

\* A call has pushed nothing when it begins.
LEMMA StacksCall ==
  ASSUME NEW c \in Codes, NEW fs \in Seq(Frames), NEW vs, NEW f \in Frames, f.at = "phis",
         Stacks(c, fs, vs)
  PROVE  Stacks(c, Append(fs, f), vs)
<1> DEFINE n == Len(fs)
           new == Append(fs, f)
<1>1. /\ n \in Nat /\ Len(new) = n + 1 /\ new[n + 1] = f /\ \A k \in 1 .. n : new[k] = fs[k]
  OBVIOUS
<1>2. PICK base : Heights(c, fs, base) /\ Pushed(c, fs, vs, base)
  BY DEF Stacks
<1> DEFINE h == [k \in 1 .. n + 2 |-> IF k = n + 2 THEN base[n + 1] ELSE base[k]]
<1>3. base \in [1 .. n + 1 -> [Vars -> Nat]]
  BY <1>2 DEF Heights
<1>4. /\ \A k \in 1 .. n + 1 : h[k] = base[k] /\ k \in 1 .. n + 2
      /\ h[n + 2] = base[n + 1] /\ n + 2 \in 1 .. n + 2 /\ n + 1 \in 1 .. n + 1
      /\ h \in [1 .. n + 2 -> [Vars -> Nat]]
      /\ \A k \in 1 .. n + 2 : k \in 1 .. n + 1 \/ k = n + 2
      /\ \A k \in 1 .. n + 1 : k \in 1 .. n \/ k = n + 1
      /\ \A k \in 1 .. n : k + 1 \in 1 .. n + 1 /\ k \in 1 .. n + 1
  BY <1>1, <1>3
<1>. HIDE DEF new, h
<1>5. \A x : Pushes(c, f, x) = {}
  BY DEF Pushes, Ran
<1>6. Cardinality({}) = 0
  BY FS_EmptySet
<1>7. ASSUME NEW k \in 1 .. n + 1, NEW x \in Vars
      PROVE  h[k + 1][x] = h[k][x] + Cardinality(Pushes(c, new[k], x))
  <2>1. CASE k \in 1 .. n
    BY <1>1, <1>2, <1>4, <2>1 DEF Heights
  <2>2. CASE k = n + 1
    <3>1. h[k + 1] = base[n + 1] /\ h[k] = base[n + 1] /\ base[n + 1][x] \in Nat /\ new[k] = f
      BY <1>1, <1>3, <1>4, <2>2
    <3>2. Cardinality(Pushes(c, new[k], x)) = 0
      BY <1>5, <1>6, <3>1
    <3>. QED BY <3>1, <3>2
  <2>. QED BY <1>4, <2>1, <2>2
<1>8. ASSUME NEW k \in 1 .. n + 2, NEW m \in 1 .. n + 2, k <= m, NEW x \in Vars
      PROVE  h[k][x] <= h[m][x]
  <2>1. \A i, j \in 1 .. n + 1 : i <= j => base[i][x] <= base[j][x]
    BY <1>2 DEF Heights
  <2>2. CASE m \in 1 .. n + 1
    <3>1. k \in 1 .. n + 1
      BY <1>1, <1>8, <2>2
    <3>. QED BY <1>4, <1>8, <2>1, <2>2, <3>1
  <2>3. CASE m = n + 2 /\ k \in 1 .. n + 1
    <3>1. k <= n + 1
      BY <1>1, <2>3
    <3>. QED BY <1>4, <2>1, <2>3, <3>1
  <2>4. CASE m = n + 2 /\ k = n + 2
    <3>1. h[k][x] \in Nat
      BY <1>4
    <3>. QED BY <2>4, <3>1
  <2>. QED BY <1>4, <2>2, <2>3, <2>4
<1>9. \A x \in Vars : h[1][x] = 0
  BY <1>1, <1>2, <1>4 DEF Heights
<1>10. Heights(c, new, h)
  <2>1. Len(new) + 1 = n + 2
    BY <1>1
  <2>. QED BY <1>1, <1>4, <1>7, <1>8, <1>9, <2>1 DEF Heights
<1>11. ASSUME NEW k \in 1 .. n, NEW v, FromCalls(c, fs, k, v) PROVE FromCalls(c, new, k, v)
  <2>1. \A m \in 1 .. k : m \in 1 .. n
    BY <1>1
  <2>. QED BY <1>1, <1>11, <2>1 DEF FromCalls
<1>12. ASSUME NEW v, FromCalls(c, new, n, v) PROVE FromCalls(c, new, n + 1, v)
  BY <1>1, <1>12 DEF FromCalls
<1>13. ASSUME NEW k \in 1 .. n + 1, NEW x \in Vars, NEW j \in 1 .. h[k + 1][x]
       PROVE  FromCalls(c, new, k, vs[x][j])
  <2>1. CASE k \in 1 .. n
    <3>1. j \in 1 .. base[k + 1][x]
      BY <1>4, <2>1
    <3>. QED BY <1>2, <1>11, <2>1, <3>1 DEF Pushed
  <2>2. CASE k = n + 1 /\ n # 0
    <3>1. n \in 1 .. n /\ j \in 1 .. base[n + 1][x]
      BY <1>1, <1>4, <2>2
    <3>2. FromCalls(c, fs, n, vs[x][j])
      BY <1>2, <3>1 DEF Pushed
    <3>. QED BY <1>11, <1>12, <2>2, <3>1, <3>2
  <2>3. CASE k = n + 1 /\ n = 0
    <3>1. h[k + 1][x] = 0
      BY <1>2, <1>4, <2>3 DEF Heights
    <3>. QED BY <3>1
  <2>. QED BY <1>4, <2>1, <2>2, <2>3
<1>14. \A x \in Vars : Len(vs[x]) = h[n + 2][x]
  BY <1>2, <1>4 DEF Pushed
<1>15. Pushed(c, new, vs, h)
  <2>1. Len(new) + 1 = n + 2
    BY <1>1
  <2>. QED BY <1>1, <1>13, <1>14, <2>1 DEF Pushed
<1>. QED BY <1>10, <1>15 DEF Stacks, new

\* The innermost call moves on and pushes more.
LEMMA StacksPush ==
  ASSUME NEW c \in Codes, NEW fs \in Seq(Frames), fs # <<>>, NEW vs, Stacks(c, fs, vs),
         NEW f \in Frames, NEW more \in [Vars -> Seq(Operands)],
         \A x \in Vars : Cardinality(Pushes(c, f, x)) = Cardinality(Pushes(c, Last(fs), x)) + Len(more[x]),
         \A v : DefinedBy(c, Last(fs), v) => DefinedBy(c, f, v),
         \A x \in Vars : \A j \in 1 .. Len(more[x]) :
           FromCalls(c, Append(Front(fs), f), Len(fs), more[x][j])
  PROVE  Stacks(c, Append(Front(fs), f), [x \in Vars |-> vs[x] \o more[x]])
<1> DEFINE n == Len(fs)
           new == Append(Front(fs), f)
           ws == [x \in Vars |-> vs[x] \o more[x]]
<1>1. /\ Len(new) = n /\ n \in Nat \ {0} /\ new[n] = f /\ Last(fs) = fs[n] /\ fs[n] \in Frames
      /\ \A k \in 1 .. n : k # n => new[k] = fs[k]
  BY SetLast, DropLast
<1>2. PICK base : Heights(c, fs, base) /\ Pushed(c, fs, vs, base)
  BY DEF Stacks
<1> DEFINE h == [k \in 1 .. n + 1 |-> IF k = n + 1 THEN [x \in Vars |-> base[n + 1][x] + Len(more[x])] ELSE base[k]]
<1>3. base \in [1 .. n + 1 -> [Vars -> Nat]]
  BY <1>2 DEF Heights
<1>4. \A x \in Vars : /\ vs[x] \in Seq(Operands) /\ more[x] \in Seq(Operands)
                      /\ Len(vs[x]) \in Nat /\ Len(more[x]) \in Nat /\ Len(vs[x]) = base[n + 1][x]
  BY <1>2 DEF Stacks, Pushed
<1>5. /\ n + 1 \in 1 .. n + 1 /\ n \in 1 .. n /\ 1 \in 1 .. n
      /\ \A k \in 1 .. n + 1 : k \in 1 .. n \/ k = n + 1
      /\ \A k \in 1 .. n : k \in 1 .. n + 1 /\ k + 1 \in 1 .. n + 1 /\ k # n + 1
      /\ \A k \in 1 .. n : k # n => k + 1 \in 1 .. n
  BY <1>1
<1>6. h[n + 1] \in [Vars -> Nat] /\ \A x \in Vars : h[n + 1][x] = base[n + 1][x] + Len(more[x])
  BY <1>3, <1>4, <1>5
<1>7. \A k \in 1 .. n : h[k] = base[k]
  BY <1>5
<1>8. h \in [1 .. n + 1 -> [Vars -> Nat]]
  BY <1>3, <1>5, <1>6, <1>7
<1>9. \A x \in Vars : /\ ws[x] \in Seq(Operands) /\ Len(ws[x]) = Len(vs[x]) + Len(more[x])
                      /\ \A j \in 1 .. Len(vs[x]) : ws[x][j] = vs[x][j]
                      /\ \A j \in 1 .. Len(more[x]) : ws[x][Len(vs[x]) + j] = more[x][j]
  BY <1>4
<1>10. ws \in [Vars -> Seq(Operands)]
  BY <1>9
<1>. HIDE DEF new, ws, h
<1>11. ASSUME NEW k \in 1 .. n, NEW x \in Vars
       PROVE  h[k + 1][x] = h[k][x] + Cardinality(Pushes(c, new[k], x))
  <2>1. base[k + 1][x] = base[k][x] + Cardinality(Pushes(c, fs[k], x))
    BY <1>2 DEF Heights
  <2>2. CASE k # n
    BY <1>1, <1>5, <1>7, <2>1, <2>2
  <2>3. CASE k = n
    <3>1. h[k + 1][x] = base[n + 1][x] + Len(more[x]) /\ h[k] = base[n]
      BY <1>5, <1>6, <1>7, <2>3
    <3>2. Cardinality(Pushes(c, new[k], x)) = Cardinality(Pushes(c, fs[n], x)) + Len(more[x])
      BY <1>1, <2>3
    <3>3. base[n][x] \in Nat /\ Cardinality(Pushes(c, fs[n], x)) \in Nat
      BY <1>1, <1>3, <1>5, PushesFinite
    <3>. QED BY <1>4, <2>1, <2>3, <3>1, <3>2, <3>3
  <2>. QED BY <2>2, <2>3
<1>12. ASSUME NEW k \in 1 .. n + 1, NEW m \in 1 .. n + 1, k <= m, NEW x \in Vars
       PROVE  h[k][x] <= h[m][x]
  <2>1. base[k][x] <= base[m][x] /\ base[k][x] \in Nat /\ base[m][x] \in Nat
    BY <1>2, <1>3, <1>12 DEF Heights
  <2>2. CASE m # n + 1
    <3>1. k \in 1 .. n /\ m \in 1 .. n
      BY <1>1, <1>5, <1>12, <2>2
    <3>. QED BY <1>7, <2>1, <3>1
  <2>3. CASE m = n + 1 /\ k # n + 1
    BY <1>4, <1>5, <1>6, <1>7, <2>1, <2>3
  <2>4. CASE m = n + 1 /\ k = n + 1
    BY <1>4, <1>6, <2>1, <2>4
  <2>. QED BY <2>2, <2>3, <2>4
<1>13. \A x \in Vars : h[1][x] = 0
  BY <1>2, <1>5, <1>7 DEF Heights
<1>14. Heights(c, new, h)
  BY <1>1, <1>8, <1>11, <1>12, <1>13 DEF Heights
<1>15. ASSUME NEW k \in 1 .. n, NEW v, FromCalls(c, fs, k, v) PROVE FromCalls(c, new, k, v)
  <2>1. \A m \in 1 .. k : m \in 1 .. n /\ (m = n \/ new[m] = fs[m])
    BY <1>1
  <2>2. \A m \in 1 .. k : DefinedBy(c, fs[m], v) => DefinedBy(c, new[m], v)
    BY <1>1, <2>1
  <2>. QED BY <1>15, <2>2 DEF FromCalls
<1>16. ASSUME NEW k \in 1 .. n, NEW x \in Vars, NEW j \in 1 .. h[k + 1][x]
       PROVE  FromCalls(c, new, k, ws[x][j])
  <2>1. base[k + 1][x] <= base[n + 1][x] /\ base[k + 1][x] \in Nat
    <3>1. k + 1 \in 1 .. n + 1 /\ n + 1 \in 1 .. n + 1 /\ k + 1 <= n + 1
      BY <1>1
    <3>2. base[k + 1][x] \in Nat
      BY <1>3, <3>1
    <3>. QED BY <1>2, <3>1, <3>2 DEF Heights
  <2>2. CASE j \in 1 .. base[k + 1][x]
    <3>1. j \in 1 .. Len(vs[x])
      BY <1>4, <2>1, <2>2
    <3>2. FromCalls(c, fs, k, vs[x][j])
      BY <1>2, <2>2 DEF Pushed
    <3>. QED BY <1>9, <1>15, <3>1, <3>2
  <2>3. CASE j \notin 1 .. base[k + 1][x]
    <3>1. k = n
      BY <1>5, <1>7, <2>3
    <3>2. j \in Nat /\ j > Len(vs[x]) /\ j <= Len(vs[x]) + Len(more[x])
      BY <1>4, <1>5, <1>6, <2>3, <3>1
    <3>3. j - Len(vs[x]) \in 1 .. Len(more[x]) /\ Len(vs[x]) + (j - Len(vs[x])) = j
      BY <1>4, <3>2
    <3>4. ws[x][j] = more[x][j - Len(vs[x])]
      BY <1>9, <3>3
    <3>. QED BY <3>1, <3>3, <3>4 DEF new
  <2>. QED BY <2>2, <2>3
<1>17. ASSUME NEW x \in Vars PROVE Len(ws[x]) = h[n + 1][x]
  <2>1. Len(ws[x]) = Len(vs[x]) + Len(more[x]) /\ Len(vs[x]) = base[n + 1][x]
    BY <1>4, <1>9
  <2>2. h[n + 1][x] = base[n + 1][x] + Len(more[x])
    BY <1>6
  <2>. QED BY <2>1, <2>2
<1>18. Pushed(c, new, ws, h)
  BY <1>1, <1>16, <1>17 DEF Pushed
<1>19. Stacks(c, new, ws)
  BY <1>10, <1>14, <1>18 DEF Stacks
<1>. QED BY <1>19 DEF new, ws

\* The innermost call returns, and what it pushed is popped.
LEMMA StacksPop ==
  ASSUME NEW c \in Codes, NEW fs \in Seq(Frames), fs # <<>>, NEW vs, Stacks(c, fs, vs)
  PROVE  Stacks(c, Front(fs), [x \in Vars |->
           SubSeq(vs[x], 1, Len(vs[x]) - Cardinality(Pushes(c, Last(fs), x)))])
<1> DEFINE n == Len(fs)
           new == Front(fs)
           ws == [x \in Vars |-> SubSeq(vs[x], 1, Len(vs[x]) - Cardinality(Pushes(c, Last(fs), x)))]
<1>1. /\ Len(new) = n - 1 /\ n \in Nat \ {0} /\ Last(fs) = fs[n] /\ fs[n] \in Frames
      /\ \A k \in 1 .. n - 1 : new[k] = fs[k]
  BY DropLast
<1>2. PICK base : Heights(c, fs, base) /\ Pushed(c, fs, vs, base)
  BY DEF Stacks
<1> DEFINE h == [k \in 1 .. n |-> base[k]]
<1>3. base \in [1 .. n + 1 -> [Vars -> Nat]]
  BY <1>2 DEF Heights
<1>4. /\ n \in 1 .. n /\ n \in 1 .. n + 1 /\ 1 \in 1 .. n /\ (n - 1) + 1 = n
      /\ \A k \in 1 .. n : k \in 1 .. n + 1
      /\ \A k \in 1 .. n - 1 : k \in 1 .. n /\ k + 1 \in 1 .. n
  BY <1>1
<1>5. h \in [1 .. n -> [Vars -> Nat]] /\ \A k \in 1 .. n : h[k] = base[k]
  BY <1>3, <1>4
<1>6. ASSUME NEW x \in Vars
      PROVE  /\ vs[x] \in Seq(Operands) /\ base[n][x] \in Nat /\ base[n][x] <= Len(vs[x])
             /\ ws[x] = SubSeq(vs[x], 1, base[n][x])
  <2>1. vs[x] \in Seq(Operands) /\ Len(vs[x]) = base[n + 1][x]
    BY <1>2 DEF Stacks, Pushed
  <2>2. base[n + 1][x] = base[n][x] + Cardinality(Pushes(c, fs[n], x))
    BY <1>2, <1>4 DEF Heights
  <2>3. Cardinality(Pushes(c, fs[n], x)) \in Nat
    BY <1>1, PushesFinite
  <2>4. base[n][x] \in Nat
    BY <1>3, <1>4
  <2>5. Len(vs[x]) - Cardinality(Pushes(c, fs[n], x)) = base[n][x]
    BY <2>1, <2>2, <2>3, <2>4
  <2>. QED BY <1>1, <2>1, <2>2, <2>3, <2>4, <2>5
<1>7. ws = [x \in Vars |-> ws[x]]
  OBVIOUS
<1>. HIDE DEF new, ws, h
<1>8. ASSUME NEW x \in Vars
      PROVE  ws[x] \in Seq(Operands) /\ Len(ws[x]) = h[n][x] /\ \A j \in 1 .. h[n][x] : ws[x][j] = vs[x][j]
  <2> DEFINE s == vs[x]
             l == base[n][x]
  <2>1. s \in Seq(Operands) /\ l \in 0 .. Len(s) /\ ws[x] = SubSeq(s, 1, l) /\ Len(s) \in Nat
    BY <1>6
  <2>. HIDE DEF s, l
  <2>2. \A j \in 1 .. l : s[j] \in Operands
    BY <2>1
  <2>3. SubSeq(s, 1, l) = [j \in 1 .. l |-> s[j]]
    BY <2>1
  <2>4. ws[x] \in Seq(Operands) /\ Len(ws[x]) = l /\ \A j \in 1 .. l : ws[x][j] = s[j]
    BY <2>1, <2>2, <2>3
  <2>. QED BY <1>4, <1>5, <2>4 DEF s, l
<1>9. ws \in [Vars -> Seq(Operands)]
  BY <1>7, <1>8
<1>10. \A k, m \in 1 .. n : k <= m => \A x \in Vars : h[k][x] <= h[m][x]
  BY <1>2, <1>4, <1>5 DEF Heights
<1>11. \A k \in 1 .. n - 1 : \A x \in Vars : h[k + 1][x] = h[k][x] + Cardinality(Pushes(c, new[k], x))
  BY <1>1, <1>2, <1>4, <1>5 DEF Heights
<1>12. \A x \in Vars : h[1][x] = 0
  BY <1>2, <1>4, <1>5 DEF Heights
<1>13. Heights(c, new, h)
  BY <1>1, <1>4, <1>5, <1>10, <1>11, <1>12 DEF Heights
<1>14. ASSUME NEW k \in 1 .. n - 1, NEW x \in Vars, NEW j \in 1 .. h[k + 1][x]
       PROVE  FromCalls(c, new, k, ws[x][j])
  <2>1. j \in 1 .. base[k + 1][x] /\ k \in 1 .. n
    BY <1>4, <1>5
  <2>2. FromCalls(c, fs, k, vs[x][j])
    BY <1>2, <2>1 DEF Pushed
  <2>3. \A m \in 1 .. k : new[m] = fs[m]
    BY <1>1
  <2>4. FromCalls(c, new, k, vs[x][j])
    BY <2>2, <2>3 DEF FromCalls
  <2>5. h[k + 1][x] <= h[n][x] /\ h[k + 1][x] \in Nat /\ h[n][x] \in Nat
    BY <1>1, <1>4, <1>5, <1>10
  <2>6. j \in 1 .. h[n][x]
    BY <2>5
  <2>. QED BY <1>8, <2>4, <2>6
<1>15. Pushed(c, new, ws, h)
  BY <1>1, <1>4, <1>8, <1>14 DEF Pushed
<1>16. Stacks(c, new, ws)
  BY <1>9, <1>13, <1>15 DEF Stacks
<1>. QED BY <1>16 DEF new, ws

\* What is on top of a stack was pushed by an open call.
LEMMA StackTop ==
  ASSUME NEW c \in Codes, NEW fs \in Seq(Frames), fs # <<>>, NEW vs, Stacks(c, fs, vs), NEW x \in Vars
  PROVE  /\ vs[x] \in Seq(Operands)
         /\ vs[x] # <<>> => Last(vs[x]) \in Operands /\ FromCalls(c, fs, Len(fs), Last(vs[x]))
         /\ \A k \in 1 .. Len(fs) : Pushes(c, fs[k], x) # {} => vs[x] # <<>>
<1> DEFINE n == Len(fs)
<1>1. n \in Nat \ {0} /\ n \in 1 .. n /\ n + 1 \in 1 .. n + 1
  OBVIOUS
<1>2. PICK base : Heights(c, fs, base) /\ Pushed(c, fs, vs, base)
  BY DEF Stacks
<1>3. vs[x] \in Seq(Operands) /\ Len(vs[x]) = base[n + 1][x] /\ Len(vs[x]) \in Nat
  BY <1>2 DEF Stacks, Pushed
<1>4. ASSUME vs[x] # <<>>
      PROVE  Last(vs[x]) \in Operands /\ FromCalls(c, fs, n, Last(vs[x]))
  <2>1. Len(vs[x]) \in 1 .. base[n + 1][x] /\ Last(vs[x]) = vs[x][Len(vs[x])] /\ Last(vs[x]) \in Operands
    BY <1>3, <1>4 DEF Last
  <2>. QED BY <1>1, <1>2, <2>1 DEF Pushed
<1>5. ASSUME NEW k \in 1 .. n, Pushes(c, fs[k], x) # {} PROVE vs[x] # <<>>
  <2>1. k \in 1 .. n + 1 /\ k + 1 \in 1 .. n + 1 /\ k + 1 <= n + 1
    BY <1>1
  <2>2. base[k][x] \in Nat /\ base[k + 1][x] = base[k][x] + Cardinality(Pushes(c, fs[k], x))
    BY <1>2, <2>1 DEF Heights
  <2>3. Cardinality(Pushes(c, fs[k], x)) \in Nat /\ Cardinality(Pushes(c, fs[k], x)) > 0
    BY <1>5, PushesFinite
  <2>4. base[k + 1][x] <= base[n + 1][x] /\ base[n + 1][x] \in Nat
    BY <1>1, <1>2, <2>1 DEF Heights
  <2>5. Len(vs[x]) > 0
    BY <1>3, <2>2, <2>3, <2>4
  <2>. QED BY <2>5
<1>. QED BY <1>3, <1>4, <1>5

(***************************************************************************)
(* Code as the builder made it, with phis in front.                        *)
(***************************************************************************)
LEMMA BuiltFields ==
  ASSUME NEW p \in Programs, NEW c \in Codes, NEW b \in Blocks, AsBuilt(p, c, b)
  PROVE  /\ \A i \in 1 .. Len(c[b]) :
              /\ c[b][i].op = "phi" => c[b][i].var \in Vars /\ c[b][i].def = <<"phi", b, c[b][i].var>>
              /\ c[b][i].op = "load" <=> c[b][i].def[1] = "load"
              /\ c[b][i].op = "phi" <=> c[b][i].def[1] = "phi"
              /\ c[b][i].op \in {"alloca", "load", "store"} => c[b][i].var \in Vars
         /\ \A i, j \in 1 .. Len(c[b]) : c[b][i].op = "phi" /\ c[b][j].op # "phi" => i < j
         /\ \A i, j \in 1 .. Len(c[b]) :
              c[b][i].op = "phi" /\ c[b][j].op = "phi" /\ c[b][i].var = c[b][j].var => i = j
         /\ \A k \in 1 .. Len(p.code[b]) : \E i \in 1 .. Len(c[b]) : SameAccess(c[b][i], p.code[b][k])
<1>1. PICK n \in Nat :
        /\ Len(c[b]) = n + Len(p.code[b])
        /\ \A i \in 1 .. n : /\ c[b][i].op = "phi" /\ c[b][i].var \in Vars
                             /\ c[b][i].def = <<"phi", b, c[b][i].var>>
        /\ \A i, j \in 1 .. n : c[b][i].var = c[b][j].var => i = j
        /\ \A i \in 1 .. Len(p.code[b]) : SameAccess(c[b][n + i], p.code[b][i])
  BY DEF AsBuilt
<1> DEFINE m == Len(p.code[b])
<1>2. m \in Nat /\ Len(c[b]) \in Nat
  BY CodeFields, ProgramFields
<1>3. \A i \in 1 .. Len(c[b]) : i \in 1 .. n \/ \E k \in 1 .. m : i = n + k
  <2>. SUFFICES ASSUME NEW i \in 1 .. Len(c[b]), i \notin 1 .. n PROVE i - n \in 1 .. m /\ i = n + (i - n)
    OBVIOUS
  <2>. QED BY <1>1, <1>2
<1>4. \A k \in 1 .. m : n + k \in 1 .. Len(c[b]) /\ n + k \notin 1 .. n
  BY <1>1, <1>2
<1>5. \A k \in 1 .. m : /\ c[b][n + k].op = p.code[b][k].op /\ c[b][n + k].def = p.code[b][k].def
                        /\ c[b][n + k].var = p.code[b][k].var
  BY <1>1 DEF SameAccess
<1>6. \A k \in 1 .. m : /\ p.code[b][k].op # "phi" /\ p.code[b][k].def[1] # "phi"
                        /\ p.code[b][k].op = "load" <=> p.code[b][k].def[1] = "load"
                        /\ p.code[b][k].op \in {"alloca", "load", "store"} => p.code[b][k].var \in Vars
  BY ProgramFields
<1>7. \A k \in 1 .. m : /\ c[b][n + k].op # "phi" /\ c[b][n + k].def[1] # "phi"
                        /\ c[b][n + k].op = "load" <=> c[b][n + k].def[1] = "load"
                        /\ c[b][n + k].op \in {"alloca", "load", "store"} => c[b][n + k].var \in Vars
  BY <1>5, <1>6
<1>8. \A i \in 1 .. n : c[b][i].op = "phi" /\ c[b][i].def[1] = "phi"
  BY <1>1
<1>. HIDE DEF m
<1>9. \A i \in 1 .. Len(c[b]) : c[b][i].op = "phi" <=> i \in 1 .. n
  BY <1>3, <1>4, <1>7, <1>8
<1>10. ASSUME NEW i \in 1 .. Len(c[b])
       PROVE  /\ c[b][i].op = "phi" => c[b][i].var \in Vars /\ c[b][i].def = <<"phi", b, c[b][i].var>>
              /\ c[b][i].op = "load" <=> c[b][i].def[1] = "load"
              /\ c[b][i].op = "phi" <=> c[b][i].def[1] = "phi"
              /\ c[b][i].op \in {"alloca", "load", "store"} => c[b][i].var \in Vars
  <2>1. CASE i \in 1 .. n
    BY <1>1, <1>8, <2>1
  <2>2. CASE \E k \in 1 .. m : i = n + k
    BY <1>7, <2>2
  <2>. QED BY <1>3, <2>1, <2>2
<1>11. \A i, j \in 1 .. Len(c[b]) : c[b][i].op = "phi" /\ c[b][j].op # "phi" => i < j
  BY <1>2, <1>9
<1>12. \A i, j \in 1 .. Len(c[b]) :
         c[b][i].op = "phi" /\ c[b][j].op = "phi" /\ c[b][i].var = c[b][j].var => i = j
  BY <1>1, <1>9
<1>13. \A k \in 1 .. m : \E i \in 1 .. Len(c[b]) : SameAccess(c[b][i], p.code[b][k])
  BY <1>1, <1>4 DEF m
<1>. QED BY <1>10, <1>11, <1>12, <1>13 DEF m

LEMMA PhiName ==
  ASSUME NEW v, NEW b, NEW x, v = <<"phi", b, x>>
  PROVE  v[2] = b /\ v[3] = x
OBVIOUS

\* No value is defined twice.
LEMMA BuiltUnique ==
  ASSUME NEW p \in Programs, NEW c \in Codes, NEW b \in Blocks, NEW d \in Blocks,
         AsBuilt(p, c, b), AsBuilt(p, c, d),
         NEW i \in 1 .. Len(c[b]), NEW j \in 1 .. Len(c[d]), c[b][i].def = c[d][j].def
  PROVE  b = d /\ i = j
<1>1. CASE c[b][i].op = "phi"
  <2>1. c[d][j].op = "phi"
    BY <1>1, BuiltFields
  <2>2. c[b][i].def = <<"phi", b, c[b][i].var>> /\ c[d][j].def = <<"phi", d, c[d][j].var>>
    BY <1>1, <2>1, BuiltFields
  <2>3. b = d /\ c[b][i].var = c[d][j].var
    <3>1. c[b][i].def[2] = b /\ c[b][i].def[3] = c[b][i].var
      BY <2>2, PhiName
    <3>2. c[d][j].def[2] = d /\ c[d][j].def[3] = c[d][j].var
      BY <2>2, PhiName, ZenonT(30)
    <3>. QED BY <3>1, <3>2
  <2>. QED BY <1>1, <2>1, <2>3, BuiltFields
<1>2. CASE c[b][i].op # "phi"
  <2>1. c[d][j].op # "phi"
    BY <1>2, BuiltFields
  <2>2. ASSUME NEW e \in Blocks, AsBuilt(p, c, e)
        PROVE  \E n \in Nat : \A k \in 1 .. Len(c[e]) : c[e][k].op # "phi" =>
                 k - n \in 1 .. Len(p.code[e]) /\ c[e][k].def = p.code[e][k - n].def
    <3>1. PICK n \in Nat :
            /\ Len(c[e]) = n + Len(p.code[e])
            /\ \A k \in 1 .. n : c[e][k].op = "phi"
            /\ \A k \in 1 .. Len(p.code[e]) : SameAccess(c[e][n + k], p.code[e][k])
      BY <2>2 DEF AsBuilt
    <3>2. Len(c[e]) \in Nat /\ Len(p.code[e]) \in Nat
      BY CodeFields, ProgramFields
    <3>3. ASSUME NEW k \in 1 .. Len(c[e]), c[e][k].op # "phi"
          PROVE  k - n \in 1 .. Len(p.code[e]) /\ c[e][k].def = p.code[e][k - n].def
      <4>1. k \notin 1 .. n
        BY <3>1, <3>3
      <4>2. k - n \in 1 .. Len(p.code[e]) /\ n + (k - n) = k
        BY <3>1, <3>2, <4>1
      <4>. QED BY <3>1, <4>2 DEF SameAccess
    <3>. QED BY <3>3
  <2>3. PICK n \in Nat : i - n \in 1 .. Len(p.code[b]) /\ c[b][i].def = p.code[b][i - n].def /\
          \A k \in 1 .. Len(c[b]) : c[b][k].op # "phi" =>
             k - n \in 1 .. Len(p.code[b]) /\ c[b][k].def = p.code[b][k - n].def
    BY <1>2, <2>2
  <2>4. CASE b = d
    <3>1. j - n \in 1 .. Len(p.code[b]) /\ p.code[b][i - n].def = p.code[b][j - n].def
      BY <2>1, <2>3, <2>4
    <3>2. i - n = j - n
      <4>1. \A k, l \in 1 .. Len(p.code[b]) : p.code[b][k].def = p.code[b][l].def => k = l
        BY ProgramFields
      <4>. QED BY <2>3, <3>1, <4>1
    <3>3. i \in Nat /\ j \in Nat
      BY CodeFields
    <3>. QED BY <2>3, <2>4, <3>2, <3>3
  <2>5. CASE b # d
    <3>1. PICK l \in Nat : j - l \in 1 .. Len(p.code[d]) /\ c[d][j].def = p.code[d][j - l].def
      BY <2>1, <2>2
    <3>2. \A k \in 1 .. Len(p.code[b]) : \A m \in 1 .. Len(p.code[d]) :
            p.code[b][k].def # p.code[d][m].def
      BY <2>5, ProgramFields
    <3>. QED BY <2>3, <3>1, <3>2
  <2>. QED BY <2>4, <2>5
<1>. QED BY <1>1, <1>2

(***************************************************************************)
(* Steps of a call within its block.                                       *)
(***************************************************************************)
\* The next instruction: a store is pushed.
LEMMA PushesNext ==
  ASSUME NEW c, NEW f \in Frames, NEW g \in Frames, g.bb = f.bb,
         f.at = "instrs", g.at = "instrs", g.i = f.i + 1, f.i \in 1 .. Len(c[f.bb])
  PROVE  /\ \A x : /\ f.i \notin Pushes(c, f, x) \/ c[f.bb][f.i].op = "phi"
                   /\ Pushes(c, g, x) = IF c[f.bb][f.i].op = "store" /\ c[f.bb][f.i].var = x
                                        THEN Pushes(c, f, x) \union {f.i} ELSE Pushes(c, f, x)
         /\ c[f.bb][f.i].op # "store" => \A x : Pushes(c, g, x) = Pushes(c, f, x)
         /\ \A v : DefinedBy(c, f, v) => DefinedBy(c, g, v)
<1>1. f.i \in Nat /\ g.i \in Nat
  BY DEF Frames
<1>2. \A j \in 1 .. Len(c[f.bb]) : Ran(g, j) <=> Ran(f, j) \/ j = f.i
  BY <1>1 DEF Ran
<1>3. ~Ran(f, f.i)
  BY <1>1 DEF Ran
<1>4. ASSUME NEW x PROVE f.i \notin Pushes(c, f, x) \/ c[f.bb][f.i].op = "phi"
  BY <1>3 DEF Pushes
<1>5. ASSUME NEW x
      PROVE  Pushes(c, g, x) = IF c[f.bb][f.i].op = "store" /\ c[f.bb][f.i].var = x
                               THEN Pushes(c, f, x) \union {f.i} ELSE Pushes(c, f, x)
  <2>1. CASE c[f.bb][f.i].op = "store" /\ c[f.bb][f.i].var = x
    BY <1>2, <2>1 DEF Pushes
  <2>2. CASE ~(c[f.bb][f.i].op = "store" /\ c[f.bb][f.i].var = x)
    BY <1>2, <2>2 DEF Pushes
  <2>. QED BY <2>1, <2>2
<1>6. \A v : DefinedBy(c, f, v) => DefinedBy(c, g, v)
  BY <1>2 DEF DefinedBy
<1>7. ASSUME c[f.bb][f.i].op # "store", NEW x PROVE Pushes(c, g, x) = Pushes(c, f, x)
  BY <1>5, <1>7
<1>. QED BY <1>4, <1>5, <1>6, <1>7

\* A call that is done with its instructions has pushed all it will.
LEMMA PushesAll ==
  ASSUME NEW c, NEW f \in Frames, NEW g \in Frames, g.bb = f.bb, Len(c[f.bb]) \in Nat,
         f.at \in {"succs", "kids"} \/ (f.at = "instrs" /\ f.i > Len(c[f.bb])),
         g.at \in {"succs", "kids"}
  PROVE  /\ \A x : Pushes(c, g, x) = Pushes(c, f, x)
         /\ \A v : DefinedBy(c, f, v) => DefinedBy(c, g, v)
<1>1. f.i \in Nat
  BY DEF Frames
<1>2. \A j \in 1 .. Len(c[f.bb]) : Ran(f, j) /\ Ran(g, j)
  BY <1>1 DEF Ran
<1>3. f.at # "phis" /\ g.at # "phis"
  OBVIOUS
<1>. QED BY <1>2, <1>3 DEF Pushes, DefinedBy

\* The phis of the block.
PhisOf(c, b, x) == {j \in 1 .. Len(c[b]) : c[b][j].op = "phi" /\ c[b][j].var = x}

LEMMA PushesPhis ==
  ASSUME NEW p \in Programs, NEW c \in Codes, NEW f \in Frames, NEW g \in Frames, g.bb = f.bb,
         NEW x, f.at = "phis", g.at = "instrs", g.i = 1, AsBuilt(p, c, f.bb)
  PROVE  /\ Pushes(c, f, x) = {}
         /\ Pushes(c, g, x) = PhisOf(c, f.bb, x)
         /\ Cardinality(Pushes(c, f, x)) = 0
         /\ PhisOf(c, f.bb, x) # {} => Cardinality(Pushes(c, g, x)) = 1 /\ DefinedBy(c, g, <<"phi", f.bb, x>>)
         /\ PhisOf(c, f.bb, x) = {} => Cardinality(Pushes(c, g, x)) = 0
         /\ \A v : ~DefinedBy(c, f, v)
<1>1. f.bb \in Blocks
  BY DEF Frames
<1>2. Pushes(c, f, x) = {} /\ \A v : ~DefinedBy(c, f, v)
  BY DEF Pushes, DefinedBy, Ran
<1>3. \A j \in 1 .. Len(c[f.bb]) : ~Ran(g, j)
  <2>1. Len(c[f.bb]) \in Nat
    BY <1>1, CodeFields
  <2>. QED BY <2>1 DEF Ran
<1>4. Pushes(c, g, x) = PhisOf(c, f.bb, x)
  BY <1>3 DEF Pushes, PhisOf
<1>5. ASSUME NEW j \in PhisOf(c, f.bb, x)
      PROVE  Cardinality(Pushes(c, g, x)) = 1 /\ DefinedBy(c, g, <<"phi", f.bb, x>>)
  <2>1. j \in 1 .. Len(c[f.bb]) /\ c[f.bb][j].op = "phi" /\ c[f.bb][j].var = x
    BY DEF PhisOf
  <2>2. Pushes(c, g, x) = {j}
    BY <1>1, <1>4, <2>1, BuiltFields DEF PhisOf
  <2>3. c[f.bb][j].def = <<"phi", f.bb, x>>
    BY <1>1, <2>1, BuiltFields
  <2>. QED BY <2>1, <2>2, <2>3, FS_Singleton DEF DefinedBy
<1>. QED BY <1>2, <1>4, <1>5, FS_EmptySet

(***************************************************************************)
(* The invariant.  Once a block is left nothing looks at its code again,   *)
(* which is why it may be cut short.                                       *)
(***************************************************************************)
Built(p, c, ph, fs) ==
  \A b \in Blocks : ph = "place" \/ Open(fs, b) \/ ToCome(p, fs, b) =>
    AsBuilt(p, c, b) /\ StoresInScope(p, c, b)

SetsAll(p) == \A x \in Vars : \E ins \in Range(p.code[Entry]) : ins.op = "store" /\ ins.var = x

\* The outermost call, which is the entry's, keeps what is known on the stacks.
KnownAreSet(c, fs, kn) == fs # <<>> => \A x \in kn : Pushes(c, fs[1], x) # {}

RenameInv ==
  /\ prog \in Programs /\ code \in Codes
  /\ phase \in {"place", "rename", "done", "assert", "fault"}
  /\ todo \subseteq [var : Vars, bb : Blocks]
  /\ known \subseteq Vars
  /\ phase \in {"place", "done"} => frames = <<>>
  /\ Tree(prog, frames)
  /\ Built(prog, code, phase, frames)
  /\ Stacks(code, frames, var_val_stack)
  /\ phase = "place" => known = {}
  /\ SetsAll(prog) => KnownAreSet(code, frames, known) /\ phase \notin {"assert", "fault"}

LEMMA TopFields ==
  ASSUME RenameInv, frames # <<>>
  PROVE  /\ frames \in Seq(Frames) /\ Len(frames) \in Nat \ {0} /\ Len(frames) \in 1 .. Len(frames)
         /\ Top = frames[Len(frames)] /\ Top \in Frames /\ Top.bb \in Blocks
         /\ Top.i \in Nat \ {0} /\ Top.wait \in SUBSET ValueNames /\ Top.kids \in SUBSET Blocks
         /\ Open(frames, Top.bb) /\ AsBuilt(prog, code, Top.bb) /\ StoresInScope(prog, code, Top.bb)
         /\ code[Top.bb] \in Seq(Instructions) /\ Len(code[Top.bb]) \in Nat
         /\ DOMAIN code[Top.bb] = 1 .. Len(code[Top.bb])
<1>1. frames \in Seq(Frames)
  BY DEF RenameInv, Tree
<1>2. /\ Len(frames) \in Nat \ {0} /\ Len(frames) \in 1 .. Len(frames)
      /\ Top = frames[Len(frames)] /\ Top \in Frames
  BY <1>1, DropLast DEF Top
<1>3. /\ Top.bb \in Blocks /\ Top.i \in Nat \ {0} /\ Top.wait \in SUBSET ValueNames
      /\ Top.kids \in SUBSET Blocks
  BY <1>1, <1>2, FrameFields
<1>4. Open(frames, Top.bb)
  BY <1>2 DEF Open
<1>5. AsBuilt(prog, code, Top.bb) /\ StoresInScope(prog, code, Top.bb)
  BY <1>3, <1>4 DEF RenameInv, Built
<1>6. /\ code[Top.bb] \in Seq(Instructions) /\ Len(code[Top.bb]) \in Nat
      /\ DOMAIN code[Top.bb] = 1 .. Len(code[Top.bb])
  BY <1>3, CodeFields DEF RenameInv
<1>. QED BY <1>1, <1>2, <1>3, <1>4, <1>5, <1>6

\* The entry has pushed every variable once its instructions are done.
LEMMA EntryPushes ==
  ASSUME NEW p \in Programs, NEW c \in Codes, SetsAll(p), AsBuilt(p, c, Entry),
         NEW f \in Frames, f.bb = Entry, f.at = "kids", NEW x \in Vars
  PROVE  Pushes(c, f, x) # {}
<1>1. p.code[Entry] \in Seq(Instructions) /\ DOMAIN p.code[Entry] = 1 .. Len(p.code[Entry])
  BY BlocksAssumption, ProgramFields, CodeFields
<1>2. PICK k \in 1 .. Len(p.code[Entry]) : p.code[Entry][k].op = "store" /\ p.code[Entry][k].var = x
  BY <1>1 DEF SetsAll, Range
<1>3. PICK i \in 1 .. Len(c[Entry]) : SameAccess(c[Entry][i], p.code[Entry][k])
  BY BlocksAssumption, BuiltFields
<1>4. c[Entry][i].op = "store" /\ c[Entry][i].var = x
  BY <1>2, <1>3 DEF SameAccess
<1>. QED BY <1>3, <1>4 DEF Pushes, Ran

\* A step of the innermost call that keeps the shape of the code.
LEMMA InnerStep ==
  ASSUME RenameInv, phase = "rename", frames # <<>>, UNCHANGED <<prog, todo>>,
         code' \in Codes, SameShape(code, code'),
         NEW f \in Frames, frames' = Append(Front(frames), f),
         f.bb = Top.bb, f.kids \subseteq Top.kids,
         \A b \in Blocks : Open(frames, b) \/ ToCome(prog, frames, b) => StoresInScope(prog, code', b),
         Stacks(code', frames', var_val_stack'),
         known' \subseteq Vars, phase' \in {"rename", "assert", "fault"},
         SetsAll(prog) => phase' = "rename",
         SetsAll(prog) /\ Len(frames) = 1 => \A x \in known' : Pushes(code', f, x) # {}
  PROVE  RenameInv'
<1> DEFINE new == Append(Front(frames), f)
<1>1. prog \in Programs /\ code \in Codes /\ Tree(prog, frames) /\ Built(prog, code, phase, frames)
  BY DEF RenameInv
<1>2. /\ Tree(prog, new)
      /\ \A b \in Blocks : /\ Open(new, b) <=> Open(frames, b)
                           /\ ToCome(prog, new, b) => ToCome(prog, frames, b)
  BY <1>1, TopMoves DEF Top
<1>3. Built(prog, code', phase', new)
  <2>. SUFFICES ASSUME NEW b \in Blocks, Open(frames, b) \/ ToCome(prog, frames, b)
                PROVE  AsBuilt(prog, code', b) /\ StoresInScope(prog, code', b)
    BY <1>2 DEF Built
  <2>1. AsBuilt(prog, code, b)
    BY <1>1 DEF Built
  <2>2. AsBuilt(prog, code', b)
    BY <1>1, <2>1, ShapeKept
  <2>. QED BY <2>2
<1>4. /\ new \in Seq(Frames) /\ Len(new) = Len(frames) /\ new[Len(frames)] = f /\ new # <<>>
      /\ Len(frames) \in Nat \ {0}
  BY <1>1, TopFields, SetLast
<1>5. ASSUME SetsAll(prog), NEW x \in known' PROVE Pushes(code', new[1], x) # {}
  <2>1. CASE Len(frames) = 1
    BY <1>4, <1>5, <2>1
  <2>2. CASE Len(frames) # 1
    <3>1. 1 \in 1 .. Len(new) /\ Len(new) \in 1 .. Len(new) /\ 1 < Len(new)
      BY <1>4, <2>2
    <3>2. new[1].at = "kids" /\ new[1].bb = Entry /\ new[1] \in Frames
      BY <1>2, <1>4, <3>1 DEF Tree
    <3>3. Open(new, Entry)
      BY <3>1, <3>2 DEF Open
    <3>4. AsBuilt(prog, code', Entry)
      BY <1>3, <3>3, BlocksAssumption DEF Built
    <3>. QED BY <1>1, <1>5, <3>2, <3>4, EntryPushes
  <2>. QED BY <2>1, <2>2
<1>6. frames' = new
  OBVIOUS
<1>. HIDE DEF new
<1>7. todo' \subseteq [var : Vars, bb : Blocks] /\ prog' \in Programs
  BY DEF RenameInv
<1>. QED BY <1>2, <1>3, <1>5, <1>6, <1>7 DEF RenameInv, KnownAreSet

\* The same when the code stays as it is, and no stack moves.
LEMMA QuietStep ==
  ASSUME RenameInv, phase = "rename", frames # <<>>,
         UNCHANGED <<prog, code, phase, todo, var_val_stack, known>>,
         NEW f \in Frames, frames' = Append(Front(frames), f),
         f.bb = Top.bb, f.kids \subseteq Top.kids,
         \A x : Pushes(code, f, x) = Pushes(code, Top, x),
         \A v : DefinedBy(code, Top, v) => DefinedBy(code, f, v)
  PROVE  RenameInv'
<1> DEFINE new == Append(Front(frames), f)
<1>1. /\ prog \in Programs /\ code \in Codes /\ frames \in Seq(Frames) /\ Top = frames[Len(frames)]
      /\ Len(frames) \in Nat \ {0}
  BY TopFields DEF RenameInv
<1>2. /\ new \in Seq(Frames) /\ Len(new) = Len(frames) /\ new[Len(frames)] = f
      /\ \A k \in 1 .. Len(frames) : k # Len(frames) => new[k] = frames[k]
  BY <1>1, SetLast
<1>. HIDE DEF new
<1>3. MovesOn(code, frames, code, new)
  <2>1. ASSUME NEW k \in 1 .. Len(frames)
        PROVE  /\ \A x \in Vars : Pushes(code, new[k], x) = Pushes(code, frames[k], x)
               /\ \A v : DefinedBy(code, frames[k], v) => DefinedBy(code, new[k], v)
    <3>1. CASE k = Len(frames)
      BY <1>1, <1>2, <3>1
    <3>2. CASE k # Len(frames)
      BY <1>2, <3>2
    <3>. QED BY <3>1, <3>2
  <2>. QED BY <1>2, <2>1 DEF MovesOn
<1>4. Stacks(code, new, var_val_stack)
  BY <1>1, <1>3, StacksMove DEF RenameInv
<1>5. SameShape(code, code)
  BY DEF SameShape, SameAccess
<1>6. ASSUME SetsAll(prog), Len(frames) = 1, NEW x \in known PROVE Pushes(code, f, x) # {}
  <2>1. Pushes(code, Top, x) # {}
    BY <1>1, <1>6 DEF RenameInv, KnownAreSet
  <2>. QED BY <2>1
<1>7. /\ \A b \in Blocks : Open(frames, b) \/ ToCome(prog, frames, b) => StoresInScope(prog, code, b)
      /\ SetsAll(prog) => phase' = "rename"
      /\ known \subseteq Vars
  BY DEF RenameInv, Built
<1>. QED BY <1>1, <1>4, <1>5, <1>6, <1>7, InnerStep DEF new

(***************************************************************************)
(* The actions.                                                            *)
(***************************************************************************)
\* Frames rewritten.
LEMMA FrameAt ==
  ASSUME NEW f \in Frames, NEW loop \in {"instrs", "succs", "kids"}
  PROVE  LET g == [f EXCEPT !.at = loop]
         IN  g \in Frames /\ g.bb = f.bb /\ g.kids = f.kids /\ g.at = loop /\ g.i = f.i /\ g.wait = f.wait
BY DEF Frames

LEMMA FrameNext ==
  ASSUME NEW f \in Frames, f.at # "phis"
  PROVE  LET g == [f EXCEPT !.i = @ + 1]
         IN  /\ g \in Frames /\ g.bb = f.bb /\ g.kids = f.kids /\ g.at = f.at /\ g.i = f.i + 1
             /\ g.wait = f.wait
BY DEF Frames

LEMMA FrameSuccs ==
  ASSUME NEW f \in Frames
  PROVE  LET g == [f EXCEPT !.at = "succs", !.i = 1]
         IN  /\ g \in Frames /\ g.bb = f.bb /\ g.kids = f.kids /\ g.at = "succs" /\ g.i = 1
             /\ g.wait = f.wait
<1> DEFINE g == [f EXCEPT !.at = "succs", !.i = 1]
           l == 1
           w == f.wait
<1>1. /\ f \in [bb : Blocks, at : {"phis", "instrs", "succs", "kids"}, i : Nat \ {0},
               kids : SUBSET Blocks, wait : SUBSET ValueNames]
  BY DEF Frames
<1>2. l \in Nat \ {0} /\ w \in SUBSET ValueNames
  BY <1>1
<1>3. g = [f EXCEPT !.at = "succs", !.i = l]
  OBVIOUS
<1>. HIDE DEF g, l, w
<1>4. /\ g \in [bb : Blocks, at : {"phis", "instrs", "succs", "kids"}, i : Nat \ {0},
               kids : SUBSET Blocks, wait : SUBSET ValueNames]
      /\ g.bb = f.bb /\ g.kids = f.kids /\ g.at = "succs" /\ g.i = l /\ g.wait = f.wait
  BY <1>1, <1>2, <1>3
<1>5. g \in Frames
  BY <1>4 DEF Frames
<1>. QED BY <1>4, <1>5 DEF g, l

LEMMA FrameWait ==
  ASSUME NEW f \in Frames, f.at # "phis", NEW more \in SUBSET ValueNames
  PROVE  LET g == [f EXCEPT !.i = @ + 1, !.wait = @ \union more]
         IN  /\ g \in Frames /\ g.bb = f.bb /\ g.kids = f.kids /\ g.at = f.at /\ g.i = f.i + 1
             /\ g.wait = f.wait \union more
<1> DEFINE g == [f EXCEPT !.i = @ + 1, !.wait = @ \union more]
           l == f.i + 1
           w == f.wait \union more
<1>1. /\ f \in [bb : Blocks, at : {"phis", "instrs", "succs", "kids"}, i : Nat \ {0},
               kids : SUBSET Blocks, wait : SUBSET ValueNames]
  BY DEF Frames
<1>2. l \in Nat \ {0} /\ w \in SUBSET ValueNames
  BY <1>1
<1>3. g = [f EXCEPT !.i = l, !.wait = w]
  OBVIOUS
<1>. HIDE DEF g, l, w
<1>4. /\ g \in [bb : Blocks, at : {"phis", "instrs", "succs", "kids"}, i : Nat \ {0},
               kids : SUBSET Blocks, wait : SUBSET ValueNames]
      /\ g.bb = f.bb /\ g.kids = f.kids /\ g.at = f.at /\ g.i = l /\ g.wait = w
  BY <1>1, <1>2, <1>3
<1>5. g \in Frames
  BY <1>4 DEF Frames
<1>. QED BY <1>4, <1>5 DEF g, l, w

LEMMA FrameKids ==
  ASSUME NEW f \in Frames, NEW c
  PROVE  LET g == [f EXCEPT !.kids = @ \ {c}]
         IN  g \in Frames /\ g.bb = f.bb /\ g.kids = f.kids \ {c} /\ g.at = f.at /\ g.i = f.i /\ g.wait = f.wait
BY DEF Frames

LEMMA One ==
  ASSUME NEW S, NEW e \in S
  PROVE  <<e>> \in Seq(S) /\ Len(<<e>>) = 1 /\ \A j \in 1 .. Len(<<e>>) : <<e>>[j] = e
OBVIOUS

LEMMA NextInstrFrame ==
  ASSUME RenameInv, Renaming("instrs"), Top.i <= Len(code[Top.bb]), NEW waiting \in BOOLEAN,
         NextInstr(waiting)
  PROVE  \E f \in Frames :
           /\ frames' = Append(Front(frames), f)
           /\ f.bb = Top.bb /\ f.kids = Top.kids /\ f.at = "instrs" /\ f.i = Top.i + 1
           /\ f.wait = Top.wait \union (IF waiting THEN {Instr.def} ELSE {})
           /\ Top.i \in 1 .. Len(code[Top.bb]) /\ Instr \in Instructions
<1> DEFINE f == [Top EXCEPT !.i = @ + 1, !.wait = @ \union (IF waiting THEN {Instr.def} ELSE {})]
<1>1. frames # <<>> /\ Top.at = "instrs"
  BY DEF Renaming
<1>2. Top \in Frames /\ Top.i \in Nat \ {0} /\ Len(code[Top.bb]) \in Nat /\ code[Top.bb] \in Seq(Instructions)
  BY <1>1, TopFields
<1>3. Top.i \in 1 .. Len(code[Top.bb])
  BY <1>2
<1>4. Instr \in Instructions
  BY <1>2, <1>3 DEF Instr
<1>5. Instr.def \in ValueNames
  BY <1>4, InstructionFields
<1>6. /\ f \in Frames /\ f.bb = Top.bb /\ f.kids = Top.kids /\ f.at = "instrs" /\ f.i = Top.i + 1
      /\ f.wait = Top.wait \union (IF waiting THEN {Instr.def} ELSE {})
  <2> DEFINE more == IF waiting THEN {Instr.def} ELSE {}
             g == [Top EXCEPT !.i = @ + 1, !.wait = @ \union more]
  <2>1. more \in SUBSET ValueNames
    BY <1>5
  <2>. HIDE DEF more
  <2>2. /\ g \in Frames /\ g.bb = Top.bb /\ g.kids = Top.kids /\ g.at = "instrs" /\ g.i = Top.i + 1
        /\ g.wait = Top.wait \union more
    BY <1>1, <1>2, <2>1, FrameWait
  <2>3. f = g
    BY DEF more
  <2>. QED BY <2>2, <2>3 DEF more
<1>7. frames' = Append(Front(frames), f)
  BY DEF NextInstr, SetTop
<1>. QED BY <1>3, <1>4, <1>6, <1>7

LEMMA QuietInstr ==
  ASSUME RenameInv, AtInstr({"load", "alloca", "use", "phi"}), NextInstr(FALSE),
         UNCHANGED <<prog, code, phase, todo, var_val_stack, known>>
  PROVE  RenameInv'
<1>1. /\ Renaming("instrs") /\ Top.i <= Len(code[Top.bb])
      /\ phase = "rename" /\ frames # <<>> /\ Top.at = "instrs"
      /\ Instr.op # "store"
  BY DEF AtInstr, Renaming
<1>2. PICK f \in Frames :
        /\ frames' = Append(Front(frames), f)
        /\ f.bb = Top.bb /\ f.kids = Top.kids /\ f.at = "instrs" /\ f.i = Top.i + 1
        /\ Top.i \in 1 .. Len(code[Top.bb])
  BY <1>1, NextInstrFrame
<1>3. Top \in Frames
  BY <1>1, TopFields
<1>4. /\ \A x : Pushes(code, f, x) = Pushes(code, Top, x)
      /\ \A v : DefinedBy(code, Top, v) => DefinedBy(code, f, v)
  <2>1. code[Top.bb][Top.i].op # "store"
    BY <1>1 DEF Instr
  <2>. QED BY <1>1, <1>2, <1>3, <2>1, PushesNext
<1>. QED BY <1>1, <1>2, <1>4, QuietStep

LEMMA KeepLoadInv ==
  ASSUME RenameInv, KeepLoad PROVE RenameInv'
<1>1. AtInstr({"load", "alloca", "use", "phi"}) /\ NextInstr(FALSE)
  BY DEF KeepLoad, AtInstr
<1>. QED BY <1>1, QuietInstr DEF KeepLoad

LEMMA SkipInstrInv ==
  ASSUME RenameInv, SkipInstr PROVE RenameInv'
<1>1. AtInstr({"load", "alloca", "use", "phi"}) /\ NextInstr(FALSE)
  BY DEF SkipInstr, AtInstr
<1>. QED BY <1>1, QuietInstr DEF SkipInstr

\* The call is done with its instructions.
LEMMA QuietDone ==
  ASSUME RenameInv, phase = "rename", frames # <<>>,
         UNCHANGED <<prog, code, phase, todo, var_val_stack, known>>,
         Top.at = "succs" \/ (Top.at = "instrs" /\ Top.i > Len(code[Top.bb])),
         NEW f \in Frames, frames' = Append(Front(frames), f),
         f.bb = Top.bb, f.kids \subseteq Top.kids, f.at \in {"succs", "kids"}
  PROVE  RenameInv'
<1>1. Top \in Frames /\ Len(code[Top.bb]) \in Nat
  BY TopFields
<1>2. /\ \A x : Pushes(code, f, x) = Pushes(code, Top, x)
      /\ \A v : DefinedBy(code, Top, v) => DefinedBy(code, f, v)
  BY <1>1, PushesAll
<1>. QED BY <1>2, QuietStep

LEMMA InstrsDoneInv ==
  ASSUME RenameInv, InstrsDone PROVE RenameInv'
<1> DEFINE f == [Top EXCEPT !.at = "succs", !.i = 1]
<1>1. phase = "rename" /\ frames # <<>> /\ Top.at = "instrs" /\ Top.i > Len(code[Top.bb])
  BY DEF InstrsDone, Renaming
<1>2. Top \in Frames
  BY <1>1, TopFields
<1>3. f \in Frames /\ f.bb = Top.bb /\ f.kids = Top.kids /\ f.at = "succs"
  BY <1>2, FrameSuccs
<1>4. frames' = Append(Front(frames), f) /\ UNCHANGED <<prog, code, phase, todo, var_val_stack, known>>
  BY DEF InstrsDone, SetTop
<1>. HIDE DEF f
<1>. QED BY <1>1, <1>3, <1>4, QuietDone

LEMMA SuccsDoneInv ==
  ASSUME RenameInv, SuccsDone PROVE RenameInv'
<1> DEFINE f == [Top EXCEPT !.at = "kids"]
<1>1. phase = "rename" /\ frames # <<>> /\ Top.at = "succs"
  BY DEF SuccsDone, Renaming
<1>2. Top \in Frames
  BY <1>1, TopFields
<1>3. f \in Frames /\ f.bb = Top.bb /\ f.kids = Top.kids /\ f.at = "kids"
  BY <1>2, FrameAt
<1>4. frames' = Append(Front(frames), f) /\ UNCHANGED <<prog, code, phase, todo, var_val_stack, known>>
  BY DEF SuccsDone, SetTop
<1>. HIDE DEF f
<1>. QED BY <1>1, <1>3, <1>4, QuietDone

LEMMA PushPhisInv ==
  ASSUME RenameInv, PushPhis PROVE RenameInv'
<1> DEFINE f == [Top EXCEPT !.at = "instrs"]
           n == Len(frames)
           t == Top.bb
           new == Append(Front(frames), f)
           more == [x \in Vars |-> IF HasPhi(t, x) THEN <<Phi(t, x).def>> ELSE <<>>]
<1>1. phase = "rename" /\ frames # <<>> /\ Top.at = "phis"
  BY DEF PushPhis, Renaming
<1>2. /\ Top \in Frames /\ t \in Blocks /\ AsBuilt(prog, code, t) /\ frames \in Seq(Frames)
      /\ Top = Last(frames) /\ Top = frames[n] /\ n \in Nat \ {0}
      /\ code[t] \in Seq(Instructions) /\ DOMAIN code[t] = 1 .. Len(code[t])
  BY <1>1, TopFields DEF Top
<1>3. prog \in Programs /\ code \in Codes
  BY DEF RenameInv
<1>4. Top.i = 1
  BY <1>1, <1>2 DEF Frames
<1>5. f \in Frames /\ f.bb = t /\ f.kids = Top.kids /\ f.at = "instrs" /\ f.i = 1
  BY <1>2, <1>4 DEF Frames
<1>6. frames' = new /\ UNCHANGED <<prog, code, phase, todo>>
  BY DEF PushPhis, SetTop
<1>7. ASSUME NEW x
      PROVE  HasPhi(t, x) <=> PhisOf(code, t, x) # {}
  BY <1>2 DEF HasPhi, Phis, Instrs, Range, PhisOf
<1>8. \A x \in Vars : Phi(t, x).def = <<"phi", t, x>> /\ <<"phi", t, x>> \in Operands
  BY <1>2 DEF Phi, Operands
<1>9. more \in [Vars -> Seq(Operands)]
  <2>1. \A x \in Vars : more[x] \in Seq(Operands)
    <3>1. ASSUME NEW x \in Vars PROVE <<Phi(t, x).def>> \in Seq(Operands)
      <4>1. Phi(t, x).def \in Operands
        BY <1>8
      <4>. QED BY <4>1, One
    <3>. QED BY <3>1
  <2>2. more = [x \in Vars |-> more[x]]
    OBVIOUS
  <2>. HIDE DEF more
  <2>. QED BY <2>1, <2>2
<1>10. ASSUME NEW x \in Vars
       PROVE  /\ HasPhi(t, x) => more[x] = <<<<"phi", t, x>>>>
              /\ ~HasPhi(t, x) => more[x] = <<>>
  BY <1>8
<1>11. /\ n \in 1 .. n /\ new[n] = f /\ Len(new) = n
  BY <1>2, <1>5, SetLast
<1>. HIDE DEF f, new, more
<1>24. ASSUME NEW x
       PROVE  /\ Pushes(code, f, x) = PhisOf(code, t, x)
              /\ Pushes(code, Top, x) = {} /\ Cardinality(Pushes(code, Top, x)) = 0
              /\ HasPhi(t, x) => Cardinality(Pushes(code, f, x)) = 1 /\ DefinedBy(code, f, <<"phi", t, x>>)
              /\ ~HasPhi(t, x) => Cardinality(Pushes(code, f, x)) = 0
  <2>1. /\ prog \in Programs /\ code \in Codes /\ Top \in Frames /\ f \in Frames /\ f.bb = Top.bb
        /\ Top.at = "phis" /\ f.at = "instrs" /\ f.i = 1 /\ AsBuilt(prog, code, Top.bb)
    BY <1>1, <1>2, <1>3, <1>5
  <2>2. /\ Pushes(code, f, x) = PhisOf(code, t, x)
        /\ Pushes(code, Top, x) = {} /\ Cardinality(Pushes(code, Top, x)) = 0
        /\ PhisOf(code, t, x) # {} => Cardinality(Pushes(code, f, x)) = 1 /\ DefinedBy(code, f, <<"phi", t, x>>)
        /\ PhisOf(code, t, x) = {} => Cardinality(Pushes(code, f, x)) = 0
    BY <2>1, PushesPhis
  <2>. QED BY <1>7, <2>2
<1>12. ASSUME NEW x \in Vars
       PROVE  Cardinality(Pushes(code, f, x)) = Cardinality(Pushes(code, Top, x)) + Len(more[x])
  <2>1. CASE HasPhi(t, x)
    <3>1. Cardinality(Pushes(code, f, x)) = 1 /\ Cardinality(Pushes(code, Top, x)) = 0
      BY <1>24, <2>1
    <3>2. Len(more[x]) = 1
      BY <1>8, <1>10, <2>1, One
    <3>. QED BY <3>1, <3>2
  <2>2. CASE ~HasPhi(t, x)
    <3>1. Cardinality(Pushes(code, f, x)) = 0 /\ Cardinality(Pushes(code, Top, x)) = 0
      BY <1>24, <2>2
    <3>2. Len(more[x]) = 0
      BY <1>10, <2>2
    <3>. QED BY <3>1, <3>2
  <2>. QED BY <2>1, <2>2
<1>13. \A v : ~DefinedBy(code, Top, v)
  BY <1>1, <1>2 DEF DefinedBy, Ran
<1>14. ASSUME NEW x \in Vars, NEW j \in 1 .. Len(more[x]) PROVE FromCalls(code, new, n, more[x][j])
  <2>1. HasPhi(t, x)
    BY <1>10
  <2>2. more[x] = <<<<"phi", t, x>>>>
    BY <1>10, <2>1
  <2>3. DefinedBy(code, f, <<"phi", t, x>>)
    BY <1>24, <2>1
  <2>4. more[x][j] = <<"phi", t, x>>
    BY <2>2
  <2>. QED BY <1>11, <2>3, <2>4 DEF FromCalls
<1>15. var_val_stack' = [x \in Vars |-> var_val_stack[x] \o more[x]]
  BY DEF PushPhis, more
<1>16. Stacks(code, new, var_val_stack')
  <2>1. Stacks(code, frames, var_val_stack)
    BY DEF RenameInv
  <2>. QED BY <1>1, <1>2, <1>3, <1>5, <1>9, <1>12, <1>13, <1>14, <1>15, <2>1, StacksPush, ZenonT(30) DEF new
<1>17. known' = known \union {ins.var : ins \in Phis(t)}
  BY DEF PushPhis
<1>18. \A ins \in Phis(t) : \E j \in 1 .. Len(code[t]) : ins = code[t][j] /\ ins.op = "phi"
  BY <1>2 DEF Phis, Instrs, Range
<1>19. \A ins \in Phis(t) : ins.var \in Vars /\ HasPhi(t, ins.var)
  <2>1. \A j \in 1 .. Len(code[t]) : code[t][j].op = "phi" => code[t][j].var \in Vars
    BY <1>2, <1>3, BuiltFields
  <2>. QED BY <1>18, <2>1 DEF HasPhi
<1>20. known' \subseteq Vars
  BY <1>17, <1>19 DEF RenameInv
<1>21. ASSUME SetsAll(prog), n = 1, NEW x \in known' PROVE Pushes(code, f, x) # {}
  <2>1. CASE x \in known
    <3>1. Pushes(code, Top, x) # {}
      BY <1>1, <1>2, <1>21, <2>1 DEF RenameInv, KnownAreSet
    <3>. QED BY <1>24, <3>1
  <2>2. CASE x \notin known
    <3>1. HasPhi(t, x)
      BY <1>17, <1>19, <1>21, <2>2
    <3>2. Pushes(code, f, x) = PhisOf(code, t, x)
      BY <1>24
    <3>. QED BY <1>7, <3>1, <3>2
  <2>. QED BY <2>1, <2>2
<1>22. SameShape(code, code)
  BY DEF SameShape, SameAccess
<1>23. \A b \in Blocks : Open(frames, b) \/ ToCome(prog, frames, b) => StoresInScope(prog, code, b)
  BY DEF RenameInv, Built
<1>. QED BY <1>1, <1>3, <1>5, <1>6, <1>16, <1>20, <1>21, <1>22, <1>23, InnerStep DEF new

\* A value that a block may use was defined by a block that dominates it, and
\* such a block has not been left while this one is open or to come.
LEMMA DominatorsBuilt ==
  ASSUME NEW p \in Programs, NEW c, NEW ph, NEW fs, Tree(p, fs), Built(p, c, ph, fs),
         NEW b \in Blocks, Open(fs, b) \/ ToCome(p, fs, b), NEW d \in Blocks, Dom(p, d, b)
  PROVE  (Open(fs, d) \/ ToCome(p, fs, d)) /\ AsBuilt(p, c, d)
<1>1. fs \in Seq(Frames)
  BY DEF Tree
<1>2. CASE Open(fs, b)
  <2>1. PICK k \in 1 .. Len(fs) : fs[k].bb = b
    BY <1>2 DEF Open
  <2>2. PICK m \in 1 .. k : fs[m].bb = d
    BY <2>1 DEF Tree
  <2>3. m \in 1 .. Len(fs)
    BY <1>1
  <2>. QED BY <2>2, <2>3 DEF Open, Built
<1>3. CASE ToCome(p, fs, b)
  <2>1. PICK k \in 1 .. Len(fs) : \E x \in fs[k].kids : Dom(p, x, b)
    BY <1>3 DEF ToCome
  <2>2. PICK x \in fs[k].kids : Dom(p, x, b)
    BY <2>1
  <2>3. fs[k].bb \in Blocks /\ x \in Blocks /\ x \in p.kids[fs[k].bb]
    BY <1>1, FrameFields DEF Tree
  <2>4. CASE Dom(p, x, d)
    BY <2>4 DEF ToCome, Built
  <2>5. CASE ~Dom(p, x, d)
    <3>1. Dom(p, d, x)
      BY <2>2, <2>3, <2>5, DomOrder
    <3>2. Dom(p, d, fs[k].bb)
      BY <2>3, <2>5, <3>1, DomOrder, KidsOf
    <3>3. PICK m \in 1 .. k : fs[m].bb = d
      BY <3>2 DEF Tree
    <3>4. m \in 1 .. Len(fs)
      BY <1>1
    <3>. QED BY <3>3, <3>4 DEF Open, Built
  <2>. QED BY <2>4, <2>5
<1>. QED BY <1>2, <1>3

\* What an open call has come by is in scope from there on.
LEMMA CallsInScope ==
  ASSUME RenameInv, frames # <<>>, Top.at = "instrs", Top.i \in 1 .. Len(code[Top.bb]),
         NEW v, v[1] # "const", FromCalls(code, frames, Len(frames), v)
  PROVE  /\ \A j \in Top.i .. Len(code[Top.bb]) :
              code[Top.bb][j].op # "phi" => InScope(prog, code, Top.bb, j, v)
         /\ \A b \in Blocks : Dom(prog, Top.bb, b) /\ b # Top.bb =>
              \A j : InScope(prog, code, b, j, v)
         /\ ~(code[Top.bb][Top.i].op = "load" /\ code[Top.bb][Top.i].def = v)
<1> DEFINE n == Len(frames)
           t == Top.bb
<1>1. /\ frames \in Seq(Frames) /\ n \in Nat \ {0} /\ n \in 1 .. n /\ Top = frames[n]
      /\ t \in Blocks /\ AsBuilt(prog, code, t) /\ Top.i \in Nat \ {0} /\ Len(code[t]) \in Nat
      /\ Open(frames, t)
  BY TopFields
<1>2. prog \in Programs /\ code \in Codes /\ Tree(prog, frames) /\ Built(prog, code, phase, frames)
  BY DEF RenameInv
<1>3. PICK m \in 1 .. n : DefinedBy(code, frames[m], v)
  BY DEF FromCalls
<1> DEFINE d == frames[m].bb
<1>4. d \in Blocks /\ AsBuilt(prog, code, d) /\ Open(frames, d)
  <2>1. d \in Blocks
    BY <1>1, FrameFields
  <2>2. Open(frames, d)
    BY DEF Open
  <2>. QED BY <1>2, <2>1, <2>2 DEF Built
<1>5. PICK l \in 1 .. Len(code[d]) :
        /\ code[d][l].def = v
        /\ \/ code[d][l].op = "phi" /\ frames[m].at # "phis"
           \/ code[d][l].op = "load" /\ Ran(frames[m], l)
  BY <1>3 DEF DefinedBy
<1>6. Dom(prog, d, t) /\ (d = t => m = n)
  <2>1. CASE m = n
    BY <1>1, <1>2, <2>1, DomOrder
  <2>2. CASE m # n
    <3>1. m < n
      BY <1>1, <2>2
    <3>. QED BY <1>1, <1>2, <3>1 DEF Tree
  <2>. QED BY <2>1, <2>2
<1>7. ASSUME d = t
      PROVE  (code[t][l].op = "phi" \/ l < Top.i) /\ l \in Nat /\ l \in 1 .. Len(code[t])
  <2>1. frames[m] = Top
    BY <1>1, <1>6, <1>7
  <2>2. l \in Nat /\ l \in 1 .. Len(code[t])
    BY <1>1, <1>7
  <2>. QED BY <1>5, <1>7, <2>1, <2>2 DEF Ran
<1>8. ASSUME NEW j \in Top.i .. Len(code[t]), code[t][j].op # "phi"
      PROVE  InScope(prog, code, t, j, v)
  <2>1. j \in 1 .. Len(code[t]) /\ j >= Top.i /\ j \in Nat
    BY <1>1
  <2>2. CASE d = t
    <3>1. l < j
      <4>1. CASE code[t][l].op = "phi"
        <5>1. \A i, k \in 1 .. Len(code[t]) : code[t][i].op = "phi" /\ code[t][k].op # "phi" => i < k
          BY <1>1, <1>2, BuiltFields
        <5>. QED BY <1>7, <1>8, <2>1, <2>2, <4>1, <5>1
      <4>2. CASE l < Top.i
        BY <1>1, <1>7, <2>1, <2>2, <4>2
      <4>. QED BY <1>7, <2>2, <4>1, <4>2
    <3>. QED BY <1>1, <1>5, <1>7, <2>2, <3>1 DEF InScope
  <2>3. CASE d # t
    BY <1>4, <1>5, <1>6, <2>3 DEF InScope
  <2>. QED BY <2>2, <2>3
<1>9. ASSUME NEW b \in Blocks, Dom(prog, t, b), b # t, NEW j PROVE InScope(prog, code, b, j, v)
  <2>1. Dom(prog, d, b)
    BY <1>1, <1>2, <1>4, <1>6, <1>9, DomOrder
  <2>2. d # b
    BY <1>1, <1>2, <1>4, <1>6, <1>9, DomOrder
  <2>. QED BY <1>4, <1>5, <2>1, <2>2 DEF InScope
<1>10. ASSUME code[t][Top.i].op = "load", code[t][Top.i].def = v PROVE FALSE
  <2>1. d = t /\ l = Top.i
    <3>1. code[d][l].def = code[t][Top.i].def /\ l \in 1 .. Len(code[d]) /\ Top.i \in 1 .. Len(code[t])
      BY <1>5, <1>10
    <3>2. AsBuilt(prog, code, d) /\ AsBuilt(prog, code, t) /\ d \in Blocks /\ t \in Blocks
      BY <1>1, <1>4
    <3>. HIDE DEF d, t
    <3>. QED BY <1>2, <3>1, <3>2, BuiltUnique
  <2>. QED BY <1>1, <1>7, <1>10, <2>1
<1>. QED BY <1>8, <1>9, <1>10

\* A store pushes the value it writes.
LEMMA PushStoreInv ==
  ASSUME RenameInv, PushStore PROVE RenameInv'
<1> DEFINE n == Len(frames)
           t == Top.bb
           x == Instr.var
           v == Instr.val
           vs == var_val_stack
           more == [y \in Vars |-> IF y = x THEN <<v>> ELSE <<>>]
<1>1. /\ Renaming("instrs") /\ Top.i <= Len(code[t]) /\ Instr.op = "store"
      /\ phase = "rename" /\ frames # <<>> /\ Top.at = "instrs"
  BY DEF PushStore, AtInstr, Renaming
<1>2. PICK f \in Frames :
        /\ frames' = Append(Front(frames), f)
        /\ f.bb = t /\ f.kids = Top.kids /\ f.at = "instrs" /\ f.i = Top.i + 1
        /\ Top.i \in 1 .. Len(code[t])
  BY <1>1, NextInstrFrame DEF PushStore
<1>3. /\ frames \in Seq(Frames) /\ n \in Nat \ {0} /\ n \in 1 .. n /\ Top = frames[n] /\ Top = Last(frames)
      /\ Top \in Frames /\ t \in Blocks /\ AsBuilt(prog, code, t) /\ StoresInScope(prog, code, t)
      /\ Top.i \in Nat \ {0} /\ Len(code[t]) \in Nat
  BY <1>1, TopFields DEF Top
<1>4. prog \in Programs /\ code \in Codes /\ Stacks(code, frames, vs) /\ vs \in [Vars -> Seq(Operands)]
  BY DEF RenameInv, Stacks
<1>5. Instr = code[t][Top.i]
  BY DEF Instr
<1>6. x \in Vars
  BY <1>1, <1>2, <1>3, <1>4, <1>5, BuiltFields
<1>7. v \in Operands /\ (v[1] = "const" \/ InScope(prog, code, t, Top.i, v))
  BY <1>1, <1>2, <1>3, <1>5 DEF StoresInScope
<1>8. <<v>> \in Seq(Operands) /\ Len(<<v>>) = 1 /\ \A j \in 1 .. Len(<<v>>) : <<v>>[j] = v
  BY <1>7, One
<1>9. /\ \A y \in Vars : Pushes(code, f, y) = IF y = x THEN Pushes(code, Top, y) \union {Top.i}
                                              ELSE Pushes(code, Top, y)
      /\ \A y : Top.i \notin Pushes(code, Top, y)
      /\ \A w : DefinedBy(code, Top, w) => DefinedBy(code, f, w)
  <2>1. code[t][Top.i].op = "store" /\ code[t][Top.i].var = x
    BY <1>1, <1>5
  <2>2. /\ \A y : /\ Top.i \notin Pushes(code, Top, y) \/ code[t][Top.i].op = "phi"
                  /\ Pushes(code, f, y) = IF code[t][Top.i].op = "store" /\ code[t][Top.i].var = y
                                          THEN Pushes(code, Top, y) \union {Top.i} ELSE Pushes(code, Top, y)
        /\ \A w : DefinedBy(code, Top, w) => DefinedBy(code, f, w)
    BY <1>1, <1>2, <1>3, PushesNext
  <2>. QED BY <2>1, <2>2
<1>10. \A y \in Vars : (y = x => more[y] = <<v>>) /\ (y # x => more[y] = <<>>)
  OBVIOUS
<1>11. more \in [Vars -> Seq(Operands)]
  <2>1. more = [y \in Vars |-> more[y]]
    OBVIOUS
  <2>. HIDE DEF more, v, x
  <2>2. ASSUME NEW y \in Vars PROVE more[y] \in Seq(Operands)
    <3>1. <<>> \in Seq(Operands)
      OBVIOUS
    <3>. QED BY <1>8, <1>10, <3>1
  <2>. QED BY <2>1, <2>2
<1>12. vs' = [y \in Vars |-> vs[y] \o more[y]]
  <2>1. vs' = [vs EXCEPT ![x] = Append(@, v)]
    BY DEF PushStore, Push
  <2>2. vs' = [y \in Vars |-> IF y = x THEN Append(vs[y], v) ELSE vs[y]]
    BY <1>4, <2>1
  <2>. HIDE DEF more, v, x
  <2>3. ASSUME NEW y \in Vars
        PROVE  (IF y = x THEN Append(vs[y], v) ELSE vs[y]) = vs[y] \o more[y]
    <3>1. vs[y] \in Seq(Operands)
      BY <1>4
    <3>2. CASE y = x
      <4>1. more[y] = <<v>>
        BY <1>10, <3>2
      <4>2. Append(vs[y], v) = vs[y] \o <<v>>
        BY <1>7, <3>1
      <4>. QED BY <3>2, <4>1, <4>2
    <3>3. CASE y # x
      <4>1. more[y] = <<>>
        BY <1>10, <3>3
      <4>2. vs[y] \o <<>> = vs[y]
        BY <3>1
      <4>. QED BY <3>3, <4>1, <4>2
    <3>. QED BY <3>2, <3>3
  <2>. QED BY <2>2, <2>3
<1>13. UNCHANGED <<prog, code, phase, todo>> /\ known' = known \union {x}
  BY DEF PushStore
<1>. HIDE DEF more
<1>14. ASSUME NEW y \in Vars
       PROVE  Cardinality(Pushes(code, f, y)) = Cardinality(Pushes(code, Top, y)) + Len(more[y])
  <2>1. IsFiniteSet(Pushes(code, Top, y)) /\ Cardinality(Pushes(code, Top, y)) \in Nat
    BY <1>3, <1>4, PushesFinite
  <2>2. CASE y = x
    <3>1. Pushes(code, f, y) = Pushes(code, Top, y) \union {Top.i} /\ Top.i \notin Pushes(code, Top, y)
      BY <1>9, <2>2
    <3>2. Cardinality(Pushes(code, f, y)) = Cardinality(Pushes(code, Top, y)) + 1
      BY <2>1, <3>1, FS_AddElement
    <3>3. Len(more[y]) = 1
      BY <1>8, <1>10, <2>2
    <3>. QED BY <3>2, <3>3
  <2>3. CASE y # x
    <3>1. Pushes(code, f, y) = Pushes(code, Top, y)
      BY <1>9, <2>3
    <3>2. Len(more[y]) = 0
      BY <1>10, <2>3
    <3>. QED BY <2>1, <3>1, <3>2
  <2>. QED BY <2>2, <2>3
<1> DEFINE new == Append(Front(frames), f)
<1>15. /\ new[n] = f /\ Len(new) = n /\ \A k \in 1 .. n : k # n => new[k] = frames[k]
  BY <1>1, <1>3, SetLast
<1>. HIDE DEF new
<1>16. FromCalls(code, new, n, v)
  <2>1. CASE v[1] = "const"
    BY <2>1 DEF FromCalls
  <2>2. CASE InScope(prog, code, t, Top.i, v)
    <3>5. PICK d \in Blocks : \E j \in 1 .. Len(code[d]) :
            /\ code[d][j].def = v /\ code[d][j].op \in {"load", "phi"}
            /\ IF d = t THEN j < Top.i ELSE Dom(prog, d, t)
      BY <2>2 DEF InScope
    <3>1. PICK j \in 1 .. Len(code[d]) :
            /\ code[d][j].def = v /\ code[d][j].op \in {"load", "phi"}
            /\ IF d = t THEN j < Top.i ELSE Dom(prog, d, t)
      BY <3>5
    <3>2. CASE d = t
      <4>1. j < f.i
        BY <1>2, <1>3, <3>1, <3>2
      <4>2. DefinedBy(code, f, v)
        BY <1>2, <3>1, <3>2, <4>1 DEF DefinedBy, Ran
      <4>. QED BY <1>3, <1>15, <4>2 DEF FromCalls
    <3>3. CASE d # t
      <4>5. t = frames[n].bb /\ \A k \in 1 .. n : \A b \in Blocks :
              Dom(prog, b, frames[k].bb) => \E m \in 1 .. k : frames[m].bb = b
        BY <1>3 DEF RenameInv, Tree
      <4>1. PICK m \in 1 .. n : frames[m].bb = d
        BY <1>3, <3>1, <3>3, <4>5
      <4>2. m # n /\ m < n
        <5>1. m # n
          BY <3>3, <4>1, <4>5
        <5>. QED BY <1>3, <5>1
      <4>3. frames[m].at = "kids"
        BY <1>3, <4>2 DEF RenameInv, Tree
      <4>4. DefinedBy(code, new[m], v)
        BY <1>15, <3>1, <4>1, <4>2, <4>3 DEF DefinedBy, Ran
      <4>. QED BY <4>4 DEF FromCalls
    <3>. QED BY <3>2, <3>3
  <2>. QED BY <1>7, <2>1, <2>2
<1>17. ASSUME NEW y \in Vars, NEW j \in 1 .. Len(more[y]) PROVE FromCalls(code, new, n, more[y][j])
  <2>1. y = x
    BY <1>10
  <2>2. more[y] = <<v>>
    BY <1>10, <2>1
  <2>3. more[y][j] = v
    BY <1>8, <2>2
  <2>. QED BY <1>16, <2>3
<1>18. Stacks(code, new, vs')
  <2>1. \A w : DefinedBy(code, Last(frames), w) => DefinedBy(code, f, w)
    BY <1>3, <1>9
  <2>2. \A y \in Vars : Cardinality(Pushes(code, f, y)) = Cardinality(Pushes(code, Last(frames), y)) + Len(more[y])
    BY <1>3, <1>14
  <2>3. \A y \in Vars : \A j \in 1 .. Len(more[y]) : FromCalls(code, Append(Front(frames), f), Len(frames), more[y][j])
    BY <1>17 DEF new
  <2>4. Stacks(code, Append(Front(frames), f), [y \in Vars |-> vs[y] \o more[y]])
    BY <1>1, <1>3, <1>4, <1>11, <2>1, <2>2, <2>3, StacksPush
  <2>. QED BY <1>12, <2>4 DEF new
<1>19. known' \subseteq Vars
  BY <1>6, <1>13 DEF RenameInv
<1>20. ASSUME SetsAll(prog), n = 1, NEW y \in known' PROVE Pushes(code, f, y) # {}
  <2>1. CASE y = x
    BY <1>6, <1>9, <2>1
  <2>2. CASE y # x
    <3>1. y \in known /\ y \in Vars
      BY <1>13, <1>19, <1>20, <2>2
    <3>2. Pushes(code, Top, y) # {}
      BY <1>1, <1>3, <1>20, <3>1 DEF RenameInv, KnownAreSet
    <3>. QED BY <1>9, <2>2, <3>1, <3>2
  <2>. QED BY <2>1, <2>2
<1>21. SameShape(code, code)
  BY DEF SameShape, SameAccess
<1>22. \A b \in Blocks : Open(frames, b) \/ ToCome(prog, frames, b) => StoresInScope(prog, code, b)
  BY DEF RenameInv, Built
<1>23. frames' = new
  BY <1>2 DEF new
<1>. QED BY <1>1, <1>2, <1>4, <1>13, <1>18, <1>19, <1>20, <1>21, <1>22, <1>23, InnerStep DEF new

\* The stacks move with code of the same shape.
LEMMA StacksShape ==
  ASSUME RenameInv, frames # <<>>, NEW e \in Codes, SameShape(code, e), NEW f \in Frames,
         \A x : Pushes(code, f, x) = Pushes(code, Top, x),
         \A v : DefinedBy(code, Top, v) => DefinedBy(code, f, v)
  PROVE  Stacks(e, Append(Front(frames), f), var_val_stack)
<1> DEFINE n == Len(frames)
           new == Append(Front(frames), f)
<1>1. frames \in Seq(Frames) /\ n \in Nat \ {0} /\ Top = frames[n] /\ Top \in Frames
  BY TopFields
<1>2. prog \in Programs /\ code \in Codes /\ Stacks(code, frames, var_val_stack)
  BY DEF RenameInv
<1>3. new[n] = f /\ Len(new) = n /\ \A k \in 1 .. n : k # n => new[k] = frames[k]
  BY <1>1, SetLast
<1>4. /\ \A g \in Frames : \A x : Pushes(e, g, x) = Pushes(code, g, x)
      /\ \A g \in Frames : \A v : DefinedBy(code, g, v) => DefinedBy(e, g, v)
  BY <1>2, ShapeKept
<1>. HIDE DEF new
<1>5. ASSUME NEW k \in 1 .. n
      PROVE  /\ \A x \in Vars : Pushes(e, new[k], x) = Pushes(code, frames[k], x)
             /\ \A v : DefinedBy(code, frames[k], v) => DefinedBy(e, new[k], v)
  <2>1. CASE k = n
    BY <1>1, <1>3, <1>4, <2>1
  <2>2. CASE k # n
    <3>1. frames[k] \in Frames /\ new[k] = frames[k]
      BY <1>1, <1>3, <2>2
    <3>. QED BY <1>4, <3>1
  <2>. QED BY <2>1, <2>2
<1>6. MovesOn(code, frames, e, new)
  BY <1>3, <1>5 DEF MovesOn
<1>. QED BY <1>1, <1>2, <1>6, StacksMove DEF new

\* Every use of a load becomes what is on top of the stack.
LEMMA Replaced ==
  ASSUME NEW v, NEW w \in Operands, code \in Codes
  PROVE  /\ ReplaceAllUses(v, w) \in Codes /\ SameShape(code, ReplaceAllUses(v, w))
         /\ \A b \in Blocks : \A i \in 1 .. Len(code[b]) :
              ReplaceAllUses(v, w)[b][i].val = IF code[b][i].val = v THEN w ELSE code[b][i].val
<1> DEFINE e == ReplaceAllUses(v, w)
<1>1. e = [b \in Blocks |-> e[b]]
  BY DEF ReplaceAllUses
<1>2. ASSUME NEW b \in Blocks
      PROVE  /\ e[b] \in Seq(Instructions) /\ Len(e[b]) = Len(code[b])
             /\ \A i \in 1 .. Len(code[b]) : /\ SameAccess(e[b][i], code[b][i])
                                             /\ e[b][i].val = IF code[b][i].val = v THEN w ELSE code[b][i].val
  <2>1. /\ Len(code[b]) \in Nat /\ DOMAIN code[b] = 1 .. Len(code[b])
        /\ \A i \in 1 .. Len(code[b]) : code[b][i] \in Instructions
    BY CodeFields
  <2>2. e[b] = [i \in 1 .. Len(code[b]) |-> Redirect(code[b][i], v, w)]
    BY <2>1 DEF ReplaceAllUses
  <2>3. \A i \in 1 .. Len(code[b]) :
          /\ Redirect(code[b][i], v, w) \in Instructions
          /\ SameAccess(Redirect(code[b][i], v, w), code[b][i])
          /\ Redirect(code[b][i], v, w).val = IF code[b][i].val = v THEN w ELSE code[b][i].val
    BY <2>1, Redirected
  <2>. HIDE DEF e
  <2>4. e[b] \in Seq(Instructions) /\ Len(e[b]) = Len(code[b])
    BY <2>1, <2>2, <2>3
  <2>5. \A i \in 1 .. Len(code[b]) : e[b][i] = Redirect(code[b][i], v, w)
    BY <2>2
  <2>. QED BY <2>3, <2>4, <2>5
<1>. HIDE DEF e
<1>3. e \in Codes
  BY <1>1, <1>2 DEF Codes
<1>4. SameShape(code, e)
  BY <1>2 DEF SameShape
<1>. QED BY <1>2, <1>3, <1>4 DEF e

LEMMA ReplaceLoadInv ==
  ASSUME RenameInv, ReplaceLoad PROVE RenameInv'
<1> DEFINE n == Len(frames)
           t == Top.bb
           x == Instr.var
           v == Instr.def
           w == Last(var_val_stack[x])
<1>1. /\ Renaming("instrs") /\ Top.i <= Len(code[t]) /\ Instr.op = "load" /\ x \in known
      /\ phase = "rename" /\ frames # <<>> /\ Top.at = "instrs"
      /\ UNCHANGED <<prog, todo, var_val_stack, known>>
  BY DEF ReplaceLoad, AtInstr, Renaming
<1>2. PICK f \in Frames :
        /\ frames' = Append(Front(frames), f)
        /\ f.bb = t /\ f.kids = Top.kids /\ f.at = "instrs" /\ f.i = Top.i + 1
        /\ Top.i \in 1 .. Len(code[t]) /\ Instr \in Instructions
  <2>1. NextInstr(TRUE)
    BY DEF ReplaceLoad
  <2>. QED BY <1>1, <2>1, NextInstrFrame
<1>3. /\ frames \in Seq(Frames) /\ n \in Nat \ {0} /\ n \in 1 .. n /\ Top = frames[n] /\ Top \in Frames
      /\ t \in Blocks /\ AsBuilt(prog, code, t) /\ Top.i \in Nat \ {0} /\ Len(code[t]) \in Nat
  BY <1>1, TopFields
<1>4. /\ prog \in Programs /\ code \in Codes /\ Tree(prog, frames) /\ known \subseteq Vars
      /\ Built(prog, code, phase, frames) /\ Stacks(code, frames, var_val_stack)
  BY DEF RenameInv
<1>5. code[t][Top.i].op = "load" /\ code[t][Top.i].def = v
  BY <1>1 DEF Instr
<1>6. /\ \A y : Pushes(code, f, y) = Pushes(code, Top, y)
      /\ \A u : DefinedBy(code, Top, u) => DefinedBy(code, f, u)
  <2>1. code[t][Top.i].op # "store"
    BY <1>5
  <2>. QED BY <1>1, <1>2, <1>3, <2>1, PushesNext
<1>7. x \in Vars
  BY <1>1, <1>4
<1>8. /\ var_val_stack[x] # <<>> => w \in Operands /\ FromCalls(code, frames, n, w)
      /\ \A k \in 1 .. n : Pushes(code, frames[k], x) # {} => var_val_stack[x] # <<>>
  BY <1>1, <1>3, <1>4, <1>7, StackTop
<1>9. ASSUME var_val_stack[x] # <<>> PROVE w # v
  <2>1. v[1] = "load"
    BY <1>2, <1>3, <1>4, <1>5, BuiltFields, SMTT(30)
  <2>2. w[1] = "const" => w # v
    BY <2>1
  <2>. QED BY <1>1, <1>2, <1>5, <1>8, <1>9, <2>2, CallsInScope
<1>10. ASSUME SetsAll(prog), NEW y \in known PROVE /\ Pushes(code, frames[1], y) # {}
                                                   /\ n = 1 => Pushes(code, f, y) # {}
  BY <1>1, <1>3, <1>6, <1>10 DEF RenameInv, KnownAreSet
<1>11. CASE var_val_stack[x] = <<>>
  <2>1. code' = code /\ phase' \in {"rename", "fault"}
    BY <1>1, <1>11 DEF ReplaceLoad
  <2>2. SetsAll(prog) => FALSE
    <3>1. 1 \in 1 .. n
      BY <1>3
    <3>. QED BY <1>1, <1>8, <1>10, <1>11, <3>1
  <2>3. SameShape(code, code)
    BY DEF SameShape, SameAccess
  <2>4. Stacks(code, Append(Front(frames), f), var_val_stack)
    BY <1>1, <1>4, <1>6, <2>3, StacksShape
  <2>5. \A b \in Blocks : Open(frames, b) \/ ToCome(prog, frames, b) => StoresInScope(prog, code, b)
    BY <1>4 DEF Built
  <2>. QED BY <1>1, <1>2, <1>4, <2>1, <2>2, <2>3, <2>4, <2>5, InnerStep
<1>12. CASE var_val_stack[x] # <<>>
  <2> DEFINE e == ReplaceAllUses(v, w)
  <2>1. code' = e /\ phase' = phase
    BY <1>9, <1>12 DEF ReplaceLoad
  <2>2. w \in Operands /\ FromCalls(code, frames, n, w)
    BY <1>8, <1>12
  <2>3. /\ e \in Codes /\ SameShape(code, e)
        /\ \A b \in Blocks : \A i \in 1 .. Len(code[b]) :
             e[b][i].val = IF code[b][i].val = v THEN w ELSE code[b][i].val
    BY <1>4, <2>2, Replaced
  <2>. HIDE DEF e
  <2>4. Stacks(e, Append(Front(frames), f), var_val_stack)
    BY <1>1, <1>6, <2>3, StacksShape
  <2>5. ASSUME NEW y \in Vars PROVE Pushes(e, f, y) = Pushes(code, f, y)
    BY <1>4, <2>3, ShapeKept
  <2>6. ASSUME NEW b \in Blocks, Open(frames, b) \/ ToCome(prog, frames, b)
        PROVE  StoresInScope(prog, e, b)
    <3>1. AsBuilt(prog, code, b) /\ StoresInScope(prog, code, b)
      BY <1>4, <2>6 DEF Built
    <3>2. ASSUME NEW i \in 1 .. Len(code[b]), code[b][i].op = "store"
          PROVE  /\ e[b][i].val \in Operands
                 /\ e[b][i].val[1] = "const" \/ InScope(prog, code, b, i, e[b][i].val)
      <4>1. code[b][i].val \in Operands /\ (code[b][i].val[1] = "const" \/ InScope(prog, code, b, i, code[b][i].val))
        BY <3>1, <3>2 DEF StoresInScope
      <4>2. CASE code[b][i].val # v
        BY <2>3, <4>1, <4>2
      <4>3. CASE code[b][i].val = v
        <5>1. v[1] = "load"
          BY <1>2, <1>3, <1>4, <1>5, BuiltFields, SMTT(30)
        <5>2. InScope(prog, code, b, i, v)
          BY <4>1, <4>3, <5>1
        <5>3. PICK d \in Blocks : \E j \in 1 .. Len(code[d]) :
                /\ code[d][j].def = v /\ IF d = b THEN j < i ELSE Dom(prog, d, b)
          BY <5>2 DEF InScope
        <5>4. PICK j \in 1 .. Len(code[d]) :
                /\ code[d][j].def = v /\ IF d = b THEN j < i ELSE Dom(prog, d, b)
          BY <5>3
        <5>5. AsBuilt(prog, code, d)
          <6>1. Dom(prog, d, b)
            BY <1>4, <5>4, DomOrder
          <6>. QED BY <1>4, <2>6, <6>1, DominatorsBuilt
        <5>6. d = t /\ j = Top.i
          <6>1. code[d][j].def = code[t][Top.i].def /\ Top.i \in 1 .. Len(code[t])
            BY <1>2, <1>5, <5>4
          <6>. QED BY <1>3, <1>4, <5>5, <6>1, BuiltUnique, SMTT(30)
        <5>7. e[b][i].val = w
          BY <2>3, <4>3
        <5>8. w[1] # "const" => InScope(prog, code, b, i, w)
          <6>1. ASSUME w[1] # "const"
                PROVE  /\ \A k \in Top.i .. Len(code[t]) :
                            code[t][k].op # "phi" => InScope(prog, code, t, k, w)
                       /\ \A a \in Blocks : Dom(prog, t, a) /\ a # t => \A k : InScope(prog, code, a, k, w)
            BY <1>1, <1>2, <2>2, <6>1, CallsInScope
          <6>2. CASE b = t
            <7>1. i \in Top.i .. Len(code[t])
              BY <1>3, <5>4, <5>6, <6>2
            <7>. QED BY <3>2, <6>1, <6>2, <7>1
          <6>3. CASE b # t
            BY <5>4, <5>6, <6>1, <6>3
          <6>. QED BY <6>2, <6>3
        <5>. QED BY <2>2, <5>7, <5>8
      <4>. QED BY <4>2, <4>3
    <3>3. \A i \in 1 .. Len(code[b]) : \A u : InScope(prog, code, b, i, u) => InScope(prog, e, b, i, u)
      BY <1>4, <2>3, ShapeKept
    <3>4. Len(e[b]) = Len(code[b]) /\ \A i \in 1 .. Len(code[b]) : e[b][i].op = code[b][i].op
      BY <2>3 DEF SameShape, SameAccess
    <3>. QED BY <3>2, <3>3, <3>4 DEF StoresInScope
  <2>7. ASSUME SetsAll(prog), n = 1, NEW y \in known PROVE Pushes(e, f, y) # {}
    BY <1>4, <1>10, <2>5, <2>7
  <2>8. code' \in Codes /\ SameShape(code, code')
    BY <2>1, <2>3
  <2>9. Stacks(code', frames', var_val_stack')
    BY <1>1, <1>2, <2>1, <2>4
  <2>10. \A b \in Blocks : Open(frames, b) \/ ToCome(prog, frames, b) => StoresInScope(prog, code', b)
    BY <2>1, <2>6
  <2>11. SetsAll(prog) /\ n = 1 => \A y \in known' : Pushes(code', f, y) # {}
    BY <1>1, <2>1, <2>7
  <2>. QED BY <1>1, <1>2, <1>4, <2>1, <2>8, <2>9, <2>10, <2>11, InnerStep
<1>. QED BY <1>11, <1>12

LEMMA FilledFields ==
  ASSUME NEW ins \in Instructions, Top.bb \in Blocks,
         ins.op = "phi" /\ ins.var \in known => Last(var_val_stack[ins.var]) \in Operands
  PROVE  /\ Filled(ins) \in Instructions /\ SameAccess(Filled(ins), ins) /\ Filled(ins).val = ins.val
         /\ ins.op = "phi" /\ ins.var \in known =>
              Filled(ins).pairs = Append(ins.pairs, <<Last(var_val_stack[ins.var]), Top.bb>>)
         /\ ~(ins.op = "phi" /\ ins.var \in known) => Filled(ins) = ins
<1>1. CASE ins.op = "phi" /\ ins.var \in known
  <2> DEFINE e == <<Last(var_val_stack[ins.var]), Top.bb>>
             pairs == Append(ins.pairs, e)
             r == [ins EXCEPT !.pairs = pairs]
  <2>1. e \in Operands \X Blocks /\ ins.pairs \in Seq(Operands \X Blocks)
    BY <1>1, InstructionFields
  <2>2. Filled(ins) = r
    BY <1>1 DEF Filled
  <2>. HIDE DEF e
  <2>3. pairs \in Seq(Operands \X Blocks)
    BY <2>1
  <2>. HIDE DEF pairs
  <2>4. /\ r \in Instructions /\ r.op = ins.op /\ r.def = ins.def /\ r.var = ins.var
        /\ r.val = ins.val /\ r.pairs = pairs
    BY <2>3 DEF Instructions
  <2>. HIDE DEF r
  <2>. QED BY <1>1, <2>2, <2>4 DEF SameAccess, pairs, e
<1>2. CASE ~(ins.op = "phi" /\ ins.var \in known)
  <2>1. Filled(ins) = ins
    BY <1>2 DEF Filled
  <2>. QED BY <1>2, <2>1 DEF SameAccess
<1>. QED BY <1>1, <1>2

LEMMA FillPhisInv ==
  ASSUME RenameInv, FillPhis PROVE RenameInv'
<1> DEFINE n == Len(frames)
           t == Top.bb
           s == prog.succ[t][Top.i]
           f == [Top EXCEPT !.i = @ + 1]
           empty == \E ins \in Phis(s) : ins.var \in known /\ var_val_stack[ins.var] = <<>>
           e == [code EXCEPT ![s] = [i \in DOMAIN @ |-> Filled(@[i])]]
<1>1. /\ phase = "rename" /\ frames # <<>> /\ Top.at = "succs" /\ Top.i <= Len(prog.succ[t])
      /\ frames' = Append(Front(frames), f) /\ UNCHANGED <<prog, todo, var_val_stack, known>>
  BY DEF FillPhis, Renaming, SetTop
<1>2. /\ frames \in Seq(Frames) /\ n \in Nat \ {0} /\ n \in 1 .. n /\ Top = frames[n] /\ Top \in Frames
      /\ t \in Blocks /\ Top.i \in Nat \ {0} /\ Len(code[t]) \in Nat
  BY <1>1, TopFields
<1>3. f \in Frames /\ f.bb = t /\ f.kids = Top.kids /\ f.at = "succs"
  BY <1>1, <1>2, FrameNext
<1>4. /\ prog \in Programs /\ code \in Codes /\ known \subseteq Vars
      /\ Built(prog, code, phase, frames) /\ Stacks(code, frames, var_val_stack)
  BY DEF RenameInv
<1>5. s \in Blocks
  <2>1. prog.succ[t] \in Seq(Blocks)
    BY <1>2, <1>4, ProgramFields
  <2>. QED BY <1>1, <1>2, <2>1
<1>. HIDE DEF f
<1>6. /\ \A y : Pushes(code, f, y) = Pushes(code, Top, y)
      /\ \A u : DefinedBy(code, Top, u) => DefinedBy(code, f, u)
  BY <1>1, <1>2, <1>3, PushesAll
<1>7. ASSUME NEW x \in known
      PROVE  /\ var_val_stack[x] # <<>> => Last(var_val_stack[x]) \in Operands
             /\ \A k \in 1 .. n : Pushes(code, frames[k], x) # {} => var_val_stack[x] # <<>>
  BY <1>1, <1>2, <1>4, StackTop
<1>8. ASSUME SetsAll(prog), NEW y \in known PROVE /\ Pushes(code, frames[1], y) # {}
                                                  /\ n = 1 => Pushes(code, f, y) # {}
  BY <1>1, <1>2, <1>6, <1>8 DEF RenameInv, KnownAreSet
<1>9. CASE empty
  <2>1. code' = code /\ phase' = "assert"
    BY <1>9 DEF FillPhis
  <2>2. SetsAll(prog) => FALSE
    <3>1. 1 \in 1 .. n
      BY <1>2
    <3>2. PICK ins \in Phis(s) : ins.var \in known /\ var_val_stack[ins.var] = <<>>
      BY <1>9
    <3>. QED BY <1>7, <1>8, <3>1, <3>2
  <2>3. SameShape(code, code)
    BY DEF SameShape, SameAccess
  <2>4. Stacks(code, Append(Front(frames), f), var_val_stack)
    BY <1>1, <1>3, <1>4, <1>6, <2>3, StacksShape
  <2>5. \A b \in Blocks : Open(frames, b) \/ ToCome(prog, frames, b) => StoresInScope(prog, code, b)
    BY <1>4 DEF Built
  <2>. QED BY <1>1, <1>3, <1>4, <2>1, <2>2, <2>3, <2>4, <2>5, InnerStep
<1>10. CASE ~empty
  <2>1. code' = e /\ phase' = phase
    BY <1>10 DEF FillPhis
  <2>2. /\ DOMAIN code[s] = 1 .. Len(code[s]) /\ Len(code[s]) \in Nat
        /\ \A i \in 1 .. Len(code[s]) : code[s][i] \in Instructions
    BY <1>4, <1>5, CodeFields
  <2>3. e = [b \in Blocks |-> IF b = s THEN [i \in 1 .. Len(code[s]) |-> Filled(code[s][i])] ELSE code[b]]
    BY <1>4, <2>2 DEF Codes
  <2>4. ASSUME NEW i \in 1 .. Len(code[s])
        PROVE  /\ Filled(code[s][i]) \in Instructions /\ SameAccess(Filled(code[s][i]), code[s][i])
               /\ Filled(code[s][i]).val = code[s][i].val
    <3>1. ASSUME code[s][i].op = "phi", code[s][i].var \in known
          PROVE  Last(var_val_stack[code[s][i].var]) \in Operands
      <4>1. code[s][i] \in Phis(s)
        BY <2>2, <3>1 DEF Phis, Instrs, Range
      <4>2. var_val_stack[code[s][i].var] # <<>>
        BY <1>10, <3>1, <4>1
      <4>. QED BY <1>7, <3>1, <4>2
    <3>2. code[s][i] \in Instructions
      BY <2>2
    <3>. QED BY <1>2, <3>1, <3>2, FilledFields
  <2>. HIDE DEF e
  <2>5. e[s] = [i \in 1 .. Len(code[s]) |-> Filled(code[s][i])] /\ \A b \in Blocks : b # s => e[b] = code[b]
    BY <1>5, <2>3
  <2>6. e[s] \in Seq(Instructions) /\ Len(e[s]) = Len(code[s])
    <3>1. \A i \in 1 .. Len(code[s]) : e[s][i] \in Instructions
      BY <2>4, <2>5
    <3>2. e[s] = [i \in 1 .. Len(code[s]) |-> e[s][i]]
      BY <2>5
    <3>3. Len(code[s]) \in Nat
      BY <2>2
    <3> DEFINE q == e[s]
               m == Len(code[s])
    <3>4. m \in Nat /\ q = [i \in 1 .. m |-> q[i]] /\ \A i \in 1 .. m : q[i] \in Instructions
      BY <3>1, <3>2, <3>3
    <3>. HIDE DEF q, m
    <3>5. q \in Seq(Instructions) /\ Len(q) = m
      BY <3>4, SeqFrom
    <3>. QED BY <3>5 DEF q, m
  <2>7. \A i \in 1 .. Len(code[s]) : e[s][i] = Filled(code[s][i])
    BY <2>5
  <2>8. \A b \in Blocks : code[b] \in Seq(Instructions)
    BY <1>4, CodeFields
  <2>9. e \in Codes
    <3>1. e = [b \in Blocks |-> e[b]]
      BY <2>3
    <3>. QED BY <2>5, <2>6, <2>8, <3>1 DEF Codes
  <2>10. ASSUME NEW b \in Blocks
         PROVE  /\ Len(e[b]) = Len(code[b])
                /\ \A i \in 1 .. Len(code[b]) : SameAccess(e[b][i], code[b][i]) /\ e[b][i].val = code[b][i].val
    <3>1. CASE b = s
      BY <2>4, <2>6, <2>7, <3>1
    <3>2. CASE b # s
      BY <2>5, <3>2 DEF SameAccess
    <3>. QED BY <3>1, <3>2
  <2>11. SameShape(code, e)
    BY <2>10 DEF SameShape
  <2>12. Stacks(e, Append(Front(frames), f), var_val_stack)
    BY <1>1, <1>3, <1>6, <2>9, <2>11, StacksShape
  <2>13. ASSUME NEW b \in Blocks, Open(frames, b) \/ ToCome(prog, frames, b)
         PROVE  StoresInScope(prog, e, b)
    <3>1. StoresInScope(prog, code, b)
      BY <1>4, <2>13 DEF Built
    <3>2. \A i, u : InScope(prog, code, b, i, u) => InScope(prog, e, b, i, u)
      BY <1>4, <2>9, <2>11, ShapeKept
    <3>. QED BY <2>10, <3>1, <3>2 DEF StoresInScope, SameAccess
  <2>14. ASSUME SetsAll(prog), n = 1, NEW y \in known PROVE Pushes(e, f, y) # {}
    <3>1. Pushes(e, f, y) = Pushes(code, f, y)
      BY <1>3, <1>4, <2>9, <2>11, ShapeKept
    <3>. QED BY <1>8, <2>14, <3>1
  <2>15. code' \in Codes /\ SameShape(code, code')
    BY <2>1, <2>9, <2>11
  <2>16. Stacks(code', frames', var_val_stack')
    BY <1>1, <2>1, <2>12
  <2>17. \A b \in Blocks : Open(frames, b) \/ ToCome(prog, frames, b) => StoresInScope(prog, code', b)
    BY <2>1, <2>13
  <2>18. SetsAll(prog) /\ n = 1 => \A y \in known' : Pushes(code', f, y) # {}
    BY <1>1, <2>1, <2>14
  <2>. QED BY <1>1, <1>3, <1>4, <2>1, <2>15, <2>16, <2>17, <2>18, InnerStep
<1>. QED BY <1>9, <1>10

LEMMA OuterKnown ==
  ASSUME NEW p \in Programs, NEW c \in Codes, NEW ph, NEW fs, Tree(p, fs), Built(p, c, ph, fs),
         SetsAll(p), Len(fs) > 1, NEW x \in Vars
  PROVE  Pushes(c, fs[1], x) # {}
<1>1. fs \in Seq(Frames)
  BY DEF Tree
<1>2. 1 \in 1 .. Len(fs) /\ Len(fs) \in 1 .. Len(fs) /\ 1 < Len(fs) /\ fs # <<>>
  BY <1>1
<1>3. fs[1].at = "kids" /\ fs[1].bb = Entry /\ fs[1] \in Frames
  BY <1>1, <1>2 DEF Tree
<1>4. Open(fs, Entry)
  BY <1>2, <1>3 DEF Open
<1>5. AsBuilt(p, c, Entry)
  BY <1>4, BlocksAssumption DEF Built
<1>. QED BY <1>3, <1>5, EntryPushes

LEMMA EnterChildInv ==
  ASSUME RenameInv, EnterChild PROVE RenameInv'
<1>1. /\ phase = "rename" /\ frames # <<>> /\ Top.at = "kids"
      /\ UNCHANGED <<prog, code, phase, todo, var_val_stack, known>>
  BY DEF EnterChild, Renaming
<1>2. PICK b \in Top.kids :
        frames' = Append(Append(Front(frames), [Top EXCEPT !.kids = @ \ {b}]), Call(b))
  BY DEF EnterChild
<1> DEFINE f == [Top EXCEPT !.kids = @ \ {b}]
           mid == Append(Front(frames), f)
           new == Append(mid, NewCall(prog, b))
<1>3. frames' = new
  BY <1>2 DEF Call, NewCall
<1>4. /\ frames \in Seq(Frames) /\ Len(frames) \in Nat \ {0} /\ Top = Last(frames) /\ Top \in Frames
      /\ b \in Blocks /\ Len(code[Top.bb]) \in Nat
  BY <1>1, TopFields DEF Top
<1>5. f \in Frames /\ f.bb = Top.bb /\ f.kids = Top.kids \ {b} /\ f.at = "kids"
  BY <1>1, <1>4, FrameKids
<1>6. prog \in Programs /\ code \in Codes /\ Tree(prog, frames) /\ Built(prog, code, phase, frames)
  BY DEF RenameInv
<1>. HIDE DEF f
<1>7. /\ Tree(prog, new)
      /\ \A d \in Blocks : /\ Open(new, d) <=> Open(frames, d) \/ d = b
                           /\ ToCome(prog, new, d) \/ d = b <=> ToCome(prog, frames, d)
  <2>1. mid = Append(Front(frames), f) /\ new = Append(mid, NewCall(prog, b))
    OBVIOUS
  <2>2. /\ frames # <<>> /\ Last(frames).at = "kids" /\ b \in Last(frames).kids /\ f.bb = Last(frames).bb
        /\ f.kids = Last(frames).kids \ {b} /\ f.at = "kids" /\ f \in Frames
        /\ prog \in Programs /\ Tree(prog, frames)
    BY <1>1, <1>2, <1>4, <1>5, <1>6
  <2>. HIDE DEF mid, new
  <2>. QED BY <2>1, <2>2, TreeEntered
<1>8. Built(prog, code, phase, new)
  BY <1>1, <1>6, <1>7 DEF Built
<1>9. mid \in Seq(Frames) /\ Len(mid) = Len(frames)
  BY <1>1, <1>4, <1>5, SetLast
<1>10. Stacks(code, mid, var_val_stack)
  <2>1. /\ \A x : Pushes(code, f, x) = Pushes(code, Top, x)
        /\ \A v : DefinedBy(code, Top, v) => DefinedBy(code, f, v)
    BY <1>1, <1>4, <1>5, PushesAll
  <2>2. SameShape(code, code)
    BY DEF SameShape, SameAccess
  <2>. QED BY <1>1, <1>5, <1>6, <2>1, <2>2, StacksShape
<1>11. NewCall(prog, b) \in Frames /\ NewCall(prog, b).at = "phis"
  BY <1>4, <1>6, NewCallType DEF NewCall
<1>. HIDE DEF mid
<1>12. Stacks(code, new, var_val_stack)
  BY <1>6, <1>9, <1>10, <1>11, StacksCall
<1>13. Len(new) > 1
  BY <1>4, <1>9, <1>11
<1>. HIDE DEF new
<1>14. ASSUME SetsAll(prog) PROVE KnownAreSet(code, new, known) /\ phase \notin {"assert", "fault"}
  <2>1. known \subseteq Vars
    BY DEF RenameInv
  <2>2. \A x \in known : Pushes(code, new[1], x) # {}
    BY <1>6, <1>7, <1>8, <1>13, <1>14, <2>1, OuterKnown
  <2>. QED BY <1>1, <2>2 DEF KnownAreSet
<1>. QED BY <1>1, <1>3, <1>7, <1>8, <1>12, <1>14 DEF RenameInv

LEMMA LeaveInv ==
  ASSUME RenameInv, Leave PROVE RenameInv'
<1> DEFINE n == Len(frames)
           t == Top.bb
           new == Front(frames)
           K == {ins \in Range(code[t]) : ins.def \notin Top.wait}
           e == [code EXCEPT ![t] = Kept(@, K)]
           vs == var_val_stack
<1>1. /\ phase = "rename" /\ frames # <<>> /\ Top.at = "kids" /\ Top.kids = {}
      /\ frames' = new /\ code' = e /\ UNCHANGED <<prog, phase, todo, known>>
      /\ vs' = [x \in Vars |-> SubSeq(vs[x], 1, Len(vs[x]) - Defined(t, x))]
  BY DEF Leave, Renaming
<1>2. /\ frames \in Seq(Frames) /\ n \in Nat \ {0} /\ n \in 1 .. n /\ Top = frames[n] /\ Top = Last(frames)
      /\ Top \in Frames /\ t \in Blocks /\ DOMAIN code[t] = 1 .. Len(code[t])
  BY <1>1, TopFields DEF Top
<1>3. /\ prog \in Programs /\ code \in Codes /\ Tree(prog, frames) /\ Built(prog, code, phase, frames)
      /\ Stacks(code, frames, vs) /\ vs \in [Vars -> Seq(Operands)]
  BY DEF RenameInv, Stacks
<1>. HIDE DEF K
<1>4. e \in Codes /\ \A d \in Blocks : d # t => e[d] = code[d]
  <2> DEFINE s == Kept(code[t], K)
  <2>1. code[t] \in Seq(Instructions)
    BY <1>2, <1>3, CodeFields
  <2>2. s \in Seq(Instructions)
    BY <2>1, KeptSelects
  <2>3. e = [code EXCEPT ![t] = s]
    OBVIOUS
  <2>. HIDE DEF s, e
  <2>. QED BY <1>2, <1>3, <2>2, <2>3 DEF Codes
<1>5. /\ Tree(prog, new)
      /\ \A b \in Blocks : /\ Open(frames, b) <=> Open(new, b) \/ b = t
                           /\ ToCome(prog, new, b) <=> ToCome(prog, frames, b)
                           /\ Open(new, b) \/ ToCome(prog, new, b) => ~Dom(prog, t, b)
  BY <1>1, <1>2, <1>3, TreeLeft
<1>6. new \in Seq(Frames) /\ Len(new) = n - 1 /\ \A k \in 1 .. n - 1 : new[k] = frames[k]
  BY <1>1, <1>2, DropLast
<1>. HIDE DEF e, new
<1>7. \A x : Defined(t, x) = Cardinality(Pushes(code, Top, x))
  <2>1. ASSUME NEW x
        PROVE  {i \in DOMAIN code[t] : code[t][i].op \in {"store", "phi"} /\ code[t][i].var = x}
                 = Pushes(code, Top, x)
    BY <1>1, <1>2 DEF Pushes, Ran
  <2>. QED BY <2>1 DEF Defined
<1>8. Stacks(code, new, vs')
  <2>1. vs' = [x \in Vars |-> SubSeq(vs[x], 1, Len(vs[x]) - Cardinality(Pushes(code, Last(frames), x)))]
    BY <1>1, <1>2, <1>7
  <2>2. Stacks(code, Front(frames),
          [x \in Vars |-> SubSeq(vs[x], 1, Len(vs[x]) - Cardinality(Pushes(code, Last(frames), x)))])
    BY <1>1, <1>2, <1>3, StacksPop
  <2>. QED BY <2>1, <2>2 DEF new
<1>9. ASSUME NEW k \in 1 .. n - 1
      PROVE  new[k].bb \in Blocks /\ e[new[k].bb] = code[new[k].bb]
  <2>1. k \in 1 .. n /\ k < n /\ new[k] = frames[k]
    BY <1>2, <1>6
  <2>2. frames[k].bb # frames[n].bb /\ frames[k].bb \in Blocks
    BY <1>2, <1>3, <2>1, FrameFields DEF Tree
  <2>. QED BY <1>2, <1>4, <2>1, <2>2
<1>10. Stacks(e, new, vs')
  <2>1. MovesOn(code, new, e, new)
    BY <1>6, <1>9 DEF MovesOn, Pushes, DefinedBy
  <2>. QED BY <1>6, <1>8, <2>1, StacksMove
<1>11. ASSUME NEW b \in Blocks, Open(new, b) \/ ToCome(prog, new, b)
       PROVE  AsBuilt(prog, e, b) /\ StoresInScope(prog, e, b)
  <2>1. ~Dom(prog, t, b) /\ (Open(frames, b) \/ ToCome(prog, frames, b))
    BY <1>5, <1>11
  <2>2. b # t
    BY <1>2, <1>3, <2>1, DomOrder
  <2>3. e[b] = code[b] /\ AsBuilt(prog, code, b) /\ StoresInScope(prog, code, b)
    BY <1>3, <1>4, <2>1, <2>2 DEF Built
  <2>4. AsBuilt(prog, e, b)
    BY <2>3 DEF AsBuilt
  <2>5. ASSUME NEW i, NEW v, InScope(prog, code, b, i, v) PROVE InScope(prog, e, b, i, v)
    <3>1. PICK d \in Blocks : \E j \in 1 .. Len(code[d]) :
            /\ code[d][j].def = v /\ code[d][j].op \in {"load", "phi"}
            /\ IF d = b THEN j < i ELSE Dom(prog, d, b)
      BY <2>5 DEF InScope
    <3>2. d # t
      BY <2>1, <2>2, <3>1
    <3>3. e[d] = code[d]
      BY <1>4, <3>2
    <3>. QED BY <3>1, <3>3 DEF InScope
  <2>. QED BY <2>3, <2>4, <2>5 DEF StoresInScope
<1>12. Built(prog, e, phase, new)
  BY <1>1, <1>11 DEF Built
<1>13. ASSUME SetsAll(prog) PROVE KnownAreSet(e, new, known) /\ phase \notin {"assert", "fault"}
  <2>1. ASSUME new # <<>>, NEW x \in known PROVE Pushes(e, new[1], x) # {}
    <3>1. 1 \in 1 .. n - 1
      BY <1>2, <1>6, <2>1
    <3>2. Pushes(code, frames[1], x) # {}
      BY <1>1, <1>13, <2>1 DEF RenameInv, KnownAreSet
    <3>3. Pushes(e, new[1], x) = Pushes(code, frames[1], x)
      BY <1>6, <1>9, <3>1 DEF Pushes
    <3>. QED BY <3>2, <3>3
  <2>. QED BY <1>1, <2>1 DEF KnownAreSet
<1>14. /\ prog' \in Programs /\ code' \in Codes /\ phase' = "rename"
       /\ todo' \subseteq [var : Vars, bb : Blocks] /\ known' \subseteq Vars
  BY <1>1, <1>4 DEF RenameInv
<1>. QED BY <1>1, <1>5, <1>10, <1>12, <1>13, <1>14 DEF RenameInv

LEMMA RemoveAllocaInv ==
  ASSUME RenameInv, RemoveAlloca PROVE RenameInv'
<1>1. /\ phase = "rename" /\ frames = <<>> /\ phase' = "done"
      /\ UNCHANGED <<prog, todo, frames, var_val_stack, known>>
      /\ code' = [b \in Blocks |-> Kept(code[b], {ins \in Instrs(b) : ins.op # "alloca"})]
  BY DEF RemoveAlloca
<1>2. \A b \in Blocks : \A K : Kept(code[b], K) \in Seq(Instructions)
  <2>1. \A b \in Blocks : code[b] \in Seq(Instructions)
    BY CodeFields DEF RenameInv
  <2>. QED BY <2>1, KeptSelects
<1>3. code' \in Codes
  BY <1>1, <1>2 DEF Codes
<1>4. Stacks(code', <<>>, var_val_stack')
  BY <1>1, NoCalls DEF RenameInv
<1>5. Tree(prog', <<>>) /\ Built(prog', code', phase', <<>>)
  BY <1>1 DEF RenameInv, Tree, Built, Open, ToCome
<1>6. KnownAreSet(code', <<>>, known')
  BY DEF KnownAreSet
<1>7. /\ prog' \in Programs /\ todo' \subseteq [var : Vars, bb : Blocks] /\ known' \subseteq Vars
      /\ frames' = <<>>
  BY <1>1 DEF RenameInv
<1>. QED BY <1>1, <1>3, <1>4, <1>5, <1>6, <1>7 DEF RenameInv

LEMMA StartRenameInv ==
  ASSUME RenameInv, StartRename PROVE RenameInv'
<1> DEFINE f == NewCall(prog, Entry)
           new == <<f>>
<1>1. /\ phase = "place" /\ phase' = "rename" /\ frames' = new /\ frames = <<>> /\ known = {}
      /\ UNCHANGED <<prog, code, todo, var_val_stack, known>>
  BY DEF StartRename, RenameInv, Call, NewCall
<1>2. /\ prog \in Programs /\ code \in Codes /\ Built(prog, code, phase, frames)
      /\ Stacks(code, <<>>, var_val_stack)
  BY <1>1 DEF RenameInv
<1>3. f \in Frames /\ f.bb = Entry /\ f.kids = prog.kids[Entry] /\ f.at = "phis"
  BY <1>2, BlocksAssumption, NewCallType DEF NewCall
<1>4. new \in Seq(Frames) /\ Len(new) = 1 /\ new[1] = f /\ new = Append(<<>>, f)
  BY <1>3
<1>. HIDE DEF f, new
<1>5. Tree(prog, new)
  <2>1. ASSUME NEW d \in Blocks, Dom(prog, d, Entry) PROVE d = Entry
    BY <1>2, <2>1, DomOrder
  <2>2. ASSUME NEW c \in f.kids PROVE ~Dom(prog, c, Entry)
    <3>1. c \in Blocks \ {Entry}
      BY <1>2, <1>3, BlocksAssumption, KidsOf
    <3>. QED BY <1>2, <3>1, DomOrder
  <2>3. \A k \in 1 .. Len(new) : k = 1 /\ new[k] = f
    BY <1>4
  <2>4. 1 \in 1 .. 1
    OBVIOUS
  <2>. QED BY <1>3, <1>4, <2>1, <2>2, <2>3, <2>4 DEF Tree
<1>6. Stacks(code, new, var_val_stack)
  <2>1. <<>> \in Seq(Frames)
    OBVIOUS
  <2>. QED BY <1>2, <1>3, <1>4, <2>1, StacksCall
<1>7. Built(prog, code, "rename", new)
  BY <1>1, <1>2 DEF Built
<1>8. KnownAreSet(code, new, {})
  BY DEF KnownAreSet
<1>9. /\ todo' \subseteq [var : Vars, bb : Blocks] /\ known' \subseteq Vars
  BY <1>1 DEF RenameInv
<1>. QED BY <1>1, <1>2, <1>5, <1>6, <1>7, <1>8, <1>9 DEF RenameInv

LEMMA Prefixed ==
  ASSUME NEW S, NEW s \in Seq(S), NEW a \in S
  PROVE  LET r == <<a>> \o s
         IN  /\ r \in Seq(S) /\ Len(r) = Len(s) + 1 /\ r[1] = a
             /\ \A i \in 1 .. Len(s) : r[i + 1] = s[i]
OBVIOUS

\* A phi in front moves what is behind it, and keeps its order.
LEMMA PlacePhisInv ==
  ASSUME RenameInv, PlacePhis PROVE RenameInv'
<1>1. /\ phase = "place" /\ UNCHANGED <<prog, phase, frames, var_val_stack, known>>
      /\ frames = <<>> /\ known = {}
  BY DEF PlacePhis, RenameInv
<1>2. PICK w \in todo :
        /\ code' = [b \in Blocks |-> IF b \in NeedPhi(w) THEN <<Phi(b, w.var)>> \o code[b] ELSE code[b]]
        /\ todo' = (todo \ {w}) \union [var : {w.var}, bb : NeedPhi(w)]
  BY DEF PlacePhis
<1> DEFINE x == w.var
           N == NeedPhi(w)
           sh(b) == IF b \in N THEN 1 ELSE 0
<1>3. /\ prog \in Programs /\ code \in Codes /\ todo \subseteq [var : Vars, bb : Blocks]
      /\ Built(prog, code, phase, frames) /\ Stacks(code, <<>>, var_val_stack)
  BY <1>1 DEF RenameInv
<1>4. w \in [var : Vars, bb : Blocks] /\ x \in Vars /\ w.bb \in Blocks
  BY <1>3
<1>5. N \subseteq Blocks
  <2>1. prog.df[w.bb] \subseteq Blocks
    BY <1>3, <1>4, ProgramsAssumption DEF DominanceFrontier
  <2>. QED BY <2>1 DEF NeedPhi
<1>6. todo' \subseteq [var : Vars, bb : Blocks]
  BY <1>2, <1>3, <1>4, <1>5
<1>7. ASSUME NEW b \in Blocks, NEW i \in 1 .. Len(code[b]), code[b][i].op = "phi", b \in N
      PROVE  code[b][i].var # x
  <2>1. DOMAIN code[b] = 1 .. Len(code[b])
    BY <1>3, CodeFields
  <2>2. code[b][i] \in Phis(b)
    BY <1>7, <2>1 DEF Phis, Instrs, Range
  <2>. QED BY <1>7, <2>2 DEF NeedPhi, HasPhi
<1>8. ASSUME NEW b \in Blocks
      PROVE  /\ Phi(b, x) \in Instructions /\ Phi(b, x).op = "phi" /\ Phi(b, x).var = x
             /\ Phi(b, x).def = <<"phi", b, x>>
  <2>1. <<"phi", b, x>> \in ValueNames /\ <<>> \in Seq(Operands \X Blocks)
    BY <1>4 DEF ValueNames, Operands
  <2>. QED BY <1>4, <2>1 DEF Phi, Instructions, Ops
<1> DEFINE e == code'
<1>9. ASSUME NEW b \in Blocks
      PROVE  /\ e[b] \in Seq(Instructions) /\ sh(b) \in Nat /\ Len(code[b]) \in Nat
             /\ Len(e[b]) = Len(code[b]) + sh(b)
             /\ b \in N => e[b][1] = Phi(b, x)
             /\ \A i \in 1 .. Len(code[b]) : e[b][i + sh(b)] = code[b][i]
  <2>1. code[b] \in Seq(Instructions) /\ Len(code[b]) \in Nat
    BY <1>3, CodeFields
  <2>2. CASE b \in N
    <3>1. e[b] = <<Phi(b, x)>> \o code[b] /\ sh(b) = 1
      BY <1>2, <2>2
    <3>2. Phi(b, x) \in Instructions
      BY <1>8
    <3>. HIDE DEF e, N, x, sh
    <3>. QED BY <2>1, <3>1, <3>2, Prefixed
  <2>3. CASE b \notin N
    <3>1. e[b] = code[b] /\ sh(b) = 0
      BY <1>2, <2>3
    <3>. HIDE DEF e, N, x, sh
    <3>. QED BY <2>1, <2>3, <3>1
  <2>. QED BY <2>2, <2>3
<1>10. e = [b \in Blocks |-> e[b]]
  BY <1>2
<1>11. \A b \in Blocks : (b \in N => sh(b) = 1) /\ (b \notin N => sh(b) = 0)
  OBVIOUS
<1>. HIDE DEF e, N, x, sh
<1>12. e \in Codes
  BY <1>9, <1>10 DEF Codes
<1>13. ASSUME NEW b \in Blocks PROVE AsBuilt(prog, e, b)
  <2>1. AsBuilt(prog, code, b)
    BY <1>1, <1>3 DEF Built
  <2>2. PICK n \in Nat :
          /\ Len(code[b]) = n + Len(prog.code[b])
          /\ \A i \in 1 .. n : /\ code[b][i].op = "phi" /\ code[b][i].var \in Vars
                               /\ code[b][i].def = <<"phi", b, code[b][i].var>>
          /\ \A i, j \in 1 .. n : code[b][i].var = code[b][j].var => i = j
          /\ \A i \in 1 .. Len(prog.code[b]) : SameAccess(code[b][n + i], prog.code[b][i])
    BY <2>1 DEF AsBuilt
  <2>3. Len(prog.code[b]) \in Nat /\ Len(code[b]) \in Nat
    BY <1>3, CodeFields, ProgramFields
  <2>4. CASE b \notin N
    <3>1. \A i \in 1 .. Len(code[b]) : e[b][i] = code[b][i]
      <4>1. \A i \in 1 .. Len(code[b]) : i + 0 = i
        BY <2>3
      <4>. QED BY <1>9, <1>11, <2>4, <4>1
    <3>2. Len(e[b]) = Len(code[b])
      BY <1>9, <1>11, <2>3, <2>4
    <3>3. /\ \A i \in 1 .. n : i \in 1 .. Len(code[b])
          /\ \A i \in 1 .. Len(prog.code[b]) : n + i \in 1 .. Len(code[b])
      BY <2>2, <2>3
    <3>. QED BY <2>2, <3>1, <3>2, <3>3 DEF AsBuilt
  <2>5. CASE b \in N
    <3>1. /\ e[b][1] = Phi(b, x) /\ Len(e[b]) = Len(code[b]) + 1
          /\ \A i \in 1 .. Len(code[b]) : e[b][i + 1] = code[b][i]
      BY <1>9, <1>11, <2>5
    <3>2. /\ n + 1 \in Nat /\ Len(e[b]) = (n + 1) + Len(prog.code[b])
          /\ \A i \in 1 .. n + 1 : i = 1 \/ (i - 1 \in 1 .. n /\ i - 1 \in 1 .. Len(code[b]) /\ (i - 1) + 1 = i)
          /\ \A i \in 1 .. Len(prog.code[b]) : n + i \in 1 .. Len(code[b]) /\ (n + i) + 1 = (n + 1) + i
      <4> DEFINE m == Len(prog.code[b])
                 l == Len(code[b])
                 k == Len(e[b])
      <4>1. n \in Nat /\ m \in Nat /\ l \in Nat /\ l = n + m /\ k = l + 1
        BY <2>2, <2>3, <3>1
      <4>. HIDE DEF m, l, k
      <4>2. n + 1 \in Nat /\ k = (n + 1) + m
        BY <4>1
      <4>3. \A i \in 1 .. n + 1 : i = 1 \/ (i - 1 \in 1 .. n /\ i - 1 \in 1 .. l /\ (i - 1) + 1 = i)
        BY <4>1
      <4>4. \A i \in 1 .. m : n + i \in 1 .. l /\ (n + i) + 1 = (n + 1) + i
        BY <4>1
      <4>. QED BY <4>2, <4>3, <4>4 DEF m, l, k
    <3>3. ASSUME NEW i \in 1 .. n + 1
          PROVE  /\ e[b][i].op = "phi" /\ e[b][i].var \in Vars /\ e[b][i].def = <<"phi", b, e[b][i].var>>
                 /\ i # 1 => e[b][i] = code[b][i - 1] /\ e[b][i].var # x
                 /\ i = 1 => e[b][i].var = x
      <4>1. CASE i = 1
        BY <1>4, <1>8, <3>1, <4>1 DEF x
      <4>2. CASE i # 1
        <5>1. e[b][i] = code[b][i - 1] /\ i - 1 \in 1 .. n /\ i - 1 \in 1 .. Len(code[b])
          BY <3>1, <3>2, <4>2
        <5>. QED BY <1>7, <2>2, <2>5, <4>2, <5>1
      <4>. QED BY <4>1, <4>2
    <3>4. ASSUME NEW i \in 1 .. n + 1, NEW j \in 1 .. n + 1, e[b][i].var = e[b][j].var PROVE i = j
      <4>1. CASE i = 1 \/ j = 1
        BY <3>3, <3>4, <4>1
      <4>2. CASE i # 1 /\ j # 1
        <5>1. i - 1 \in 1 .. n /\ j - 1 \in 1 .. n /\ code[b][i - 1].var = code[b][j - 1].var
          BY <3>2, <3>3, <3>4, <4>2
        <5>2. i - 1 = j - 1
          BY <2>2, <5>1
        <5>. QED BY <2>2, <5>2
      <4>. QED BY <4>1, <4>2
    <3>5. \A i \in 1 .. Len(prog.code[b]) : SameAccess(e[b][(n + 1) + i], prog.code[b][i])
      BY <2>2, <3>1, <3>2
    <3>6. \A i \in 1 .. n + 1 : /\ e[b][i].op = "phi" /\ e[b][i].var \in Vars
                                /\ e[b][i].def = <<"phi", b, e[b][i].var>>
      BY <3>3
    <3>7. \A i, j \in 1 .. n + 1 : e[b][i].var = e[b][j].var => i = j
      BY <3>4
    <3>. QED BY <3>2, <3>5, <3>6, <3>7 DEF AsBuilt
  <2>. QED BY <2>4, <2>5
<1>14. ASSUME NEW b \in Blocks, NEW i \in 1 .. Len(code[b]), NEW v, InScope(prog, code, b, i, v)
       PROVE  InScope(prog, e, b, i + sh(b), v)
  <2>1. PICK d \in Blocks : \E j \in 1 .. Len(code[d]) :
          /\ code[d][j].def = v /\ code[d][j].op \in {"load", "phi"}
          /\ IF d = b THEN j < i ELSE Dom(prog, d, b)
    BY <1>14 DEF InScope
  <2>2. PICK j \in 1 .. Len(code[d]) :
          /\ code[d][j].def = v /\ code[d][j].op \in {"load", "phi"}
          /\ IF d = b THEN j < i ELSE Dom(prog, d, b)
    BY <2>1
  <2> DEFINE l == j + sh(d)
  <2>3. /\ l \in 1 .. Len(e[d]) /\ e[d][l] = code[d][j]
    <3>1. sh(d) \in Nat /\ Len(code[d]) \in Nat /\ Len(e[d]) = Len(code[d]) + sh(d)
      BY <1>9
    <3>2. e[d][j + sh(d)] = code[d][j]
      BY <1>9
    <3>. QED BY <3>1, <3>2
  <2>4. d = b => l < i + sh(b)
    <3>1. sh(d) \in Nat /\ j \in Nat /\ i \in Nat
      BY <1>9
    <3>. QED BY <2>2, <3>1
  <2>. HIDE DEF l
  <2>. QED BY <2>2, <2>3, <2>4 DEF InScope
<1>15. ASSUME NEW b \in Blocks PROVE StoresInScope(prog, e, b)
  <2>1. StoresInScope(prog, code, b)
    BY <1>1, <1>3 DEF Built
  <2>2. ASSUME NEW k \in 1 .. Len(e[b]), e[b][k].op = "store"
        PROVE  e[b][k].val \in Operands /\ (e[b][k].val[1] = "const" \/ InScope(prog, e, b, k, e[b][k].val))
    <3>1. k - sh(b) \in 1 .. Len(code[b]) /\ (k - sh(b)) + sh(b) = k
      <4>1. CASE b \in N
        <5>1. k # 1
          BY <1>8, <1>9, <2>2, <4>1
        <5>2. sh(b) = 1 /\ Len(e[b]) = Len(code[b]) + 1 /\ Len(code[b]) \in Nat
          BY <1>9, <1>11, <4>1
        <5>. QED BY <5>1, <5>2
      <4>2. CASE b \notin N
        <5>1. sh(b) = 0 /\ Len(e[b]) = Len(code[b]) + 0 /\ Len(code[b]) \in Nat
          BY <1>9, <1>11, <4>2
        <5>. QED BY <5>1
      <4>. QED BY <4>1, <4>2
    <3> DEFINE i == k - sh(b)
    <3>2. i \in 1 .. Len(code[b]) /\ i + sh(b) = k
      BY <3>1
    <3>. HIDE DEF i
    <3>3. e[b][k] = code[b][i]
      BY <1>9, <3>2
    <3>4. code[b][i].val \in Operands /\ (code[b][i].val[1] = "const" \/ InScope(prog, code, b, i, code[b][i].val))
      BY <2>1, <2>2, <3>2, <3>3 DEF StoresInScope
    <3>5. InScope(prog, code, b, i, code[b][i].val) => InScope(prog, e, b, k, code[b][i].val)
      BY <1>14, <3>2
    <3>. QED BY <3>3, <3>4, <3>5
  <2>. QED BY <2>2 DEF StoresInScope
<1>16. Built(prog, e, phase, frames)
  BY <1>13, <1>15 DEF Built
<1>17. Stacks(e, <<>>, var_val_stack)
  BY <1>3, NoCalls
<1>18. Tree(prog, frames) /\ known \subseteq Vars
  BY DEF RenameInv
<1>19. KnownAreSet(e, frames, known)
  BY <1>1 DEF KnownAreSet
<1>20. code' = e
  BY DEF e
<1>. QED BY <1>1, <1>3, <1>6, <1>12, <1>16, <1>17, <1>18, <1>19, <1>20 DEF RenameInv

LEMMA RenameInit == Init => RenameInv
<1>. SUFFICES ASSUME Init PROVE RenameInv
  OBVIOUS
<1>1. /\ prog \in Programs /\ code = prog.code /\ phase = "place" /\ todo = StoredIn
      /\ frames = <<>> /\ var_val_stack = [x \in Vars |-> <<>>] /\ known = {}
  BY DEF Init
<1>2. code \in Codes
  BY <1>1, ProgramFields
<1>3. todo \subseteq [var : Vars, bb : Blocks]
  BY <1>1 DEF StoredIn
<1>4. <<>> \in Seq(Frames) /\ Len(<<>>) = 0 /\ 1 .. 0 = {}
  OBVIOUS
<1>5. Tree(prog, <<>>)
  BY <1>4 DEF Tree
<1>6. Stacks(code, <<>>, var_val_stack)
  BY <1>1, NoCalls
<1>7. ASSUME NEW b \in Blocks PROVE AsBuilt(prog, code, b) /\ StoresInScope(prog, code, b)
  <2>1. /\ code[b] \in Seq(Instructions) /\ Len(code[b]) \in Nat /\ DOMAIN code[b] = 1 .. Len(code[b])
        /\ \A i \in 1 .. Len(code[b]) : code[b][i] \in Instructions
    BY <1>2, CodeFields
  <2>2. AsBuilt(prog, code, b)
    <3>1. 0 \in Nat /\ Len(code[b]) = 0 + Len(prog.code[b]) /\ 1 .. 0 = {}
      BY <1>1, <2>1
    <3>2. \A i \in 1 .. Len(prog.code[b]) : 0 + i = i
      BY <1>1, <2>1
    <3>3. \A i \in 1 .. Len(prog.code[b]) : SameAccess(code[b][0 + i], prog.code[b][i])
      BY <1>1, <3>2 DEF SameAccess
    <3>. QED BY <3>1, <3>3 DEF AsBuilt
  <2>3. ASSUME NEW i \in 1 .. Len(code[b]), code[b][i].op = "store"
        PROVE  /\ code[b][i].val \in Operands
               /\ code[b][i].val[1] = "const" \/ InScope(prog, code, b, i, code[b][i].val)
    <3> DEFINE v == code[b][i].val
    <3>1. v \in Operands
      BY <1>1, <2>1, <2>3, ProgramFields, InstructionFields
    <3>2. v[1] \in {"const", "load", "phi"}
      BY <3>1 DEF Operands
    <3>3. v[1] # "phi" /\ (v[1] = "load" => ComputedBefore(prog, v, b, i))
      BY <1>1, <2>1, ProgramFields
    <3>4. ASSUME ComputedBefore(prog, v, b, i) PROVE InScope(prog, code, b, i, v)
      <4>1. PICK d \in Blocks : \E j \in DOMAIN code[d] :
              /\ code[d][j].op = "load" /\ code[d][j].def = v
              /\ IF d = b THEN j < i ELSE Dom(prog, d, b)
        BY <1>1, <3>4 DEF ComputedBefore, Dom
      <4>2. DOMAIN code[d] = 1 .. Len(code[d])
        BY <1>2, CodeFields
      <4>. QED BY <4>1, <4>2 DEF InScope
    <3>. QED BY <3>1, <3>2, <3>3, <3>4
  <2>. QED BY <2>2, <2>3 DEF StoresInScope
<1>8. Built(prog, code, phase, frames)
  BY <1>7 DEF Built
<1>9. KnownAreSet(code, frames, known)
  BY <1>1 DEF KnownAreSet
<1>. QED BY <1>1, <1>2, <1>3, <1>5, <1>6, <1>8, <1>9 DEF RenameInv

(***************************************************************************)
(* The theorems.                                                           *)
(***************************************************************************)
LEMMA RenameNext ==
  ASSUME RenameInv, [RunNext]_allVars PROVE RenameInv'
<1>1. CASE UNCHANGED vars
  BY <1>1 DEF RenameInv, vars
<1>2. CASE Next
  <2>1. CASE PlacePhis BY <2>1, PlacePhisInv
  <2>2. CASE StartRename BY <2>2, StartRenameInv
  <2>3. CASE PushPhis BY <2>3, PushPhisInv
  <2>4. CASE ReplaceLoad BY <2>4, ReplaceLoadInv
  <2>5. CASE KeepLoad BY <2>5, KeepLoadInv
  <2>6. CASE PushStore BY <2>6, PushStoreInv
  <2>7. CASE SkipInstr BY <2>7, SkipInstrInv
  <2>8. CASE InstrsDone BY <2>8, InstrsDoneInv
  <2>9. CASE FillPhis BY <2>9, FillPhisInv
  <2>10. CASE SuccsDone BY <2>10, SuccsDoneInv
  <2>11. CASE EnterChild BY <2>11, EnterChildInv
  <2>12. CASE Leave BY <2>12, LeaveInv
  <2>13. CASE RemoveAlloca BY <2>13, RemoveAllocaInv
  <2>. QED BY <1>2, <2>1, <2>2, <2>3, <2>4, <2>5, <2>6, <2>7, <2>8, <2>9, <2>10, <2>11, <2>12, <2>13
       DEF Next
<1>3. [RunNext]_allVars => Next \/ UNCHANGED vars
  BY DEF RunNext, Compile, NameValues, Transform, PrintFunction, RunNextBlock, Stopped, allVars
<1>. QED BY <1>1, <1>2, <1>3

\* The invariant holds throughout, whatever the function.
THEOREM RenameInvariant == RunSpec => []RenameInv
<1>1. RunInit => RenameInv
  BY RenameInit DEF RunInit
<1>2. RenameInv /\ [RunNext]_allVars => RenameInv'
  BY RenameNext
<1>. QED BY <1>1, <1>2, PTL DEF RunSpec

\* The calls of re_name that have not returned are on different blocks, so
\* that they nest no deeper than there are blocks.
LEMMA CallsBounded ==
  ASSUME NEW p \in Programs, NEW fs, Tree(p, fs) PROVE Len(fs) <= Cardinality(Blocks)
<1>1. fs \in Seq(Frames) /\ Len(fs) \in Nat
  BY DEF Tree
<1> DEFINE f == [k \in 1 .. Len(fs) |-> fs[k].bb]
<1>2. \A k \in 1 .. Len(fs) : fs[k].bb \in Blocks
  BY <1>1, FrameFields
<1>3. f \in Injection(1 .. Len(fs), Blocks)
  <2>1. ASSUME NEW k \in 1 .. Len(fs), NEW m \in 1 .. Len(fs), fs[k].bb = fs[m].bb PROVE k = m
    <3>1. ~(k < m) /\ ~(m < k)
      BY <2>1 DEF Tree
    <3>. QED BY <1>1, <3>1
  <2>. QED BY <1>2, <2>1 DEF Injection, IsInjective
<1>4. IsFiniteSet(1 .. Len(fs)) /\ Cardinality(1 .. Len(fs)) = Len(fs)
  BY <1>1, FS_Interval
<1>5. Cardinality(1 .. Len(fs)) <= Cardinality(Blocks)
  BY <1>3, <1>4, BlocksAssumption, FS_Injection DEF Injection
<1>. QED BY <1>4, <1>5

\* Mem2Reg keeps its types: every operand is one a function may have, phis
\* name blocks, the stacks hold operands, and the recursion is bounded.
THEOREM TypeCorrect == RunSpec => []TypeOK
<1>1. RenameInv => TypeOK
  <2>. SUFFICES ASSUME RenameInv PROVE TypeOK
    OBVIOUS
  <2>1. ASSUME NEW b \in Blocks, NEW ins \in Instrs(b)
        PROVE  /\ ins.op \in Ops /\ ins.val \in Operands \union {NoValue}
               /\ \A pair \in Range(ins.pairs) : pair \in Operands \X Blocks
    <3>1. ins \in Instructions
      BY CodeFields DEF RenameInv, Instrs, Range
    <3>2. ins.pairs \in Seq(Operands \X Blocks)
      BY <3>1, InstructionFields
    <3>3. \A pair \in Range(ins.pairs) : pair \in Operands \X Blocks
      BY <3>2 DEF Range
    <3>. QED BY <3>1, <3>3, InstructionFields
  <2>2. \A x \in Vars : var_val_stack[x] \in Seq(Operands)
    BY DEF RenameInv, Stacks
  <2>3. \A x \in Vars : \A i \in DOMAIN var_val_stack[x] : var_val_stack[x][i] \in Operands
    BY <2>2
  <2>4. Len(frames) <= Cardinality(Blocks)
    BY CallsBounded DEF RenameInv
  <2>. QED BY <2>1, <2>3, <2>4 DEF RenameInv, TypeOK
<1>. QED BY <1>1, RenameInvariant, PTL

\* A function that sets its variables at the entry is not aborted: the assert
\* of re_name holds, and no value is taken from an empty stack.
THEOREM NeverAborts == RunSpec => []NoAbort
<1>1. RenameInv => NoAbort
  BY DEF RenameInv, NoAbort, SetAtEntry, SetsAll
<1>. QED BY <1>1, RenameInvariant, PTL

\* Every value pushed by re_name has been popped when it has returned.
THEOREM StacksBalanced == RunSpec => []StacksRestored
<1>1. RenameInv => StacksRestored
  <2>. SUFFICES ASSUME RenameInv, phase = "done", NEW x \in Vars PROVE var_val_stack[x] = <<>>
    BY DEF StacksRestored
  <2>1. frames = <<>> /\ Stacks(code, frames, var_val_stack)
    BY DEF RenameInv
  <2>2. var_val_stack = [y \in Vars |-> <<>>]
    BY <2>1, NoCalls
  <2>. QED BY <2>2
<1>. QED BY <1>1, RenameInvariant, PTL

(***************************************************************************)
(* SSA form.  Every phi has one pair for each predecessor of its block     *)
(* that a definition of its variable reaches, and no other; and where the  *)
(* entry sets its variables before it reads them, no load or store is left *)
(* and what is used is there on every path.                                *)
(***************************************************************************)
IsPred(p, a, b) == b \in Range(p.succ[a])

\* re_name has returned from block b.
Left(p, fs, b) == ~Open(fs, b) /\ ~ToCome(p, fs, b)

\* The phis of block b have their pairs for its predecessor a, whose call is f
\* as long as it is open.
Feeds(p, f, b) ==
  \/ f.at = "kids"
  \/ f.at = "succs" /\ \E j \in 1 .. Len(p.succ[f.bb]) : j < f.i /\ p.succ[f.bb][j] = b
Fed(p, fs, a, b) == Left(p, fs, a) \/ \E k \in 1 .. Len(fs) : fs[k].bb = a /\ Feeds(p, fs[k], b)

PhiIn(c, b, x) == \E j \in 1 .. Len(c[b]) : c[b][j].op = "phi" /\ c[b][j].var = x

\* Block b defines x, and a definition of x comes by on every path to the end of a.
Defines(p, c, b, x) ==
  \/ \E j \in 1 .. Len(p.code[b]) : p.code[b][j].op = "store" /\ p.code[b][j].var = x
  \/ PhiIn(c, b, x)
Reaches(p, c, x, a) == \E d \in Blocks : Dom(p, d, a) /\ Defines(p, c, d, x)

PairOf(phi, a) == \E j \in 1 .. Len(phi.pairs) : phi.pairs[j][2] = a

PhiRight(p, c, fs, b, phi) ==
  /\ \A a \in Blocks : PairOf(phi, a) => IsPred(p, a, b) /\ Fed(p, fs, a, b)
  /\ \A j, k \in 1 .. Len(phi.pairs) : phi.pairs[j][2] = phi.pairs[k][2] => j = k
  /\ \A a \in Blocks : IsPred(p, a, b) /\ Fed(p, fs, a, b) /\ Reaches(p, c, phi.var, a) => PairOf(phi, a)

(***************************************************************************)
(* The invariant.  A phi was placed because a definition reaches the end   *)
(* of a predecessor, which will give it a pair: there the variable is      *)
(* known, since the call of the block that defines it is open and past it. *)
(***************************************************************************)
WaitsKeepPhis(fs) == \A k \in 1 .. Len(fs) : \A v \in fs[k].wait : v[1] # "phi"
PushedAreKnown(c, fs, kn) ==
  \A k \in 1 .. Len(fs) : \A x \in Vars : Pushes(c, fs[k], x) # {} => x \in kn
QueuedDefine(p, c, td) == \A w \in td : Defines(p, c, w.bb, w.var)
PhisRight(p, c, ph, fs) ==
  \A b \in Blocks : \A i \in 1 .. Len(c[b]) : c[b][i].op = "phi" =>
    /\ c[b][i].var \in Vars
    /\ \E a \in Blocks : IsPred(p, a, b) /\ Reaches(p, c, c[b][i].var, a)
    /\ ph = "place" => c[b][i].pairs = <<>>
    /\ ph # "place" => PhiRight(p, c, fs, b, c[b][i])

Running == phase \in {"place", "rename", "done"}
PhisInv ==
  Running =>
    /\ WaitsKeepPhis(frames) /\ PushedAreKnown(code, frames, known)
    /\ QueuedDefine(prog, code, todo) /\ PhisRight(prog, code, phase, frames)

(***************************************************************************)
(* Steps that rewrite code, and leave the phis and their pairs' blocks.    *)
(***************************************************************************)
SamePhi(new, old) ==
  /\ new.op = old.op /\ new.var = old.var /\ Len(new.pairs) = Len(old.pairs)
  /\ \A m \in 1 .. Len(old.pairs) : new.pairs[m][2] = old.pairs[m][2]
SamePhis(c, e) ==
  \A b \in Blocks :
    /\ \A i \in 1 .. Len(e[b]) : e[b][i].op = "phi" => \E j \in 1 .. Len(c[b]) : SamePhi(e[b][i], c[b][j])
    /\ \A x : PhiIn(c, b, x) => PhiIn(e, b, x)
FedSame(p, fs, new) ==
  \A a, b \in Blocks : IsPred(p, a, b) => (Fed(p, new, a, b) <=> Fed(p, fs, a, b))

LEMMA PhisCarried ==
  ASSUME NEW p, NEW c, NEW e, NEW fs, NEW new, NEW ph, NEW ph2,
         SamePhis(c, e), FedSame(p, fs, new), ph # "place", ph2 # "place",
         PhisRight(p, c, ph, fs)
  PROVE  PhisRight(p, e, ph2, new)
<1>1. ASSUME NEW b \in Blocks, NEW x PROVE PhiIn(e, b, x) <=> PhiIn(c, b, x)
  <2>1. ASSUME PhiIn(e, b, x) PROVE PhiIn(c, b, x)
    <3>1. PICK i \in 1 .. Len(e[b]) : e[b][i].op = "phi" /\ e[b][i].var = x
      BY <2>1 DEF PhiIn
    <3>2. PICK j \in 1 .. Len(c[b]) : SamePhi(e[b][i], c[b][j])
      BY <3>1 DEF SamePhis
    <3>. QED BY <3>1, <3>2 DEF SamePhi, PhiIn
  <2>. QED BY <2>1 DEF SamePhis
<1>2. \A x : \A a \in Blocks : Reaches(p, e, x, a) <=> Reaches(p, c, x, a)
  BY <1>1 DEF Reaches, Defines
<1>3. ASSUME NEW b \in Blocks, NEW i \in 1 .. Len(e[b]), e[b][i].op = "phi"
      PROVE  /\ e[b][i].var \in Vars
             /\ \E a \in Blocks : IsPred(p, a, b) /\ Reaches(p, e, e[b][i].var, a)
             /\ PhiRight(p, e, new, b, e[b][i])
  <2>1. PICK j \in 1 .. Len(c[b]) : SamePhi(e[b][i], c[b][j])
    BY <1>3 DEF SamePhis
  <2> DEFINE old == c[b][j]
             phi == e[b][i]
  <2>2. /\ old.op = "phi" /\ phi.var = old.var /\ Len(phi.pairs) = Len(old.pairs)
        /\ \A m \in 1 .. Len(old.pairs) : phi.pairs[m][2] = old.pairs[m][2]
    BY <1>3, <2>1 DEF SamePhi
  <2>3. /\ old.var \in Vars /\ \E a \in Blocks : IsPred(p, a, b) /\ Reaches(p, c, old.var, a)
        /\ PhiRight(p, c, fs, b, old)
    BY <2>2 DEF PhisRight
  <2>. HIDE DEF old, phi
  <2>4. \A a \in Blocks : PairOf(phi, a) <=> PairOf(old, a)
    BY <2>2 DEF PairOf
  <2>5. \A a \in Blocks : IsPred(p, a, b) => (Fed(p, new, a, b) <=> Fed(p, fs, a, b))
    BY DEF FedSame
  <2>6. PhiRight(p, e, new, b, phi)
    BY <1>2, <2>2, <2>3, <2>4, <2>5 DEF PhiRight
  <2>7. /\ phi.var \in Vars /\ \E a \in Blocks : IsPred(p, a, b) /\ Reaches(p, e, phi.var, a)
    BY <1>2, <2>2, <2>3
  <2>. QED BY <2>6, <2>7 DEF phi
<1>. QED BY <1>3 DEF PhisRight

LEMMA PhisUnchanged ==
  ASSUME NEW c
  PROVE  SamePhis(c, c)
BY DEF SamePhis, SamePhi

\* The innermost call moves on.
LEMMA FedMoves ==
  ASSUME NEW p \in Programs, NEW fs \in Seq(Frames), fs # <<>>, NEW f \in Frames,
         f.bb = Last(fs).bb, f.kids = Last(fs).kids,
         \A b \in Blocks : IsPred(p, f.bb, b) => (Feeds(p, f, b) <=> Feeds(p, Last(fs), b))
  PROVE  FedSame(p, fs, Append(Front(fs), f))
<1> DEFINE new == Append(Front(fs), f)
           n == Len(fs)
<1>1. /\ Len(new) = n /\ n \in Nat \ {0} /\ new[n] = f /\ \A k \in 1 .. n : k # n => new[k] = fs[k]
      /\ Last(fs) = fs[n]
  BY SetLast DEF Last
<1>. HIDE DEF new
<1>2. \A k \in 1 .. n : new[k].bb = fs[k].bb /\ new[k].kids = fs[k].kids
  BY <1>1
<1>3. \A b \in Blocks : Left(p, new, b) <=> Left(p, fs, b)
  BY <1>1, <1>2 DEF Left, Open, ToCome
<1>4. ASSUME NEW k \in 1 .. n, NEW b \in Blocks, IsPred(p, fs[k].bb, b)
      PROVE  Feeds(p, new[k], b) <=> Feeds(p, fs[k], b)
  <2>1. CASE k = n
    BY <1>1, <1>4, <2>1
  <2>2. CASE k # n
    BY <1>1, <2>2
  <2>. QED BY <2>1, <2>2
<1>5. ASSUME NEW a \in Blocks, NEW b \in Blocks, IsPred(p, a, b)
      PROVE  Fed(p, new, a, b) <=> Fed(p, fs, a, b)
  BY <1>1, <1>2, <1>3, <1>4, <1>5 DEF Fed
<1>. QED BY <1>5 DEF FedSame, new

LEMMA InnerPhis ==
  ASSUME RenameInv, PhisInv, phase = "rename", frames # <<>>, UNCHANGED <<prog, todo>>,
         NEW f \in Frames, frames' = Append(Front(frames), f), f.bb = Top.bb, f.kids = Top.kids,
         \A b \in Blocks : IsPred(prog, f.bb, b) => (Feeds(prog, f, b) <=> Feeds(prog, Top, b)),
         code' \in Codes, SameShape(code, code'), SamePhis(code, code'), phase' # "place",
         known \subseteq known', \A x \in Vars : Pushes(code', f, x) # {} => x \in known',
         \A v \in f.wait : v \in Top.wait \/ v[1] # "phi"
  PROVE  PhisInv'
<1> DEFINE new == Append(Front(frames), f)
           n == Len(frames)
<1>1. /\ frames \in Seq(Frames) /\ n \in Nat \ {0} /\ n \in 1 .. n /\ Top = frames[n]
      /\ Top = Last(frames) /\ Top \in Frames
  BY TopFields DEF Top
<1>2. Len(new) = n /\ new[n] = f /\ \A k \in 1 .. n : k # n => new[k] = frames[k]
  BY <1>1, SetLast
<1>3. /\ prog \in Programs /\ code \in Codes
      /\ WaitsKeepPhis(frames) /\ PushedAreKnown(code, frames, known)
      /\ QueuedDefine(prog, code, todo) /\ PhisRight(prog, code, phase, frames)
  BY DEF RenameInv, PhisInv, Running
<1>4. FedSame(prog, frames, new)
  BY <1>1, <1>3, FedMoves
<1>5. PhisRight(prog, code', phase', new)
  BY <1>3, <1>4, PhisCarried
<1>. HIDE DEF new
<1>6. WaitsKeepPhis(new)
  <2>1. ASSUME NEW k \in 1 .. n, NEW v \in new[k].wait PROVE v[1] # "phi"
    <3>1. CASE k = n
      BY <1>1, <1>2, <1>3, <2>1, <3>1 DEF WaitsKeepPhis
    <3>2. CASE k # n
      BY <1>2, <1>3, <2>1, <3>2 DEF WaitsKeepPhis
    <3>. QED BY <3>1, <3>2
  <2>. QED BY <1>2, <2>1 DEF WaitsKeepPhis
<1>7. PushedAreKnown(code', new, known')
  <2>1. ASSUME NEW k \in 1 .. n, NEW x \in Vars, Pushes(code', new[k], x) # {} PROVE x \in known'
    <3>1. CASE k = n
      BY <1>2, <2>1, <3>1
    <3>2. CASE k # n
      <4>1. frames[k] \in Frames /\ new[k] = frames[k]
        BY <1>1, <1>2, <3>2
      <4>2. Pushes(code', frames[k], x) = Pushes(code, frames[k], x)
        BY <1>3, <4>1, ShapeKept
      <4>. QED BY <1>3, <2>1, <4>1, <4>2 DEF PushedAreKnown
    <3>. QED BY <3>1, <3>2
  <2>. QED BY <1>2, <2>1 DEF PushedAreKnown
<1>8. QueuedDefine(prog, code', todo)
  <2>1. \A b \in Blocks : \A x : PhiIn(code, b, x) => PhiIn(code', b, x)
    BY DEF SamePhis
  <2>2. \A w \in todo : w.bb \in Blocks
    BY DEF RenameInv
  <2>. QED BY <1>3, <2>1, <2>2 DEF QueuedDefine, Defines
<1>9. frames' = new
  BY DEF new
<1>. QED BY <1>5, <1>6, <1>7, <1>8, <1>9 DEF PhisInv

(***************************************************************************)
(* The actions.                                                            *)
(***************************************************************************)
\* Steps that leave the code.
LEMMA QuietPhis ==
  ASSUME RenameInv, PhisInv, phase = "rename", frames # <<>>, UNCHANGED <<prog, todo, code>>,
         NEW f \in Frames, frames' = Append(Front(frames), f), f.bb = Top.bb, f.kids = Top.kids,
         \A b \in Blocks : IsPred(prog, f.bb, b) => (Feeds(prog, f, b) <=> Feeds(prog, Top, b)),
         phase' # "place", known \subseteq known',
         \A x \in Vars : Pushes(code, f, x) # {} => x \in known',
         \A v \in f.wait : v \in Top.wait \/ v[1] # "phi"
  PROVE  PhisInv'
<1>1. code' \in Codes /\ code' = code
  BY DEF RenameInv
<1>2. SameShape(code, code') /\ SamePhis(code, code')
  BY <1>1, PhisUnchanged DEF SameShape, SameAccess
<1>. QED BY <1>1, <1>2, InnerPhis

LEMMA TopKnown ==
  ASSUME RenameInv, PhisInv, phase = "rename", frames # <<>>, NEW x \in Vars,
         Pushes(code, Top, x) # {}
  PROVE  x \in known
BY TopFields DEF PhisInv, Running, PushedAreKnown

LEMMA PhisSkip ==
  ASSUME RenameInv, PhisInv, AtInstr({"load", "alloca", "use", "phi"}), NextInstr(FALSE),
         UNCHANGED <<prog, code, phase, todo, var_val_stack, known>>
  PROVE  PhisInv'
<1>1. /\ Renaming("instrs") /\ Top.i <= Len(code[Top.bb])
      /\ phase = "rename" /\ frames # <<>> /\ Top.at = "instrs" /\ Instr.op # "store"
  BY DEF AtInstr, Renaming
<1>2. PICK f \in Frames :
        /\ frames' = Append(Front(frames), f)
        /\ f.bb = Top.bb /\ f.kids = Top.kids /\ f.at = "instrs" /\ f.i = Top.i + 1 /\ f.wait = Top.wait
        /\ Top.i \in 1 .. Len(code[Top.bb])
  BY <1>1, NextInstrFrame
<1>3. Top \in Frames
  BY <1>1, TopFields
<1>4. \A x : Pushes(code, f, x) = Pushes(code, Top, x)
  <2>1. code[Top.bb][Top.i].op # "store"
    BY <1>1 DEF Instr
  <2>. QED BY <1>1, <1>2, <1>3, <2>1, PushesNext
<1>5. \A x \in Vars : Pushes(code, f, x) # {} => x \in known
  BY <1>1, <1>4, TopKnown
<1>6. \A b \in Blocks : Feeds(prog, f, b) <=> Feeds(prog, Top, b)
  BY <1>1, <1>2 DEF Feeds
<1>. QED BY <1>1, <1>2, <1>5, <1>6, QuietPhis

\* Past the last instruction, and past the last successor.
LEMMA PhisDone ==
  ASSUME RenameInv, PhisInv, phase = "rename", frames # <<>>,
         UNCHANGED <<prog, code, phase, todo, var_val_stack, known>>,
         Top.at = "succs" \/ (Top.at = "instrs" /\ Top.i > Len(code[Top.bb])),
         NEW f \in Frames, frames' = Append(Front(frames), f),
         f.bb = Top.bb, f.kids = Top.kids, f.at \in {"succs", "kids"}, f.wait = Top.wait,
         \A b \in Blocks : IsPred(prog, f.bb, b) => (Feeds(prog, f, b) <=> Feeds(prog, Top, b))
  PROVE  PhisInv'
<1>1. Top \in Frames /\ Len(code[Top.bb]) \in Nat
  BY TopFields
<1>2. \A x : Pushes(code, f, x) = Pushes(code, Top, x)
  BY <1>1, PushesAll
<1>3. \A x \in Vars : Pushes(code, f, x) # {} => x \in known
  BY <1>2, TopKnown
<1>. QED BY <1>3, QuietPhis

LEMMA PhisInstrsDone ==
  ASSUME RenameInv, PhisInv, InstrsDone PROVE PhisInv'
<1> DEFINE f == [Top EXCEPT !.at = "succs", !.i = 1]
<1>1. phase = "rename" /\ frames # <<>> /\ Top.at = "instrs" /\ Top.i > Len(code[Top.bb])
  BY DEF InstrsDone, Renaming
<1>2. Top \in Frames
  BY <1>1, TopFields
<1>3. /\ f \in Frames /\ f.bb = Top.bb /\ f.kids = Top.kids /\ f.at = "succs" /\ f.i = 1
      /\ f.wait = Top.wait
  BY <1>2, FrameSuccs
<1>4. frames' = Append(Front(frames), f) /\ UNCHANGED <<prog, code, phase, todo, var_val_stack, known>>
  BY DEF InstrsDone, SetTop
<1>. HIDE DEF f
<1>5. \A b \in Blocks : ~Feeds(prog, f, b) /\ ~Feeds(prog, Top, b)
  <2>1. \A j \in Nat \ {0} : ~(j < 1)
    OBVIOUS
  <2>2. \A j \in 1 .. Len(prog.succ[f.bb]) : j \in Nat \ {0}
    <3>1. f.bb \in Blocks /\ prog \in Programs
      BY <1>1, <1>3, TopFields DEF RenameInv
    <3>2. prog.succ[f.bb] \in Seq(Blocks)
      BY <3>1, ProgramFields
    <3>. QED BY <3>2
  <2>. QED BY <1>1, <1>3, <2>1, <2>2 DEF Feeds
<1>. QED BY <1>1, <1>3, <1>4, <1>5, PhisDone

LEMMA PhisSuccsDone ==
  ASSUME RenameInv, PhisInv, SuccsDone PROVE PhisInv'
<1> DEFINE f == [Top EXCEPT !.at = "kids"]
<1>1. phase = "rename" /\ frames # <<>> /\ Top.at = "succs" /\ Top.i > Len(prog.succ[Top.bb])
  BY DEF SuccsDone, Renaming
<1>2. Top \in Frames /\ Top.bb \in Blocks /\ prog \in Programs /\ Top.i \in Nat
  BY <1>1, TopFields DEF RenameInv
<1>3. /\ f \in Frames /\ f.bb = Top.bb /\ f.kids = Top.kids /\ f.at = "kids" /\ f.wait = Top.wait
  BY <1>2, FrameAt
<1>4. frames' = Append(Front(frames), f) /\ UNCHANGED <<prog, code, phase, todo, var_val_stack, known>>
  BY DEF SuccsDone, SetTop
<1>. HIDE DEF f
<1>5. ASSUME NEW b \in Blocks, IsPred(prog, Top.bb, b) PROVE Feeds(prog, Top, b)
  <2>1. prog.succ[Top.bb] \in Seq(Blocks)
    BY <1>2, ProgramFields
  <2>2. PICK j \in 1 .. Len(prog.succ[Top.bb]) : prog.succ[Top.bb][j] = b
    BY <1>5, <2>1 DEF IsPred, Range
  <2>3. j < Top.i
    BY <1>1, <1>2, <2>1, <2>2
  <2>. QED BY <1>1, <2>2, <2>3 DEF Feeds
<1>6. \A b \in Blocks : IsPred(prog, f.bb, b) => (Feeds(prog, f, b) <=> Feeds(prog, Top, b))
  BY <1>3, <1>5 DEF Feeds
<1>. QED BY <1>1, <1>3, <1>4, <1>6, PhisDone

LEMMA PhisPushPhis ==
  ASSUME RenameInv, PhisInv, PushPhis PROVE PhisInv'
<1> DEFINE f == [Top EXCEPT !.at = "instrs"]
<1>1. /\ phase = "rename" /\ frames # <<>> /\ Top.at = "phis" /\ UNCHANGED <<prog, code, phase, todo>>
      /\ frames' = Append(Front(frames), f)
      /\ known' = known \union {ins.var : ins \in Phis(Top.bb)}
  BY DEF PushPhis, Renaming, SetTop
<1>2. /\ Top \in Frames /\ DOMAIN code[Top.bb] = 1 .. Len(code[Top.bb]) /\ Top.i = 1
      /\ prog \in Programs /\ code \in Codes /\ AsBuilt(prog, code, Top.bb)
  <2>1. Top \in Frames /\ AsBuilt(prog, code, Top.bb) /\ DOMAIN code[Top.bb] = 1 .. Len(code[Top.bb])
    BY <1>1, TopFields
  <2>2. Top.at = "phis" => Top.i = 1
    BY <2>1 DEF Frames
  <2>. QED BY <1>1, <2>1, <2>2 DEF RenameInv
<1>3. /\ f \in Frames /\ f.bb = Top.bb /\ f.kids = Top.kids /\ f.at = "instrs" /\ f.i = 1
      /\ f.wait = Top.wait
  BY <1>2, FrameAt
<1>. HIDE DEF f
<1>4. ASSUME NEW x \in Vars, Pushes(code, f, x) # {} PROVE x \in known'
  <2>1. Pushes(code, f, x) = PhisOf(code, Top.bb, x)
    BY <1>1, <1>2, <1>3, PushesPhis, ZenonT(30)
  <2>2. PICK j \in 1 .. Len(code[Top.bb]) : code[Top.bb][j].op = "phi" /\ code[Top.bb][j].var = x
    BY <1>4, <2>1 DEF PhisOf
  <2>3. code[Top.bb][j] \in Phis(Top.bb)
    BY <1>2, <2>2 DEF Phis, Instrs, Range
  <2>. QED BY <1>1, <2>2, <2>3
<1>5. \A b \in Blocks : ~Feeds(prog, f, b) /\ ~Feeds(prog, Top, b)
  BY <1>1, <1>3 DEF Feeds
<1>. QED BY <1>1, <1>3, <1>4, <1>5, QuietPhis

LEMMA PhisPushStore ==
  ASSUME RenameInv, PhisInv, PushStore PROVE PhisInv'
<1>1. /\ Renaming("instrs") /\ Top.i <= Len(code[Top.bb]) /\ NextInstr(TRUE)
      /\ phase = "rename" /\ frames # <<>> /\ Top.at = "instrs" /\ Instr.op = "store"
      /\ UNCHANGED <<prog, code, phase, todo>> /\ known' = known \union {Instr.var}
  BY DEF PushStore, AtInstr, Renaming
<1>2. PICK f \in Frames :
        /\ frames' = Append(Front(frames), f)
        /\ f.bb = Top.bb /\ f.kids = Top.kids /\ f.at = "instrs" /\ f.i = Top.i + 1
        /\ f.wait = Top.wait \union {Instr.def}
        /\ Top.i \in 1 .. Len(code[Top.bb])
  BY <1>1, NextInstrFrame
<1>3. Top \in Frames /\ Top.bb \in Blocks /\ AsBuilt(prog, code, Top.bb) /\ prog \in Programs /\ code \in Codes
  BY <1>1, TopFields DEF RenameInv
<1>4. ASSUME NEW x \in Vars, Pushes(code, f, x) # {} PROVE x \in known'
  <2>1. Pushes(code, f, x) = IF code[Top.bb][Top.i].op = "store" /\ code[Top.bb][Top.i].var = x
                             THEN Pushes(code, Top, x) \union {Top.i} ELSE Pushes(code, Top, x)
    BY <1>1, <1>2, <1>3, PushesNext
  <2>2. Pushes(code, Top, x) # {} \/ Instr.var = x
    BY <1>4, <2>1 DEF Instr
  <2>. QED BY <1>1, <2>2, TopKnown
<1>5. \A b \in Blocks : Feeds(prog, f, b) <=> Feeds(prog, Top, b)
  BY <1>1, <1>2 DEF Feeds
<1>6. Instr.def[1] # "phi"
  BY <1>1, <1>2, <1>3, BuiltFields DEF Instr
<1>7. \A v \in f.wait : v \in Top.wait \/ v[1] # "phi"
  BY <1>2, <1>6
<1>8. known \subseteq known'
  BY <1>1
<1>. QED BY <1>1, <1>2, <1>4, <1>5, <1>7, <1>8, QuietPhis

\* Operands change in place.
LEMMA ReplacedPhis ==
  ASSUME NEW v, NEW w \in Operands, code \in Codes
  PROVE  SamePhis(code, ReplaceAllUses(v, w))
<1> DEFINE e == ReplaceAllUses(v, w)
<1>1. ASSUME NEW b \in Blocks
      PROVE  Len(e[b]) = Len(code[b]) /\ \A i \in 1 .. Len(code[b]) : SamePhi(e[b][i], code[b][i])
  <2>1. /\ Len(code[b]) \in Nat /\ DOMAIN code[b] = 1 .. Len(code[b])
        /\ \A i \in 1 .. Len(code[b]) : code[b][i] \in Instructions
    BY CodeFields
  <2>2. e[b] = [i \in 1 .. Len(code[b]) |-> Redirect(code[b][i], v, w)]
    BY <2>1 DEF ReplaceAllUses
  <2>. HIDE DEF e
  <2>3. ASSUME NEW i \in 1 .. Len(code[b]) PROVE SamePhi(e[b][i], code[b][i])
    <3> DEFINE old == code[b][i]
               new == Redirect(code[b][i], v, w)
    <3>1. old \in Instructions
      BY <2>1
    <3>2. /\ SameAccess(new, old) /\ Len(new.pairs) = Len(old.pairs)
          /\ \A j \in 1 .. Len(old.pairs) : new.pairs[j] =
               IF old.pairs[j][1] = v THEN <<w, old.pairs[j][2]>> ELSE old.pairs[j]
      BY <3>1, Redirected
    <3>3. e[b][i] = new
      BY <2>2
    <3>. HIDE DEF old, new
    <3>4. ASSUME NEW j \in 1 .. Len(old.pairs) PROVE new.pairs[j][2] = old.pairs[j][2]
      <4>1. CASE old.pairs[j][1] = v
        <5>1. new.pairs[j] = <<w, old.pairs[j][2]>>
          BY <3>2, <4>1
        <5>. QED BY <5>1
      <4>2. CASE old.pairs[j][1] # v
        <5>1. new.pairs[j] = old.pairs[j]
          BY <3>2, <4>2
        <5>. QED BY <5>1
      <4>. QED BY <4>1, <4>2
    <3>. QED BY <3>2, <3>3, <3>4 DEF SamePhi, SameAccess, old
  <2>. QED BY <2>1, <2>2, <2>3
<1>. HIDE DEF e
<1>2. ASSUME NEW b \in Blocks
      PROVE  /\ \A i \in 1 .. Len(e[b]) : \E j \in 1 .. Len(code[b]) : SamePhi(e[b][i], code[b][j])
             /\ \A x : PhiIn(code, b, x) => PhiIn(e, b, x)
  <2>1. \A i \in 1 .. Len(e[b]) : \E j \in 1 .. Len(code[b]) : SamePhi(e[b][i], code[b][j])
    BY <1>1
  <2>2. ASSUME NEW x, PhiIn(code, b, x) PROVE PhiIn(e, b, x)
    <3>1. PICK i \in 1 .. Len(code[b]) : code[b][i].op = "phi" /\ code[b][i].var = x
      BY <2>2 DEF PhiIn
    <3>2. e[b][i].op = "phi" /\ e[b][i].var = x /\ i \in 1 .. Len(e[b])
      BY <1>1, <3>1 DEF SamePhi
    <3>. QED BY <3>2 DEF PhiIn
  <2>. QED BY <2>1, <2>2
<1>3. SamePhis(code, e)
  BY <1>2 DEF SamePhis
<1>. QED BY <1>3 DEF e

LEMMA PhisReplaceLoad ==
  ASSUME RenameInv, PhisInv, ReplaceLoad PROVE PhisInv'
<1> DEFINE x == Instr.var
           v == Instr.def
           w == Last(var_val_stack[x])
<1>1. /\ Renaming("instrs") /\ Top.i <= Len(code[Top.bb]) /\ Instr.op = "load" /\ x \in known
      /\ phase = "rename" /\ frames # <<>> /\ Top.at = "instrs" /\ NextInstr(TRUE)
      /\ UNCHANGED <<prog, todo, var_val_stack, known>>
  BY DEF ReplaceLoad, AtInstr, Renaming
<1>2. PICK f \in Frames :
        /\ frames' = Append(Front(frames), f)
        /\ f.bb = Top.bb /\ f.kids = Top.kids /\ f.at = "instrs" /\ f.i = Top.i + 1
        /\ f.wait = Top.wait \union {v}
        /\ Top.i \in 1 .. Len(code[Top.bb])
  BY <1>1, NextInstrFrame
<1>3. /\ Top \in Frames /\ Top.bb \in Blocks /\ AsBuilt(prog, code, Top.bb) /\ prog \in Programs
      /\ code \in Codes /\ known \subseteq Vars /\ frames \in Seq(Frames)
      /\ Stacks(code, frames, var_val_stack)
  BY <1>1, TopFields DEF RenameInv
<1>4. \A y : Pushes(code, f, y) = Pushes(code, Top, y)
  <2>1. code[Top.bb][Top.i].op # "store"
    BY <1>1 DEF Instr
  <2>. QED BY <1>1, <1>2, <1>3, <2>1, PushesNext
<1>5. \A b \in Blocks : Feeds(prog, f, b) <=> Feeds(prog, Top, b)
  BY <1>1, <1>2 DEF Feeds
<1>6. \A u \in f.wait : u \in Top.wait \/ u[1] # "phi"
  <2>1. v[1] # "phi"
    BY <1>1, <1>2, <1>3, BuiltFields DEF Instr
  <2>. QED BY <1>2, <2>1
<1>7. \A y \in Vars : Pushes(code, f, y) # {} => y \in known'
  BY <1>1, <1>4, TopKnown
<1>8. CASE UNCHANGED code
  <2>1. phase' # "place"
    BY <1>1 DEF ReplaceLoad
  <2>. QED BY <1>1, <1>2, <1>5, <1>6, <1>7, <1>8, <2>1, QuietPhis
<1>9. CASE ~UNCHANGED code
  <2>1. var_val_stack[x] # <<>> /\ code' = ReplaceAllUses(v, w) /\ phase' = phase
    BY <1>9 DEF ReplaceLoad
  <2>2. w \in Operands
    BY <1>1, <1>3, <2>1, StackTop
  <2>3. code' \in Codes /\ SameShape(code, code') /\ SamePhis(code, code')
    BY <1>3, <2>1, <2>2, Replaced, ReplacedPhis
  <2>4. \A y : Pushes(code', f, y) = Pushes(code, f, y)
    BY <1>3, <2>3, ShapeKept
  <2>. QED BY <1>1, <1>2, <1>5, <1>6, <1>7, <2>1, <2>3, <2>4, InnerPhis
<1>. QED BY <1>8, <1>9

LEMMA PhisKeepLoad ==
  ASSUME RenameInv, PhisInv, KeepLoad PROVE PhisInv'
<1>1. AtInstr({"load", "alloca", "use", "phi"}) /\ NextInstr(FALSE)
  BY DEF KeepLoad, AtInstr
<1>. QED BY <1>1, PhisSkip DEF KeepLoad

LEMMA PhisSkipInstr ==
  ASSUME RenameInv, PhisInv, SkipInstr PROVE PhisInv'
<1>1. AtInstr({"load", "alloca", "use", "phi"}) /\ NextInstr(FALSE)
  BY DEF SkipInstr, AtInstr
<1>. QED BY <1>1, PhisSkip DEF SkipInstr

\* The innermost call has not come to this successor before, and no other call
\* is on its block.
LEMMA NotFedYet ==
  ASSUME NEW p \in Programs, NEW fs, Tree(p, fs), fs # <<>>, NEW f, f = Last(fs), f.at = "succs",
         f.i \in 1 .. Len(p.succ[f.bb])
  PROVE  ~Fed(p, fs, f.bb, p.succ[f.bb][f.i])
<1> DEFINE n == Len(fs)
           s == p.succ[f.bb][f.i]
<1>1. fs \in Seq(Frames) /\ n \in Nat \ {0} /\ f = fs[n] /\ n \in 1 .. n
  BY DEF Tree, Last
<1>2. f.bb \in Blocks /\ f.i \in Nat
  BY <1>1, FrameFields
<1>3. ~Left(p, fs, f.bb)
  BY <1>1 DEF Left, Open
<1>4. ASSUME NEW k \in 1 .. n, fs[k].bb = f.bb PROVE k = n
  <2>1. \A m \in 1 .. n : k < m => fs[k].bb # fs[m].bb
    BY DEF Tree
  <2>. QED BY <1>1, <1>4, <2>1
<1>5. ~Feeds(p, f, s)
  <2>1. p.succ[f.bb] \in Seq(Blocks) /\ IsInjective(p.succ[f.bb])
    BY <1>2, ProgramFields
  <2>2. \A j \in 1 .. Len(p.succ[f.bb]) : p.succ[f.bb][j] = s => j = f.i
    BY <2>1, SMTT(30) DEF IsInjective
  <2>. QED BY <1>2, <2>2 DEF Feeds
<1>. QED BY <1>1, <1>3, <1>4, <1>5 DEF Fed

\* Where a definition reaches the end of the innermost call's block, the
\* variable is known.
LEMMA ReachedIsKnown ==
  ASSUME RenameInv, PhisInv, phase = "rename", frames # <<>>, Top.at = "succs",
         NEW x \in Vars, Reaches(prog, code, x, Top.bb)
  PROVE  x \in known
<1> DEFINE n == Len(frames)
<1>1. /\ frames \in Seq(Frames) /\ n \in Nat \ {0} /\ n \in 1 .. n /\ Top = frames[n]
      /\ prog \in Programs /\ code \in Codes /\ Tree(prog, frames) /\ Built(prog, code, phase, frames)
      /\ PushedAreKnown(code, frames, known)
  BY TopFields DEF RenameInv, PhisInv, Running
<1>2. PICK d \in Blocks : Dom(prog, d, Top.bb) /\ Defines(prog, code, d, x)
  BY DEF Reaches
<1>3. PICK k \in 1 .. n : frames[k].bb = d
  BY <1>1, <1>2 DEF Tree
<1>4. frames[k].at \in {"succs", "kids"}
  BY <1>1 DEF Tree
<1>5. AsBuilt(prog, code, d)
  BY <1>1, <1>3 DEF Built, Open
<1>6. Pushes(code, frames[k], x) # {}
  <2>1. CASE PhiIn(code, d, x)
    BY <1>3, <1>4, <2>1 DEF PhiIn, Pushes
  <2>2. CASE \E j \in 1 .. Len(prog.code[d]) : prog.code[d][j].op = "store" /\ prog.code[d][j].var = x
    <3>1. PICK j \in 1 .. Len(prog.code[d]) : prog.code[d][j].op = "store" /\ prog.code[d][j].var = x
      BY <2>2
    <3>2. PICK i \in 1 .. Len(code[d]) : SameAccess(code[d][i], prog.code[d][j])
      BY <1>1, <1>5, BuiltFields
    <3>. QED BY <1>3, <1>4, <3>1, <3>2 DEF SameAccess, Pushes, Ran
  <2>. QED BY <1>2, <2>1, <2>2 DEF Defines
<1>. QED BY <1>1, <1>6 DEF PushedAreKnown

LEMMA FedFills ==
  ASSUME NEW p \in Programs, NEW fs \in Seq(Frames), fs # <<>>, NEW f \in Frames,
         f.bb = Last(fs).bb, f.kids = Last(fs).kids, f.at = "succs", Last(fs).at = "succs",
         f.i = Last(fs).i + 1, Last(fs).i \in 1 .. Len(p.succ[f.bb])
  PROVE  \A a, b \in Blocks :
           Fed(p, Append(Front(fs), f), a, b) <=>
             Fed(p, fs, a, b) \/ (a = f.bb /\ b = p.succ[f.bb][Last(fs).i])
<1> DEFINE new == Append(Front(fs), f)
           n == Len(fs)
           s == p.succ[f.bb][Last(fs).i]
<1>1. /\ Len(new) = n /\ n \in Nat \ {0} /\ n \in 1 .. n /\ new[n] = f
      /\ \A k \in 1 .. n : k # n => new[k] = fs[k]
      /\ Last(fs) = fs[n]
  BY SetLast DEF Last
<1>. HIDE DEF new
<1>2. \A k \in 1 .. n : new[k].bb = fs[k].bb /\ new[k].kids = fs[k].kids
  BY <1>1
<1>3. \A b \in Blocks : Left(p, new, b) <=> Left(p, fs, b)
  BY <1>1, <1>2 DEF Left, Open, ToCome
<1>4. ASSUME NEW b \in Blocks PROVE Feeds(p, f, b) <=> Feeds(p, fs[n], b) \/ b = s
  <2>1. fs[n].i \in Nat /\ p.succ[f.bb] \in Seq(Blocks)
    <3>1. fs[n].bb \in Blocks /\ fs[n].i \in Nat
      BY <1>1, FrameFields
    <3>. QED BY <1>1, <3>1, ProgramFields
  <2>2. \A j \in 1 .. Len(p.succ[f.bb]) : j < f.i <=> j < fs[n].i \/ j = fs[n].i
    BY <1>1, <2>1
  <2>. QED BY <1>1, <2>2 DEF Feeds
<1>5. ASSUME NEW a \in Blocks, NEW b \in Blocks
      PROVE  Fed(p, new, a, b) <=> Fed(p, fs, a, b) \/ (a = f.bb /\ b = s)
  <2>1. ASSUME Fed(p, new, a, b) PROVE Fed(p, fs, a, b) \/ (a = f.bb /\ b = s)
    <3>1. CASE Left(p, new, a)
      BY <1>3, <3>1 DEF Fed
    <3>2. CASE \E k \in 1 .. n : new[k].bb = a /\ Feeds(p, new[k], b)
      <4>1. PICK k \in 1 .. n : new[k].bb = a /\ Feeds(p, new[k], b)
        BY <3>2
      <4>2. CASE k = n
        BY <1>1, <1>2, <1>4, <4>1, <4>2 DEF Fed
      <4>3. CASE k # n
        BY <1>1, <4>1, <4>3 DEF Fed
      <4>. QED BY <4>2, <4>3
    <3>. QED BY <1>1, <2>1, <3>1, <3>2 DEF Fed
  <2>2. ASSUME Fed(p, fs, a, b) PROVE Fed(p, new, a, b)
    <3>1. CASE Left(p, fs, a)
      BY <1>3, <3>1 DEF Fed
    <3>2. CASE \E k \in 1 .. n : fs[k].bb = a /\ Feeds(p, fs[k], b)
      <4>1. PICK k \in 1 .. n : fs[k].bb = a /\ Feeds(p, fs[k], b)
        BY <3>2
      <4>2. Feeds(p, new[k], b) /\ new[k].bb = a
        BY <1>1, <1>2, <1>4, <4>1
      <4>. QED BY <1>1, <4>2 DEF Fed
    <3>. QED BY <2>2, <3>1, <3>2 DEF Fed
  <2>3. ASSUME a = f.bb, b = s PROVE Fed(p, new, a, b)
    <3>1. Feeds(p, new[n], b) /\ new[n].bb = a
      BY <1>1, <1>4, <2>3
    <3>. QED BY <1>1, <3>1 DEF Fed
  <2>. QED BY <2>1, <2>2, <2>3
<1>. QED BY <1>5 DEF new

\* What FillPhis does to the phis.
PhiFilled(new, old, kn, t) ==
  /\ new.op = old.op /\ new.var = old.var
  /\ old.var \in kn => /\ Len(new.pairs) = Len(old.pairs) + 1 /\ new.pairs[Len(old.pairs) + 1][2] = t
                       /\ \A m \in 1 .. Len(old.pairs) : new.pairs[m][2] = old.pairs[m][2]
  /\ old.var \notin kn => new.pairs = old.pairs

LEMMA FilledRight ==
  ASSUME NEW p, NEW c, NEW e, NEW fs, NEW new, NEW kn, NEW t \in Blocks, NEW s \in Blocks,
         NEW old, NEW phi, IsPred(p, t, s), ~Fed(p, fs, t, s),
         Len(old.pairs) \in Nat, PhiFilled(phi, old, kn, t), PhiRight(p, c, fs, s, old),
         \A a \in Blocks : Fed(p, new, a, s) <=> Fed(p, fs, a, s) \/ a = t,
         \A x, a : Reaches(p, e, x, a) <=> Reaches(p, c, x, a),
         Reaches(p, c, old.var, t) => old.var \in kn
  PROVE  PhiRight(p, e, new, s, phi)
<1>1. CASE old.var \in kn
  <2> DEFINE m == Len(old.pairs)
  <2>1. /\ m \in Nat /\ Len(phi.pairs) = m + 1 /\ phi.pairs[m + 1][2] = t /\ phi.var = old.var
        /\ \A j \in 1 .. m : phi.pairs[j][2] = old.pairs[j][2]
    BY <1>1 DEF PhiFilled
  <2>2. /\ \A j \in 1 .. m + 1 : j \in 1 .. m \/ j = m + 1
        /\ \A j \in 1 .. m : j \in 1 .. m + 1
        /\ m + 1 \in 1 .. m + 1
    BY <2>1
  <2>3. \A a \in Blocks : PairOf(phi, a) <=> PairOf(old, a) \/ a = t
    BY <2>1, <2>2 DEF PairOf
  <2>4. \A j \in 1 .. m : old.pairs[j][2] # t
    BY DEF PhiRight, PairOf
  <2>5. \A j, k \in 1 .. m : old.pairs[j][2] = old.pairs[k][2] => j = k
    BY DEF PhiRight
  <2>6. \A j, k \in 1 .. m + 1 : phi.pairs[j][2] = phi.pairs[k][2] => j = k
    BY <2>1, <2>2, <2>4, <2>5
  <2>7. \A a \in Blocks : PairOf(phi, a) => IsPred(p, a, s) /\ Fed(p, new, a, s)
    BY <2>3 DEF PhiRight
  <2>8. \A a \in Blocks : IsPred(p, a, s) /\ Fed(p, new, a, s) /\ Reaches(p, e, phi.var, a) => PairOf(phi, a)
    BY <2>1, <2>3 DEF PhiRight
  <2>. QED BY <2>1, <2>6, <2>7, <2>8 DEF PhiRight
<1>2. CASE old.var \notin kn
  <2>1. phi.var = old.var /\ phi.pairs = old.pairs
    BY <1>2 DEF PhiFilled
  <2>2. \A a \in Blocks : PairOf(phi, a) <=> PairOf(old, a)
    BY <2>1 DEF PairOf
  <2>. QED BY <1>2, <2>1, <2>2 DEF PhiRight
<1>. QED BY <1>1, <1>2

LEMMA PhisFillPhis ==
  ASSUME RenameInv, PhisInv, FillPhis PROVE PhisInv'
<1> DEFINE n == Len(frames)
           t == Top.bb
           s == prog.succ[t][Top.i]
           f == [Top EXCEPT !.i = @ + 1]
           new == Append(Front(frames), f)
           empty == \E ins \in Phis(s) : ins.var \in known /\ var_val_stack[ins.var] = <<>>
           e == [code EXCEPT ![s] = [i \in DOMAIN @ |-> Filled(@[i])]]
<1>1. /\ phase = "rename" /\ frames # <<>> /\ Top.at = "succs" /\ Top.i <= Len(prog.succ[t])
      /\ frames' = new /\ UNCHANGED <<prog, todo, var_val_stack, known>>
  BY DEF FillPhis, Renaming, SetTop
<1>2. /\ frames \in Seq(Frames) /\ n \in Nat \ {0} /\ n \in 1 .. n /\ Top = frames[n] /\ Top = Last(frames)
      /\ Top \in Frames /\ t \in Blocks /\ Top.i \in Nat \ {0} /\ Len(code[t]) \in Nat
  BY <1>1, TopFields DEF Top
<1>3. /\ f \in Frames /\ f.bb = t /\ f.kids = Top.kids /\ f.at = "succs" /\ f.i = Top.i + 1
      /\ f.wait = Top.wait
  BY <1>1, <1>2, FrameNext
<1>4. /\ prog \in Programs /\ code \in Codes /\ known \subseteq Vars /\ Tree(prog, frames)
      /\ Stacks(code, frames, var_val_stack)
      /\ WaitsKeepPhis(frames) /\ PushedAreKnown(code, frames, known)
      /\ QueuedDefine(prog, code, todo) /\ PhisRight(prog, code, phase, frames)
  BY <1>1 DEF RenameInv, PhisInv, Running
<1>5. s \in Blocks /\ IsPred(prog, t, s) /\ Top.i \in 1 .. Len(prog.succ[t])
  <2>1. prog.succ[t] \in Seq(Blocks)
    BY <1>2, <1>4, ProgramFields
  <2>2. DOMAIN prog.succ[t] = 1 .. Len(prog.succ[t]) /\ Len(prog.succ[t]) \in Nat
    BY <2>1
  <2>3. Top.i \in 1 .. Len(prog.succ[t])
    BY <1>1, <1>2, <2>2
  <2>4. s \in Blocks
    BY <2>1, <2>3
  <2>5. s \in Range(prog.succ[t])
    BY <2>2, <2>3 DEF Range
  <2>. QED BY <2>3, <2>4, <2>5 DEF IsPred
<1>. HIDE DEF f
<1>6. CASE empty
  <2>1. phase' = "assert"
    BY <1>6 DEF FillPhis
  <2>. QED BY <2>1 DEF PhisInv, Running
<1>7. CASE ~empty
  <2>1. code' = e /\ phase' = phase
    BY <1>7 DEF FillPhis
  <2>2. /\ DOMAIN code[s] = 1 .. Len(code[s])
        /\ \A i \in 1 .. Len(code[s]) : code[s][i] \in Instructions
    BY <1>4, <1>5, CodeFields
  <2>3. e = [b \in Blocks |-> IF b = s THEN [i \in 1 .. Len(code[s]) |-> Filled(code[s][i])] ELSE code[b]]
    BY <1>4, <2>2 DEF Codes
  <2>. HIDE DEF e
  <2>4. ASSUME NEW i \in 1 .. Len(code[s])
        PROVE  /\ SameAccess(Filled(code[s][i]), code[s][i])
               /\ code[s][i].op = "phi" => PhiFilled(Filled(code[s][i]), code[s][i], known, t)
               /\ Len(code[s][i].pairs) \in Nat
    <3> DEFINE ins == code[s][i]
               x == ins.var
    <3>1. ASSUME ins.op = "phi", x \in known PROVE Last(var_val_stack[x]) \in Operands
      <4>1. ins \in Phis(s)
        BY <2>2, <3>1 DEF Phis, Instrs, Range
      <4>2. var_val_stack[x] # <<>>
        BY <1>7, <3>1, <4>1
      <4>. QED BY <1>1, <1>2, <1>4, <3>1, <4>2, StackTop
    <3>2. ins \in Instructions
      BY <2>2
    <3>. HIDE DEF ins, x
    <3>3. ins.pairs \in Seq(Operands \X Blocks) /\ Len(ins.pairs) \in Nat
      <4>1. ins.pairs \in Seq(Operands \X Blocks)
        BY <3>2, InstructionFields
      <4>. QED BY <4>1
    <3>4. ins.op = "phi" /\ ins.var \in known => Last(var_val_stack[ins.var]) \in Operands
      BY <3>1 DEF x
    <3>5. /\ SameAccess(Filled(ins), ins)
          /\ ins.op = "phi" /\ ins.var \in known =>
               Filled(ins).pairs = Append(ins.pairs, <<Last(var_val_stack[ins.var]), Top.bb>>)
          /\ ~(ins.op = "phi" /\ ins.var \in known) => Filled(ins) = ins
      BY <1>2, <3>2, <3>4, FilledFields
    <3>6. ASSUME ins.op = "phi" PROVE PhiFilled(Filled(ins), ins, known, t)
      <4>1. CASE ins.var \in known
        <5> DEFINE q == <<Last(var_val_stack[ins.var]), Top.bb>>
        <5>1. Filled(ins).pairs = Append(ins.pairs, q) /\ q[2] = t /\ q \in Operands \X Blocks
          BY <1>2, <3>4, <3>5, <3>6, <4>1
        <5>. HIDE DEF q
        <5>2. /\ Len(Filled(ins).pairs) = Len(ins.pairs) + 1
              /\ Filled(ins).pairs[Len(ins.pairs) + 1] = q
              /\ \A m \in 1 .. Len(ins.pairs) : Filled(ins).pairs[m] = ins.pairs[m]
          BY <3>3, <5>1
        <5>. QED BY <3>5, <4>1, <5>1, <5>2 DEF PhiFilled, SameAccess
      <4>2. CASE ins.var \notin known
        BY <3>5, <4>2 DEF PhiFilled, SameAccess
      <4>. QED BY <4>1, <4>2
    <3>. QED BY <3>3, <3>5, <3>6 DEF ins
  <2>5. /\ Len(e[s]) = Len(code[s]) /\ \A i \in 1 .. Len(code[s]) : e[s][i] = Filled(code[s][i])
        /\ \A b \in Blocks : b # s => e[b] = code[b]
    <3> DEFINE m == Len(code[s])
    <3>1. m \in Nat
      BY <1>4, <1>5, CodeFields
    <3>2. e[s] = [i \in 1 .. m |-> Filled(code[s][i])] /\ \A b \in Blocks : b # s => e[b] = code[b]
      BY <1>5, <2>3
    <3>. HIDE DEF m
    <3>3. Len(e[s]) = m /\ \A i \in 1 .. m : e[s][i] = Filled(code[s][i])
      BY <3>1, <3>2
    <3>. QED BY <3>2, <3>3 DEF m
  <2>6. ASSUME NEW b \in Blocks
        PROVE  Len(e[b]) = Len(code[b]) /\ \A i \in 1 .. Len(code[b]) : SameAccess(e[b][i], code[b][i])
    <3>1. CASE b = s
      BY <2>4, <2>5, <3>1
    <3>2. CASE b # s
      BY <2>5, <3>2 DEF SameAccess
    <3>. QED BY <3>1, <3>2
  <2>7. \A b \in Blocks : \A x : PhiIn(e, b, x) <=> PhiIn(code, b, x)
    BY <2>6 DEF PhiIn, SameAccess
  <2>8. \A x, a : Reaches(prog, e, x, a) <=> Reaches(prog, code, x, a)
    BY <2>7 DEF Reaches, Defines
  <2>9. \A a, b \in Blocks : Fed(prog, new, a, b) <=> Fed(prog, frames, a, b) \/ (a = t /\ b = s)
    BY <1>1, <1>2, <1>3, <1>4, <1>5, FedFills
  <2>10. ~Fed(prog, frames, t, s)
    BY <1>1, <1>2, <1>4, <1>5, NotFedYet
  <2>. HIDE DEF new
  <2>11. ASSUME NEW b \in Blocks, NEW i \in 1 .. Len(e[b]), e[b][i].op = "phi"
         PROVE  /\ e[b][i].var \in Vars
                /\ \E a \in Blocks : IsPred(prog, a, b) /\ Reaches(prog, e, e[b][i].var, a)
                /\ PhiRight(prog, e, new, b, e[b][i])
    <3> DEFINE old == code[b][i]
               phi == e[b][i]
    <3>1. i \in 1 .. Len(code[b]) /\ old.op = "phi" /\ old.var = phi.var
      BY <2>6, <2>11 DEF SameAccess
    <3>2. /\ old.var \in Vars /\ \E a \in Blocks : IsPred(prog, a, b) /\ Reaches(prog, code, old.var, a)
          /\ PhiRight(prog, code, frames, b, old)
      BY <1>1, <1>4, <3>1 DEF PhisRight
    <3>3. /\ phi.var \in Vars /\ \E a \in Blocks : IsPred(prog, a, b) /\ Reaches(prog, e, phi.var, a)
      BY <2>8, <3>1, <3>2
    <3>4. PhiRight(prog, e, new, b, phi)
      <4>1. CASE b = s
        <5>1. PhiFilled(phi, old, known, t) /\ Len(old.pairs) \in Nat
          BY <2>4, <2>5, <3>1, <4>1
        <5>2. Reaches(prog, code, old.var, t) => old.var \in known
          BY <1>1, <3>2, ReachedIsKnown
        <5>3. \A a \in Blocks : Fed(prog, new, a, s) <=> Fed(prog, frames, a, s) \/ a = t
          BY <1>5, <2>9
        <5>4. PhiRight(prog, code, frames, s, old)
          BY <3>2, <4>1
        <5>. HIDE DEF old, phi, s, t
        <5>5. PhiRight(prog, e, new, s, phi)
          BY <1>2, <1>5, <2>8, <2>10, <5>1, <5>2, <5>3, <5>4, FilledRight
        <5>. QED BY <4>1, <5>5
      <4>2. CASE b # s
        <5>1. phi = old
          BY <2>5, <4>2
        <5>2. \A a \in Blocks : Fed(prog, new, a, b) <=> Fed(prog, frames, a, b)
          BY <2>9, <4>2
        <5>. HIDE DEF old, phi
        <5>. QED BY <2>8, <3>2, <5>1, <5>2 DEF PhiRight
      <4>. QED BY <4>1, <4>2
    <3>. QED BY <3>3, <3>4
  <2>12. PhisRight(prog, e, phase', new)
    BY <1>1, <2>1, <2>11 DEF PhisRight
  <2>13. Len(new) = n /\ new[n] = f /\ \A k \in 1 .. n : k # n => new[k] = frames[k]
    <3>1. frames # <<>>
      BY <1>1
    <3>. QED BY <1>2, <1>3, <3>1, SetLast DEF new
  <2>14. WaitsKeepPhis(new)
    <3>1. \A k \in 1 .. n : new[k].wait = frames[k].wait
      BY <1>2, <1>3, <2>13
    <3>. QED BY <1>4, <2>13, <3>1 DEF WaitsKeepPhis
  <2>15. PushedAreKnown(e, new, known)
    <3>1. \A x : Pushes(code, f, x) = Pushes(code, Top, x)
      BY <1>1, <1>2, <1>3, PushesAll
    <3>2. \A k \in 1 .. n : new[k].bb \in Blocks
      <4>1. \A k \in 1 .. n : frames[k].bb \in Blocks
        BY <1>2, FrameFields
      <4>. QED BY <1>2, <1>3, <2>13, <4>1
    <3>3. ASSUME NEW k \in 1 .. n, NEW x \in Vars PROVE Pushes(e, new[k], x) = Pushes(code, frames[k], x)
      <4>1. Pushes(e, new[k], x) = Pushes(code, new[k], x)
        BY <2>6, <3>2 DEF Pushes, SameAccess
      <4>2. CASE k = n
        BY <1>2, <2>13, <3>1, <4>1, <4>2
      <4>3. CASE k # n
        BY <2>13, <4>1, <4>3
      <4>. QED BY <4>2, <4>3
    <3>. QED BY <1>4, <2>13, <3>3 DEF PushedAreKnown
  <2>16. QueuedDefine(prog, e, todo)
    <3>1. \A w \in todo : w.bb \in Blocks
      BY DEF RenameInv
    <3>. QED BY <1>4, <2>7, <3>1 DEF QueuedDefine, Defines
  <2>. QED BY <1>1, <2>1, <2>12, <2>14, <2>15, <2>16 DEF PhisInv
<1>. QED BY <1>6, <1>7

LEMMA PhisEnterChild ==
  ASSUME RenameInv, PhisInv, EnterChild PROVE PhisInv'
<1>1. /\ phase = "rename" /\ frames # <<>> /\ Top.at = "kids"
      /\ UNCHANGED <<prog, code, phase, todo, var_val_stack, known>>
  BY DEF EnterChild, Renaming
<1>2. PICK b \in Top.kids :
        frames' = Append(Append(Front(frames), [Top EXCEPT !.kids = @ \ {b}]), Call(b))
  BY DEF EnterChild
<1> DEFINE n == Len(frames)
           f == [Top EXCEPT !.kids = @ \ {b}]
           call == NewCall(prog, b)
           mid == Append(Front(frames), f)
           new == Append(mid, call)
<1>3. frames' = new
  BY <1>2 DEF Call, NewCall
<1>4. /\ frames \in Seq(Frames) /\ n \in Nat \ {0} /\ Top = Last(frames) /\ Top = frames[n]
      /\ Top \in Frames /\ b \in Blocks
  BY <1>1, TopFields DEF Top
<1>5. f \in Frames /\ f.bb = Top.bb /\ f.kids = Top.kids \ {b} /\ f.at = "kids" /\ f.wait = Top.wait
  BY <1>1, <1>4, FrameKids
<1>6. /\ prog \in Programs /\ code \in Codes /\ Tree(prog, frames)
      /\ WaitsKeepPhis(frames) /\ PushedAreKnown(code, frames, known)
      /\ QueuedDefine(prog, code, todo) /\ PhisRight(prog, code, phase, frames)
  BY <1>1 DEF RenameInv, PhisInv, Running
<1>. HIDE DEF f
<1>7. /\ Tree(prog, new)
      /\ \A d \in Blocks : /\ Open(new, d) <=> Open(frames, d) \/ d = b
                           /\ ToCome(prog, new, d) \/ d = b <=> ToCome(prog, frames, d)
  <2>1. new = Append(Append(Front(frames), f), NewCall(prog, b))
    OBVIOUS
  <2>2. /\ frames # <<>> /\ Last(frames).at = "kids" /\ b \in Last(frames).kids /\ f.bb = Last(frames).bb
        /\ f.kids = Last(frames).kids \ {b} /\ f.at = "kids" /\ f \in Frames
        /\ prog \in Programs /\ Tree(prog, frames)
    BY <1>1, <1>2, <1>4, <1>5, <1>6
  <2>. HIDE DEF mid, new
  <2>. QED BY <2>1, <2>2, TreeEntered
<1>8. /\ mid \in Seq(Frames) /\ Len(mid) = n /\ mid[n] = f
      /\ \A k \in 1 .. n : k # n => mid[k] = frames[k]
  BY <1>1, <1>4, <1>5, SetLast
<1>9. call \in Frames /\ call.at = "phis" /\ call.bb = b /\ call.wait = {}
  BY <1>4, <1>6, NewCallType DEF NewCall
<1>. HIDE DEF mid, call
<1>10. Len(new) = n + 1 /\ new[n + 1] = call /\ \A k \in 1 .. n : new[k] = mid[k]
  BY <1>4, <1>8, <1>9
<1>11. /\ n \in 1 .. n /\ \A k \in 1 .. n + 1 : k \in 1 .. n \/ k = n + 1
       /\ \A k \in 1 .. n : k \in 1 .. n + 1
  BY <1>4
<1>. HIDE DEF new
<1>12. ASSUME NEW k \in 1 .. n
       PROVE  /\ new[k].bb = frames[k].bb /\ new[k].wait = frames[k].wait
              /\ \A d \in Blocks : Feeds(prog, new[k], d) <=> Feeds(prog, frames[k], d)
              /\ \A x : Pushes(code, new[k], x) = Pushes(code, frames[k], x)
  <2>1. CASE k = n
    <3>1. Feeds(prog, f, b) /\ \A d \in Blocks : Feeds(prog, f, d) /\ Feeds(prog, Top, d)
      BY <1>1, <1>5 DEF Feeds
    <3>2. \A x : Pushes(code, f, x) = Pushes(code, Top, x)
      <4>1. Len(code[Top.bb]) \in Nat
        BY <1>1, TopFields
      <4>. QED BY <1>1, <1>4, <1>5, <4>1, PushesAll
    <3>. QED BY <1>4, <1>5, <1>8, <1>10, <2>1, <3>1, <3>2
  <2>2. CASE k # n
    BY <1>8, <1>10, <2>2
  <2>. QED BY <2>1, <2>2
<1>13. \A d \in Blocks : Left(prog, new, d) <=> Left(prog, frames, d)
  BY <1>7 DEF Left
<1>14. \A d \in Blocks : ~Feeds(prog, call, d)
  BY <1>9 DEF Feeds
<1>15. ASSUME NEW a \in Blocks, NEW d \in Blocks PROVE Fed(prog, new, a, d) <=> Fed(prog, frames, a, d)
  BY <1>10, <1>11, <1>12, <1>13, <1>14 DEF Fed
<1>16. PhisRight(prog, code, phase, new)
  <2>1. FedSame(prog, frames, new)
    BY <1>15 DEF FedSame
  <2>. QED BY <1>1, <1>6, <2>1, PhisUnchanged, PhisCarried
<1>17. WaitsKeepPhis(new)
  BY <1>6, <1>9, <1>10, <1>11, <1>12 DEF WaitsKeepPhis
<1>18. PushedAreKnown(code, new, known)
  <2>1. \A x : Pushes(code, call, x) = {}
    BY <1>9 DEF Pushes, Ran
  <2>. QED BY <1>6, <1>10, <1>11, <1>12, <2>1 DEF PushedAreKnown
<1>. QED BY <1>1, <1>3, <1>6, <1>16, <1>17, <1>18 DEF PhisInv

\* Deleting instructions that are no phis.
LEMMA KeptPhis ==
  ASSUME NEW s \in Seq(Instructions), NEW K, \A i \in 1 .. Len(s) : s[i].op = "phi" => s[i] \in K
  PROVE  LET r == Kept(s, K)
         IN  /\ r \in Seq(Instructions)
             /\ \A i \in 1 .. Len(r) : \E j \in 1 .. Len(s) : r[i] = s[j]
             /\ \A j \in 1 .. Len(s) : s[j].op = "phi" => \E i \in 1 .. Len(r) : r[i] = s[j]
<1> DEFINE r == Kept(s, K)
<1>1. r \in Seq(Instructions) /\ Selects(r, s, K, Len(s))
  BY KeptSelects
<1>. HIDE DEF r
<1>2. \A i \in 1 .. Len(r) : \E j \in 1 .. Len(s) : r[i] = s[j]
  BY <1>1 DEF Selects
<1>3. \A j \in 1 .. Len(s) : s[j].op = "phi" => \E i \in 1 .. Len(r) : r[i] = s[j]
  BY <1>1 DEF Selects
<1>. QED BY <1>1, <1>2, <1>3 DEF r

LEMMA SubsetPhis ==
  ASSUME NEW c, NEW e,
         \A b \in Blocks : /\ \A i \in 1 .. Len(e[b]) : \E j \in 1 .. Len(c[b]) : e[b][i] = c[b][j]
                           /\ \A j \in 1 .. Len(c[b]) : c[b][j].op = "phi" =>
                                \E i \in 1 .. Len(e[b]) : e[b][i] = c[b][j]
  PROVE  SamePhis(c, e)
<1>1. ASSUME NEW b \in Blocks, NEW x, PhiIn(c, b, x) PROVE PhiIn(e, b, x)
  <2>1. PICK j \in 1 .. Len(c[b]) : c[b][j].op = "phi" /\ c[b][j].var = x
    BY <1>1 DEF PhiIn
  <2>2. PICK i \in 1 .. Len(e[b]) : e[b][i] = c[b][j]
    BY <2>1
  <2>. QED BY <2>1, <2>2 DEF PhiIn
<1>2. ASSUME NEW b \in Blocks, NEW i \in 1 .. Len(e[b])
      PROVE  \E j \in 1 .. Len(c[b]) : SamePhi(e[b][i], c[b][j])
  BY DEF SamePhi
<1>. QED BY <1>1, <1>2 DEF SamePhis

LEMMA PhisRemoveAlloca ==
  ASSUME RenameInv, PhisInv, RemoveAlloca PROVE PhisInv'
<1>1. /\ phase = "rename" /\ frames = <<>> /\ phase' = "done"
      /\ UNCHANGED <<prog, todo, frames, var_val_stack, known>>
      /\ code' = [b \in Blocks |-> Kept(code[b], {ins \in Instrs(b) : ins.op # "alloca"})]
  BY DEF RemoveAlloca
<1>2. /\ prog \in Programs /\ code \in Codes
      /\ WaitsKeepPhis(frames) /\ PushedAreKnown(code, frames, known)
      /\ QueuedDefine(prog, code, todo) /\ PhisRight(prog, code, phase, frames)
      /\ todo \subseteq [var : Vars, bb : Blocks]
  BY <1>1 DEF RenameInv, PhisInv, Running
<1>3. ASSUME NEW b \in Blocks
      PROVE  /\ \A i \in 1 .. Len(code'[b]) : \E j \in 1 .. Len(code[b]) : code'[b][i] = code[b][j]
             /\ \A j \in 1 .. Len(code[b]) : code[b][j].op = "phi" =>
                  \E i \in 1 .. Len(code'[b]) : code'[b][i] = code[b][j]
  <2> DEFINE K == {ins \in Instrs(b) : ins.op # "alloca"}
             s == code[b]
  <2>1. s \in Seq(Instructions) /\ DOMAIN s = 1 .. Len(s)
    BY <1>2, CodeFields
  <2>2. \A i \in 1 .. Len(s) : s[i].op = "phi" => s[i] \in K
    BY <2>1 DEF Instrs, Range
  <2>3. code'[b] = Kept(s, K)
    BY <1>1
  <2>. HIDE DEF K, s
  <2>4. /\ \A i \in 1 .. Len(Kept(s, K)) : \E j \in 1 .. Len(s) : Kept(s, K)[i] = s[j]
        /\ \A j \in 1 .. Len(s) : s[j].op = "phi" => \E i \in 1 .. Len(Kept(s, K)) : Kept(s, K)[i] = s[j]
    <3>1. s \in Seq(Instructions) /\ \A i \in 1 .. Len(s) : s[i].op = "phi" => s[i] \in K
      BY <2>1, <2>2
    <3>. QED BY <3>1, KeptPhis
  <2>. QED BY <2>3, <2>4 DEF s
<1>4. SamePhis(code, code')
  BY <1>3, SubsetPhis
<1>5. PhisRight(prog, code', "done", frames)
  <2>1. FedSame(prog, frames, frames)
    BY DEF FedSame
  <2>. QED BY <1>1, <1>2, <1>4, <2>1, PhisCarried
<1>6. Len(<<>>) = 0 /\ 1 .. 0 = {}
  OBVIOUS
<1>7. WaitsKeepPhis(<<>>) /\ PushedAreKnown(code', <<>>, known)
  BY <1>6 DEF WaitsKeepPhis, PushedAreKnown
<1>8. QueuedDefine(prog, code', todo)
  <2>1. \A b \in Blocks : \A x : PhiIn(code, b, x) => PhiIn(code', b, x)
    BY <1>4 DEF SamePhis
  <2>2. \A w \in todo : w.bb \in Blocks
    BY <1>2
  <2>. QED BY <1>2, <2>1, <2>2 DEF QueuedDefine, Defines
<1>. QED BY <1>1, <1>5, <1>7, <1>8 DEF PhisInv

LEMMA PhisLeave ==
  ASSUME RenameInv, PhisInv, Leave PROVE PhisInv'
<1> DEFINE n == Len(frames)
           t == Top.bb
           new == Front(frames)
           K == {ins \in Range(code[t]) : ins.def \notin Top.wait}
           e == [code EXCEPT ![t] = Kept(@, K)]
<1>1. /\ phase = "rename" /\ frames # <<>> /\ Top.at = "kids" /\ Top.kids = {}
      /\ frames' = new /\ code' = e /\ UNCHANGED <<prog, phase, todo, known>>
  BY DEF Leave, Renaming
<1>2. /\ frames \in Seq(Frames) /\ n \in Nat \ {0} /\ n \in 1 .. n /\ Top = frames[n] /\ Top = Last(frames)
      /\ Top \in Frames /\ t \in Blocks /\ DOMAIN code[t] = 1 .. Len(code[t])
      /\ AsBuilt(prog, code, t) /\ code[t] \in Seq(Instructions)
  BY <1>1, TopFields DEF Top
<1>3. /\ prog \in Programs /\ code \in Codes /\ Tree(prog, frames)
      /\ WaitsKeepPhis(frames) /\ PushedAreKnown(code, frames, known)
      /\ QueuedDefine(prog, code, todo) /\ PhisRight(prog, code, phase, frames)
      /\ todo \subseteq [var : Vars, bb : Blocks]
  BY <1>1 DEF RenameInv, PhisInv, Running
<1>4. \A i \in 1 .. Len(code[t]) : code[t][i].op = "phi" => code[t][i] \in K
  <2>1. \A i \in 1 .. Len(code[t]) : code[t][i].op = "phi" => code[t][i].def[1] = "phi"
    BY <1>2, <1>3, BuiltFields
  <2>2. \A v \in Top.wait : v[1] # "phi"
    BY <1>2, <1>3 DEF WaitsKeepPhis
  <2>. QED BY <1>2, <2>1, <2>2 DEF Range
<1>. HIDE DEF K
<1>5. e[t] = Kept(code[t], K) /\ \A d \in Blocks : d # t => e[d] = code[d]
  BY <1>2, <1>3 DEF Codes
<1>6. /\ Tree(prog, new)
      /\ \A b \in Blocks : /\ Open(frames, b) <=> Open(new, b) \/ b = t
                           /\ ToCome(prog, new, b) <=> ToCome(prog, frames, b)
                           /\ Open(new, b) \/ ToCome(prog, new, b) => ~Dom(prog, t, b)
  BY <1>1, <1>2, <1>3, TreeLeft
<1>7. new \in Seq(Frames) /\ Len(new) = n - 1 /\ \A k \in 1 .. n - 1 : new[k] = frames[k]
  BY <1>1, <1>2, DropLast
<1>. HIDE DEF e, new
<1>8. /\ \A k \in 1 .. n - 1 : k \in 1 .. n /\ k < n
      /\ \A k \in 1 .. n : k \in 1 .. n - 1 \/ k = n
  BY <1>2
<1>9. SamePhis(code, e)
  <2>1. ASSUME NEW b \in Blocks
        PROVE  /\ \A i \in 1 .. Len(e[b]) : \E j \in 1 .. Len(code[b]) : e[b][i] = code[b][j]
               /\ \A j \in 1 .. Len(code[b]) : code[b][j].op = "phi" =>
                    \E i \in 1 .. Len(e[b]) : e[b][i] = code[b][j]
    <3>1. CASE b = t
      <4> DEFINE s == code[t]
      <4>1. s \in Seq(Instructions) /\ \A i \in 1 .. Len(s) : s[i].op = "phi" => s[i] \in K
        BY <1>2, <1>4
      <4>. HIDE DEF s
      <4>2. /\ \A i \in 1 .. Len(Kept(s, K)) : \E j \in 1 .. Len(s) : Kept(s, K)[i] = s[j]
            /\ \A j \in 1 .. Len(s) : s[j].op = "phi" => \E i \in 1 .. Len(Kept(s, K)) : Kept(s, K)[i] = s[j]
        BY <4>1, KeptPhis
      <4>. QED BY <1>5, <3>1, <4>2 DEF s
    <3>2. CASE b # t
      BY <1>5, <3>2
    <3>. QED BY <3>1, <3>2
  <2>. QED BY <2>1, SubsetPhis
<1>10. \A b \in Blocks : Left(prog, new, b) <=> Left(prog, frames, b) \/ b = t
  <2>1. Dom(prog, t, t)
    BY <1>2, <1>3, DomOrder
  <2>. QED BY <1>2, <1>6, <2>1 DEF Left
<1>11. ASSUME NEW a \in Blocks, NEW b \in Blocks PROVE Fed(prog, new, a, b) <=> Fed(prog, frames, a, b)
  <2>1. Feeds(prog, frames[n], b) /\ frames[n].bb = t
    BY <1>1, <1>2 DEF Feeds
  <2>2. CASE a = t
    BY <1>2, <1>10, <2>1, <2>2 DEF Fed
  <2>3. CASE a # t
    BY <1>7, <1>8, <1>10, <2>1, <2>3 DEF Fed
  <2>. QED BY <2>2, <2>3
<1>12. PhisRight(prog, e, phase, new)
  <2>1. FedSame(prog, frames, new)
    BY <1>11 DEF FedSame
  <2>. QED BY <1>1, <1>3, <1>9, <2>1, PhisCarried
<1>13. WaitsKeepPhis(new)
  BY <1>3, <1>7, <1>8 DEF WaitsKeepPhis
<1>14. PushedAreKnown(e, new, known)
  <2>1. ASSUME NEW k \in 1 .. n - 1, NEW x \in Vars PROVE Pushes(e, new[k], x) = Pushes(code, frames[k], x)
    <3>1. frames[k].bb # frames[n].bb /\ frames[k].bb \in Blocks
      BY <1>2, <1>3, <1>8, FrameFields DEF Tree
    <3>2. new[k].bb = frames[k].bb /\ e[frames[k].bb] = code[frames[k].bb] /\ new[k] = frames[k]
      BY <1>2, <1>5, <1>7, <3>1
    <3>. QED BY <3>2 DEF Pushes
  <2>. QED BY <1>3, <1>7, <1>8, <2>1 DEF PushedAreKnown
<1>15. QueuedDefine(prog, e, todo)
  <2>1. \A b \in Blocks : \A x : PhiIn(code, b, x) => PhiIn(e, b, x)
    BY <1>9 DEF SamePhis
  <2>2. \A w \in todo : w.bb \in Blocks
    BY <1>3
  <2>. QED BY <1>3, <2>1, <2>2 DEF QueuedDefine, Defines
<1>. QED BY <1>1, <1>12, <1>13, <1>14, <1>15 DEF PhisInv

\* When re_name begins every block is open or to come.
LEMMA PhisStartRename ==
  ASSUME RenameInv, PhisInv, StartRename PROVE PhisInv'
<1> DEFINE f == NewCall(prog, Entry)
           new == <<f>>
<1>1. /\ phase = "place" /\ phase' = "rename" /\ frames' = new /\ frames = <<>>
      /\ UNCHANGED <<prog, code, todo, var_val_stack, known>>
  BY DEF StartRename, RenameInv, Call, NewCall
<1>2. /\ prog \in Programs /\ code \in Codes /\ QueuedDefine(prog, code, todo)
      /\ PhisRight(prog, code, phase, frames)
  BY <1>1 DEF RenameInv, PhisInv, Running
<1>3. f.bb = Entry /\ f.kids = prog.kids[Entry] /\ f.at = "phis" /\ f.wait = {}
  BY DEF NewCall
<1>4. Len(new) = 1 /\ new[1] = f /\ \A k \in 1 .. Len(new) : k = 1
  OBVIOUS
<1>. HIDE DEF f, new
<1>5. \A b \in Blocks : ~Left(prog, new, b)
  <2>1. ASSUME NEW b \in Blocks PROVE b = Entry \/ \E c \in prog.kids[Entry] : Dom(prog, c, b)
    BY <1>2, BlocksAssumption, DomOrder, KidsOf
  <2>2. 1 \in 1 .. Len(new)
    BY <1>4
  <2>. QED BY <1>3, <1>4, <2>1, <2>2 DEF Left, Open, ToCome
<1>6. \A a, b \in Blocks : ~Fed(prog, new, a, b)
  BY <1>3, <1>4, <1>5 DEF Fed, Feeds
<1>7. ASSUME NEW b \in Blocks, NEW i \in 1 .. Len(code[b]), code[b][i].op = "phi"
      PROVE  PhiRight(prog, code, new, b, code[b][i])
  <2>1. code[b][i].pairs = <<>>
    BY <1>1, <1>2, <1>7 DEF PhisRight
  <2>2. Len(<<>>) = 0 /\ 1 .. 0 = {}
    OBVIOUS
  <2>. QED BY <1>6, <2>1, <2>2 DEF PhiRight, PairOf
<1>8. PhisRight(prog, code, "rename", new)
  BY <1>2, <1>7 DEF PhisRight
<1>9. WaitsKeepPhis(new)
  BY <1>3, <1>4 DEF WaitsKeepPhis
<1>10. PushedAreKnown(code, new, known)
  <2>1. \A x : Pushes(code, f, x) = {}
    BY <1>3 DEF Pushes, Ran
  <2>. QED BY <1>4, <2>1 DEF PushedAreKnown
<1>. QED BY <1>1, <1>2, <1>8, <1>9, <1>10 DEF PhisInv

LEMMA PhisInit == Init => PhisInv
<1>. SUFFICES ASSUME Init PROVE PhisInv
  OBVIOUS
<1>1. /\ prog \in Programs /\ code = prog.code /\ phase = "place" /\ todo = StoredIn /\ frames = <<>>
  BY DEF Init
<1>2. Len(<<>>) = 0 /\ 1 .. 0 = {}
  OBVIOUS
<1>3. WaitsKeepPhis(frames) /\ PushedAreKnown(code, frames, known)
  BY <1>1, <1>2 DEF WaitsKeepPhis, PushedAreKnown
<1>4. PhisRight(prog, code, phase, frames)
  BY <1>1, ProgramFields DEF PhisRight
<1>5. ASSUME NEW w \in todo PROVE Defines(prog, code, w.bb, w.var)
  <2>1. w.bb \in Blocks
    BY <1>1 DEF StoredIn
  <2>2. PICK ins \in Stores(w.bb) : ins.var = w.var
    BY <1>1 DEF StoredIn
  <2>3. prog.code \in Codes
    BY <1>1, ProgramFields
  <2>4. DOMAIN code[w.bb] = 1 .. Len(code[w.bb])
    BY <1>1, <2>1, <2>3, CodeFields
  <2>. QED BY <1>1, <2>2, <2>4 DEF Stores, Instrs, Range, Defines
<1>6. QueuedDefine(prog, code, todo)
  BY <1>5 DEF QueuedDefine
<1>. QED BY <1>3, <1>4, <1>6 DEF PhisInv

\* A phi is placed in front of the code of a block in the frontier.
LEMMA Placed ==
  ASSUME NEW s \in Seq(Instructions), NEW a \in Instructions
  PROVE  LET r == <<a>> \o s
         IN  /\ \A k \in 1 .. Len(r) : r[k] = a \/ \E i \in 1 .. Len(s) : r[k] = s[i]
             /\ \A i \in 1 .. Len(s) : \E k \in 1 .. Len(r) : r[k] = s[i]
             /\ \E k \in 1 .. Len(r) : r[k] = a
<1> DEFINE r == <<a>> \o s
<1>1. Len(r) = Len(s) + 1 /\ r[1] = a /\ \A i \in 1 .. Len(s) : r[i + 1] = s[i]
  BY Prefixed
<1>2. Len(s) \in Nat
  OBVIOUS
<1>. HIDE DEF r
<1>3. ASSUME NEW k \in 1 .. Len(r) PROVE r[k] = a \/ \E i \in 1 .. Len(s) : r[k] = s[i]
  <2>1. CASE k = 1
    BY <1>1, <2>1
  <2>2. CASE k # 1
    <3>1. k - 1 \in 1 .. Len(s) /\ (k - 1) + 1 = k
      BY <1>1, <1>2, <2>2
    <3>. QED BY <1>1, <3>1
  <2>. QED BY <2>1, <2>2
<1>4. \A i \in 1 .. Len(s) : i + 1 \in 1 .. Len(r)
  BY <1>1, <1>2
<1>5. 1 \in 1 .. Len(r)
  BY <1>1, <1>2
<1>. QED BY <1>1, <1>3, <1>4, <1>5 DEF r

LEMMA PhisPlacePhis ==
  ASSUME RenameInv, PhisInv, PlacePhis PROVE PhisInv'
<1>1. /\ phase = "place" /\ UNCHANGED <<prog, phase, frames, var_val_stack, known>> /\ frames = <<>>
  BY DEF PlacePhis, RenameInv
<1>2. PICK w \in todo :
        /\ code' = [b \in Blocks |-> IF b \in NeedPhi(w) THEN <<Phi(b, w.var)>> \o code[b] ELSE code[b]]
        /\ todo' = (todo \ {w}) \union [var : {w.var}, bb : NeedPhi(w)]
  BY DEF PlacePhis
<1> DEFINE x == w.var
           N == NeedPhi(w)
           e == code'
<1>3. /\ prog \in Programs /\ code \in Codes /\ todo \subseteq [var : Vars, bb : Blocks]
      /\ QueuedDefine(prog, code, todo) /\ PhisRight(prog, code, phase, frames)
  BY <1>1 DEF RenameInv, PhisInv, Running
<1>4. w \in [var : Vars, bb : Blocks] /\ x \in Vars /\ w.bb \in Blocks
  BY <1>3
<1>5. ASSUME NEW b \in N
      PROVE  b \in Blocks /\ \E a \in Blocks : IsPred(prog, a, b) /\ Dom(prog, w.bb, a)
  <2>1. b \in DominanceFrontier(w.bb, Entry, Blocks, EdgesOf(prog))
    BY <1>3, <1>4, <1>5, ProgramsAssumption DEF NeedPhi
  <2>. QED BY <2>1 DEF DominanceFrontier, Dom, EdgesOf, IsPred
<1>6. ASSUME NEW b \in Blocks
      PROVE  /\ Phi(b, x) \in Instructions /\ Phi(b, x).op = "phi" /\ Phi(b, x).var = x
             /\ Phi(b, x).pairs = <<>>
  <2>1. <<"phi", b, x>> \in ValueNames /\ <<>> \in Seq(Operands \X Blocks)
    BY <1>4 DEF ValueNames, Operands
  <2>. QED BY <1>4, <2>1 DEF Phi, Instructions, Ops
<1>7. ASSUME NEW b \in Blocks
      PROVE  /\ \A k \in 1 .. Len(e[b]) : (b \in N /\ e[b][k] = Phi(b, x))
                                          \/ \E i \in 1 .. Len(code[b]) : e[b][k] = code[b][i]
             /\ \A i \in 1 .. Len(code[b]) : \E k \in 1 .. Len(e[b]) : e[b][k] = code[b][i]
             /\ b \in N => \E k \in 1 .. Len(e[b]) : e[b][k] = Phi(b, x)
  <2>1. code[b] \in Seq(Instructions)
    BY <1>3, CodeFields
  <2>2. CASE b \in N
    <3> DEFINE s == code[b]
               a == Phi(b, x)
               r == <<a>> \o s
    <3>1. e[b] = r
      BY <1>2, <2>2
    <3>2. s \in Seq(Instructions) /\ a \in Instructions
      BY <1>6, <2>1
    <3>. HIDE DEF s, a, e
    <3>3. /\ \A k \in 1 .. Len(r) : r[k] = a \/ \E i \in 1 .. Len(s) : r[k] = s[i]
          /\ \A i \in 1 .. Len(s) : \E k \in 1 .. Len(r) : r[k] = s[i]
          /\ \E k \in 1 .. Len(r) : r[k] = a
      BY <3>2, Placed
    <3>. HIDE DEF r, N, x
    <3>. QED BY <2>2, <3>1, <3>3 DEF s, a
  <2>3. CASE b \notin N
    <3>1. e[b] = code[b]
      BY <1>2, <2>3
    <3>. HIDE DEF e, N, x
    <3>. QED BY <2>3, <3>1
  <2>. QED BY <2>2, <2>3
<1>8. todo' = (todo \ {w}) \union [var : {x}, bb : N]
  BY <1>2
<1>. HIDE DEF e, N, x
<1>9. /\ \A b \in Blocks : \A y : PhiIn(code, b, y) => PhiIn(e, b, y)
      /\ \A b \in Blocks : b \in N => PhiIn(e, b, x)
  <2>1. ASSUME NEW b \in Blocks, NEW y, PhiIn(code, b, y) PROVE PhiIn(e, b, y)
    <3>1. PICK i \in 1 .. Len(code[b]) : code[b][i].op = "phi" /\ code[b][i].var = y
      BY <2>1 DEF PhiIn
    <3>2. PICK k \in 1 .. Len(e[b]) : e[b][k] = code[b][i]
      BY <1>7
    <3>. QED BY <3>1, <3>2 DEF PhiIn
  <2>2. ASSUME NEW b \in Blocks, b \in N PROVE PhiIn(e, b, x)
    BY <1>6, <1>7, <2>2 DEF PhiIn
  <2>. QED BY <2>1, <2>2
<1>10. \A b \in Blocks : \A y : Defines(prog, code, b, y) => Defines(prog, e, b, y)
  BY <1>9 DEF Defines
<1>11. \A a, y : Reaches(prog, code, y, a) => Reaches(prog, e, y, a)
  BY <1>10 DEF Reaches
<1>12. QueuedDefine(prog, e, todo')
  <2>1. ASSUME NEW u \in todo' PROVE Defines(prog, e, u.bb, u.var)
    <3>1. CASE u \in todo
      <4>1. u.bb \in Blocks
        BY <1>3, <3>1
      <4>. QED BY <1>3, <1>10, <3>1, <4>1 DEF QueuedDefine
    <3>2. CASE u \in [var : {x}, bb : N]
      BY <1>5, <1>9, <3>2 DEF Defines
    <3>. QED BY <1>8, <3>1, <3>2
  <2>. QED BY <2>1 DEF QueuedDefine
<1>13. Defines(prog, e, w.bb, x)
  <2>1. Defines(prog, code, w.bb, x)
    BY <1>3 DEF QueuedDefine, x
  <2>. QED BY <1>4, <1>10, <2>1
<1>14. ASSUME NEW b \in Blocks, NEW k \in 1 .. Len(e[b]), e[b][k].op = "phi"
       PROVE  /\ e[b][k].var \in Vars /\ e[b][k].pairs = <<>>
              /\ \E a \in Blocks : IsPred(prog, a, b) /\ Reaches(prog, e, e[b][k].var, a)
  <2>1. CASE b \in N /\ e[b][k] = Phi(b, x)
    <3>1. PICK a \in Blocks : IsPred(prog, a, b) /\ Dom(prog, w.bb, a)
      BY <1>5, <2>1
    <3>2. Reaches(prog, e, x, a)
      BY <1>4, <1>13, <3>1 DEF Reaches
    <3>. QED BY <1>4, <1>6, <2>1, <3>1, <3>2
  <2>2. CASE \E i \in 1 .. Len(code[b]) : e[b][k] = code[b][i]
    <3>1. PICK i \in 1 .. Len(code[b]) : e[b][k] = code[b][i]
      BY <2>2
    <3>2. /\ code[b][i].var \in Vars /\ code[b][i].pairs = <<>>
          /\ \E a \in Blocks : IsPred(prog, a, b) /\ Reaches(prog, code, code[b][i].var, a)
      BY <1>1, <1>3, <1>14, <3>1 DEF PhisRight
    <3>. QED BY <1>11, <3>1, <3>2
  <2>. QED BY <1>7, <2>1, <2>2
<1>15. PhisRight(prog, e, "place", frames)
  BY <1>14 DEF PhisRight
<1>16. Len(<<>>) = 0 /\ 1 .. 0 = {}
  OBVIOUS
<1>17. WaitsKeepPhis(<<>>) /\ PushedAreKnown(e, <<>>, known)
  BY <1>16 DEF WaitsKeepPhis, PushedAreKnown
<1>. QED BY <1>1, <1>12, <1>15, <1>17 DEF PhisInv, e

(***************************************************************************)
(* The theorems.                                                           *)
(***************************************************************************)
LEMMA PhisNext ==
  ASSUME RenameInv, PhisInv, [RunNext]_allVars PROVE PhisInv'
<1>1. CASE UNCHANGED vars
  BY <1>1 DEF PhisInv, Running, vars
<1>2. CASE Next
  <2>1. CASE PlacePhis BY <2>1, PhisPlacePhis
  <2>2. CASE StartRename BY <2>2, PhisStartRename
  <2>3. CASE PushPhis BY <2>3, PhisPushPhis
  <2>4. CASE ReplaceLoad BY <2>4, PhisReplaceLoad
  <2>5. CASE KeepLoad BY <2>5, PhisKeepLoad
  <2>6. CASE PushStore BY <2>6, PhisPushStore
  <2>7. CASE SkipInstr BY <2>7, PhisSkipInstr
  <2>8. CASE InstrsDone BY <2>8, PhisInstrsDone
  <2>9. CASE FillPhis BY <2>9, PhisFillPhis
  <2>10. CASE SuccsDone BY <2>10, PhisSuccsDone
  <2>11. CASE EnterChild BY <2>11, PhisEnterChild
  <2>12. CASE Leave BY <2>12, PhisLeave
  <2>13. CASE RemoveAlloca BY <2>13, PhisRemoveAlloca
  <2>. QED BY <1>2, <2>1, <2>2, <2>3, <2>4, <2>5, <2>6, <2>7, <2>8, <2>9, <2>10, <2>11, <2>12, <2>13
       DEF Next
<1>3. [RunNext]_allVars => Next \/ UNCHANGED vars
  BY DEF RunNext, Compile, NameValues, Transform, PrintFunction, RunNextBlock, Stopped, allVars
<1>. QED BY <1>1, <1>2, <1>3

LEMMA PhisMatch ==
  ASSUME RenameInv, PhisInv PROVE PhisMatchPredecessors
<1>. SUFFICES ASSUME phase = "done" PROVE PhisMatchPredecessors
  BY DEF PhisMatchPredecessors
<1>1. /\ prog \in Programs /\ code \in Codes /\ frames = <<>>
      /\ PhisRight(prog, code, phase, frames)
  BY DEF RenameInv, PhisInv, Running
<1>2. \A a, b \in Blocks : Fed(prog, frames, a, b)
  <2>1. Len(<<>>) = 0 /\ 1 .. 0 = {}
    OBVIOUS
  <2>. QED BY <1>1, <2>1 DEF Fed, Left, Open, ToCome
<1>3. ASSUME NEW b \in Blocks, NEW phi \in Phis(b)
      PROVE  /\ Len(phi.pairs) > 0
             /\ \A a \in Blocks : Cardinality(PairsFrom(phi, a)) <= IF a \in PredsOf(b) THEN 1 ELSE 0
             /\ SetAtEntry => \A a \in PredsOf(b) : PairsFrom(phi, a) # {}
  <2>1. PICK i \in 1 .. Len(code[b]) : phi = code[b][i] /\ phi.op = "phi"
    BY <1>1, CodeFields DEF Phis, Instrs, Range
  <2>2. /\ phi.var \in Vars /\ PhiRight(prog, code, frames, b, phi)
        /\ \E a \in Blocks : IsPred(prog, a, b) /\ Reaches(prog, code, phi.var, a)
    BY <1>1, <2>1 DEF PhisRight
  <2>3. phi.pairs \in Seq(Operands \X Blocks)
    <3>1. phi \in Instructions
      BY <1>1, <2>1, CodeFields
    <3>. QED BY <3>1, InstructionFields
  <2>4. DOMAIN phi.pairs = 1 .. Len(phi.pairs) /\ Len(phi.pairs) \in Nat
    BY <2>3
  <2>5. \A a \in Blocks : a \in PredsOf(b) <=> IsPred(prog, a, b)
    BY DEF PredsOf, IsPred
  <2>6. Len(phi.pairs) > 0
    <3>1. PICK a \in Blocks : PairOf(phi, a)
      BY <1>2, <2>2 DEF PhiRight
    <3>2. PICK j \in 1 .. Len(phi.pairs) : phi.pairs[j][2] = a
      BY <3>1 DEF PairOf
    <3>. QED BY <2>4, <3>2
  <2>7. ASSUME NEW a \in Blocks
        PROVE  Cardinality(PairsFrom(phi, a)) <= IF a \in PredsOf(b) THEN 1 ELSE 0
    <3>1. CASE PairsFrom(phi, a) = {}
      <4>1. Cardinality(PairsFrom(phi, a)) = 0
        BY <3>1, FS_EmptySet
      <4>. QED BY <4>1
    <3>2. CASE PairsFrom(phi, a) # {}
      <4>1. PICK j \in 1 .. Len(phi.pairs) : phi.pairs[j][2] = a
        BY <2>4, <3>2 DEF PairsFrom
      <4>2. \A k \in 1 .. Len(phi.pairs) : phi.pairs[k][2] = a => k = j
        BY <2>2, <4>1 DEF PhiRight
      <4>3. PairsFrom(phi, a) = {j}
        BY <2>4, <4>1, <4>2 DEF PairsFrom
      <4>4. Cardinality(PairsFrom(phi, a)) = 1
        BY <4>3, FS_Singleton
      <4>5. a \in PredsOf(b)
        BY <2>2, <2>5, <4>1 DEF PhiRight, PairOf
      <4>. QED BY <4>4, <4>5
    <3>. QED BY <3>1, <3>2
  <2>8. ASSUME SetAtEntry, NEW a \in PredsOf(b) PROVE PairsFrom(phi, a) # {}
    <3>1. a \in Blocks /\ IsPred(prog, a, b)
      BY DEF PredsOf, IsPred
    <3>2. PICK ins \in Range(prog.code[Entry]) : ins.op = "store" /\ ins.var = phi.var
      BY <2>2, <2>8 DEF SetAtEntry
    <3>3. DOMAIN prog.code[Entry] = 1 .. Len(prog.code[Entry])
      BY <1>1, BlocksAssumption, ProgramFields, CodeFields
    <3>4. Defines(prog, code, Entry, phi.var)
      BY <3>2, <3>3 DEF Range, Defines
    <3>5. Reaches(prog, code, phi.var, a)
      BY <1>1, <3>1, <3>4, BlocksAssumption, DomOrder DEF Reaches
    <3>6. PairOf(phi, a)
      BY <1>2, <2>2, <3>1, <3>5 DEF PhiRight
    <3>. QED BY <2>4, <3>6 DEF PairOf, PairsFrom
  <2>. QED BY <2>6, <2>7, <2>8
<1>. QED BY <1>3 DEF PhisMatchPredecessors

\* Each phi the pass leaves has exactly one pair for every predecessor of its
\* block, and none else, if the entry sets the variables; in any function it has
\* at most one for each and at least one altogether.
THEOREM PhisComplete == RunSpec => []PhisMatchPredecessors
<1>1. RunInit => PhisInv
  BY PhisInit DEF RunInit
<1>2. RenameInv /\ RenameInv' /\ PhisInv /\ [RunNext]_allVars => PhisInv'
  BY PhisNext
<1>3. RunSpec => []PhisInv
  BY <1>1, <1>2, RenameInvariant, PTL DEF RunSpec
<1>4. RenameInv /\ PhisInv => PhisMatchPredecessors
  BY PhisMatch
<1>. QED BY <1>3, <1>4, RenameInvariant, PTL

(***************************************************************************)
(* SSA form.  While re_name runs, an operand that is a load is one that    *)
(* re_name has still to come by, and will replace: the stacks hold no      *)
(* loads.  An operand that is a phi is in scope already.                   *)
(***************************************************************************)
\* re_name has still to come by instruction j of block b.
Ahead(p, fs, b, j) == ToCome(p, fs, b) \/ \E k \in 1 .. Len(fs) : fs[k].bb = b /\ ~Ran(fs[k], j)

LoadAhead(p, c, ph, fs, b, i) ==
  \E d \in Blocks : \E j \in 1 .. Len(c[d]) :
    /\ c[d][j].def = c[b][i].val
    /\ IF d = b THEN j < i ELSE Dom(p, d, b)
    /\ ph = "place" \/ Ahead(p, fs, d, j)
LoadsAhead(p, c, ph, fs) ==
  \A b \in Blocks : \A i \in 1 .. Len(c[b]) : c[b][i].val[1] = "load" => LoadAhead(p, c, ph, fs, b, i)

\* A value that is a phi is there at the end of block b.
PhiReaches(p, c, v, b) ==
  v[1] = "phi" => \E d \in Blocks : Dom(p, d, b) /\ \E j \in 1 .. Len(c[d]) : c[d][j].op = "phi" /\ c[d][j].def = v
InstrRight(p, c, b, ins) ==
  /\ PhiReaches(p, c, ins.val, b)
  /\ ins.op = "use" => ins.val # NoValue
  /\ ins.op # "phi" => ins.pairs = <<>>
  /\ \A m \in 1 .. Len(ins.pairs) :
       ins.pairs[m][1][1] # "load" /\ PhiReaches(p, c, ins.pairs[m][1], ins.pairs[m][2])
InstrsRight(p, c) == \A b \in Blocks : \A i \in 1 .. Len(c[b]) : InstrRight(p, c, b, c[b][i])

PhisInFront(s) == \A i, j \in 1 .. Len(s) : s[i].op = "phi" /\ s[j].op # "phi" => i < j

\* What has run and is not to stay waits for deletion; where re_name is done, it is gone.
Accesses == {"load", "store"}
WaitsFor(c, f) == \A j \in 1 .. Len(c[f.bb]) : Ran(f, j) /\ c[f.bb][j].op \in Accesses => c[f.bb][j].def \in f.wait
Cleared(s) == \A i \in 1 .. Len(s) : s[i].op \notin Accesses

NoLoads(vs) == \A x \in Vars : \A j \in 1 .. Len(vs[x]) : vs[x][j][1] # "load"

InSSA(p, c, ph, fs, vs) ==
  /\ NoLoads(vs) /\ LoadsAhead(p, c, ph, fs) /\ InstrsRight(p, c)
  /\ \A b \in Blocks : PhisInFront(c[b]) /\ (ph # "place" /\ Left(p, fs, b) => Cleared(c[b]))
  /\ \A k \in 1 .. Len(fs) : WaitsFor(c, fs[k])
  /\ ph = "done" => \A b \in Blocks : \A i \in 1 .. Len(c[b]) : c[b][i].op # "alloca"
ScopeInv == SetBeforeRead => InSSA(prog, code, phase, frames, var_val_stack)

LEMMA RunsOn ==
  ASSUME RenameInv, SetBeforeRead
  PROVE  SetsAll(prog) /\ phase \in {"place", "rename", "done"}
<1>1. SetsAll(prog)
  <2>1. ASSUME NEW x \in Vars
        PROVE  \E ins \in Range(prog.code[Entry]) : ins.op = "store" /\ ins.var = x
    <3>1. PICK i \in DOMAIN prog.code[Entry] :
            prog.code[Entry][i].op = "store" /\ prog.code[Entry][i].var = x
      BY DEF SetBeforeRead
    <3>. QED BY <3>1 DEF Range
  <2>. QED BY <2>1 DEF SetsAll
<1>. QED BY <1>1 DEF RenameInv

\* The innermost call moves on, past some of what was ahead.
LEMMA AheadMoves ==
  ASSUME NEW p \in Programs, NEW fs \in Seq(Frames), fs # <<>>, NEW f \in Frames,
         f.bb = Last(fs).bb, f.kids = Last(fs).kids
  PROVE  LET new == Append(Front(fs), f)
         IN  /\ \A b \in Blocks : Left(p, new, b) <=> Left(p, fs, b)
             /\ \A b \in Blocks : \A j : Ahead(p, fs, b, j) =>
                  Ahead(p, new, b, j) \/ (b = f.bb /\ Ran(f, j) /\ ~Ran(Last(fs), j))
<1> DEFINE new == Append(Front(fs), f)
           n == Len(fs)
<1>1. /\ Len(new) = n /\ n \in Nat \ {0} /\ n \in 1 .. n /\ new[n] = f
      /\ \A k \in 1 .. n : k # n => new[k] = fs[k]
      /\ Last(fs) = fs[n]
  BY SetLast DEF Last
<1>. HIDE DEF new
<1>2. \A k \in 1 .. n : new[k].bb = fs[k].bb /\ new[k].kids = fs[k].kids
  BY <1>1
<1>3. \A b \in Blocks : ToCome(p, new, b) <=> ToCome(p, fs, b)
  BY <1>1, <1>2 DEF ToCome
<1>4. \A b \in Blocks : Left(p, new, b) <=> Left(p, fs, b)
  BY <1>1, <1>2, <1>3 DEF Left, Open
<1>5. ASSUME NEW b \in Blocks, NEW j, Ahead(p, fs, b, j)
      PROVE  Ahead(p, new, b, j) \/ (b = f.bb /\ Ran(f, j) /\ ~Ran(Last(fs), j))
  <2>1. CASE ToCome(p, fs, b)
    BY <1>3, <2>1 DEF Ahead
  <2>2. CASE ~ToCome(p, fs, b)
    <3>1. PICK k \in 1 .. n : fs[k].bb = b /\ ~Ran(fs[k], j)
      BY <1>5, <2>2 DEF Ahead
    <3>2. CASE k = n
      BY <1>1, <3>1, <3>2 DEF Ahead
    <3>3. CASE k # n
      BY <1>1, <3>1, <3>3 DEF Ahead
    <3>. QED BY <3>2, <3>3
  <2>. QED BY <2>1, <2>2
<1>. QED BY <1>4, <1>5 DEF new

\* What the innermost call does to code in place.
LEMMA InnerSSA ==
  ASSUME RenameInv, InSSA(prog, code, phase, frames, var_val_stack),
         phase = "rename", frames # <<>>, prog' = prog, phase' = "rename",
         NEW f \in Frames, frames' = Append(Front(frames), f), f.bb = Top.bb, f.kids = Top.kids,
         code' \in Codes, SameShape(code, code'),
         NoLoads(var_val_stack'), InstrsRight(prog, code'), WaitsFor(code', f),
         \A b \in Blocks : \A i \in 1 .. Len(code[b]) :
           code'[b][i].val[1] = "load" => code[b][i].val = code'[b][i].val,
         \A j \in 1 .. Len(code[Top.bb]) : Ran(f, j) =>
           \/ Ran(Top, j) \/ code[Top.bb][j].def[1] # "load"
           \/ \A b \in Blocks : \A i \in 1 .. Len(code[b]) : code'[b][i].val # code[Top.bb][j].def
  PROVE  ScopeInv'
<1> DEFINE new == Append(Front(frames), f)
           n == Len(frames)
<1>1. /\ frames \in Seq(Frames) /\ n \in Nat \ {0} /\ n \in 1 .. n /\ Top = frames[n]
      /\ Top = Last(frames) /\ Top \in Frames /\ Top.bb \in Blocks /\ prog \in Programs /\ code \in Codes
  BY TopFields DEF Top, RenameInv
<1>2. Len(new) = n /\ new[n] = f /\ \A k \in 1 .. n : k # n => new[k] = frames[k]
  BY <1>1, SetLast
<1>3. /\ \A b \in Blocks : Left(prog, new, b) <=> Left(prog, frames, b)
      /\ \A b \in Blocks : \A j : Ahead(prog, frames, b, j) =>
           Ahead(prog, new, b, j) \/ (b = f.bb /\ Ran(f, j) /\ ~Ran(Top, j))
  BY <1>1, AheadMoves
<1>. HIDE DEF new
<1>4. /\ LoadsAhead(prog, code, "rename", frames)
      /\ \A b \in Blocks : PhisInFront(code[b]) /\ (Left(prog, frames, b) => Cleared(code[b]))
      /\ \A k \in 1 .. n : WaitsFor(code, frames[k])
  BY DEF InSSA
<1>5. \A b \in Blocks : /\ Len(code'[b]) = Len(code[b])
                        /\ \A i \in 1 .. Len(code[b]) : /\ code'[b][i].op = code[b][i].op
                                                        /\ code'[b][i].def = code[b][i].def
  BY DEF SameShape, SameAccess
<1>6. LoadsAhead(prog, code', "rename", new)
  <2>1. ASSUME NEW b \in Blocks, NEW i \in 1 .. Len(code[b]), code'[b][i].val[1] = "load"
        PROVE  LoadAhead(prog, code', "rename", new, b, i)
    <3>1. code[b][i].val = code'[b][i].val
      BY <2>1
    <3>2. LoadAhead(prog, code, "rename", frames, b, i)
      BY <1>4, <2>1, <3>1 DEF LoadsAhead
    <3>3. PICK d \in Blocks : \E j \in 1 .. Len(code[d]) :
            /\ code[d][j].def = code[b][i].val
            /\ IF d = b THEN j < i ELSE Dom(prog, d, b)
            /\ Ahead(prog, frames, d, j)
      BY <3>2 DEF LoadAhead
    <3>4. PICK j \in 1 .. Len(code[d]) :
            /\ code[d][j].def = code[b][i].val
            /\ IF d = b THEN j < i ELSE Dom(prog, d, b)
            /\ Ahead(prog, frames, d, j)
      BY <3>3
    <3>5. j \in 1 .. Len(code'[d]) /\ code'[d][j].def = code'[b][i].val
      BY <1>5, <3>1, <3>4
    <3>6. ~(d = f.bb /\ Ran(f, j) /\ ~Ran(Top, j))
      BY <2>1, <3>1, <3>4
    <3>7. Ahead(prog, new, d, j)
      BY <1>3, <3>4, <3>6
    <3>. QED BY <3>4, <3>5, <3>7 DEF LoadAhead
  <2>. QED BY <1>5, <2>1 DEF LoadsAhead
<1>7. ASSUME NEW b \in Blocks
      PROVE  PhisInFront(code'[b]) /\ (Left(prog, new, b) => Cleared(code'[b]))
  <2>1. /\ Len(code'[b]) = Len(code[b])
        /\ \A i \in 1 .. Len(code[b]) : code'[b][i].op = code[b][i].op
    BY <1>5
  <2>2. PhisInFront(code[b]) /\ (Left(prog, frames, b) => Cleared(code[b]))
    BY <1>4
  <2>3. PhisInFront(code'[b])
    BY <2>1, <2>2 DEF PhisInFront
  <2>4. Cleared(code[b]) => Cleared(code'[b])
    BY <2>1 DEF Cleared
  <2>. QED BY <1>3, <2>2, <2>3, <2>4
<1>8. ASSUME NEW k \in 1 .. n PROVE WaitsFor(code', new[k])
  <2>1. CASE k = n
    BY <1>2, <2>1
  <2>2. CASE k # n
    <3>1. frames[k].bb \in Blocks /\ new[k] = frames[k]
      BY <1>1, <1>2, <2>2, FrameFields
    <3>. QED BY <1>4, <1>5, <3>1 DEF WaitsFor
  <2>. QED BY <2>1, <2>2
<1>9. InSSA(prog, code', "rename", new, var_val_stack')
  BY <1>2, <1>6, <1>7, <1>8 DEF InSSA
<1>. QED BY <1>9 DEF ScopeInv, new

\* Steps that leave the code.
LEMMA QuietSSA ==
  ASSUME RenameInv, ScopeInv, SetBeforeRead,
         phase = "rename", frames # <<>>, prog' = prog, phase' = "rename", code' = code,
         NEW f \in Frames, frames' = Append(Front(frames), f), f.bb = Top.bb, f.kids = Top.kids,
         NoLoads(var_val_stack'), Top.wait \subseteq f.wait,
         \A j \in 1 .. Len(code[Top.bb]) : Ran(f, j) => Ran(Top, j) \/
           /\ code[Top.bb][j].op \in Accesses => code[Top.bb][j].def \in f.wait
           /\ \/ code[Top.bb][j].op # "load"
              \/ \A b \in Blocks : \A i \in 1 .. Len(code[b]) : code[b][i].val # code[Top.bb][j].def
  PROVE  ScopeInv'
<1>1. InSSA(prog, code, phase, frames, var_val_stack)
  BY DEF ScopeInv
<1>2. code' \in Codes /\ SameShape(code, code') /\ InstrsRight(prog, code')
  BY <1>1 DEF RenameInv, SameShape, SameAccess, InSSA
<1>3. /\ frames \in Seq(Frames) /\ Len(frames) \in 1 .. Len(frames) /\ Top = frames[Len(frames)]
      /\ Top.bb \in Blocks /\ AsBuilt(prog, code, Top.bb) /\ prog \in Programs /\ code \in Codes
  BY TopFields DEF RenameInv
<1>4. WaitsFor(code, Top)
  BY <1>1, <1>3 DEF InSSA
<1>5. WaitsFor(code', f)
  BY <1>4 DEF WaitsFor
<1>6. \A j \in 1 .. Len(code[Top.bb]) : code[Top.bb][j].def[1] = "load" => code[Top.bb][j].op = "load"
  BY <1>3, BuiltFields
<1>. QED BY <1>1, <1>2, <1>5, <1>6, InnerSSA

\* The call of the innermost block has an instruction behind it.
LEMMA SSASkipInstr ==
  ASSUME RenameInv, ScopeInv, SetBeforeRead, SkipInstr PROVE ScopeInv'
<1>1. /\ Renaming("instrs") /\ Top.i <= Len(code[Top.bb]) /\ Instr.op \in {"alloca", "use", "phi"}
      /\ NextInstr(FALSE) /\ phase = "rename" /\ frames # <<>> /\ Top.at = "instrs"
      /\ UNCHANGED <<prog, code, phase, todo, var_val_stack, known>>
  BY DEF SkipInstr, AtInstr, Renaming
<1>2. PICK f \in Frames :
        /\ frames' = Append(Front(frames), f)
        /\ f.bb = Top.bb /\ f.kids = Top.kids /\ f.at = "instrs" /\ f.i = Top.i + 1 /\ f.wait = Top.wait
  BY <1>1, NextInstrFrame
<1>3. Top \in Frames /\ Top.i \in Nat
  BY <1>1, TopFields
<1>4. \A j \in 1 .. Len(code[Top.bb]) : Ran(f, j) => Ran(Top, j) \/ j = Top.i
  BY <1>1, <1>2, <1>3 DEF Ran
<1>5. code[Top.bb][Top.i].op \notin Accesses /\ code[Top.bb][Top.i].op # "load"
  BY <1>1 DEF Instr, Accesses
<1>6. NoLoads(var_val_stack')
  BY <1>1 DEF ScopeInv, InSSA
<1>. QED BY <1>1, <1>2, <1>4, <1>5, <1>6, QuietSSA

LEMMA SSADone ==
  ASSUME RenameInv, ScopeInv, SetBeforeRead, phase = "rename", frames # <<>>,
         UNCHANGED <<prog, code, phase, todo, var_val_stack, known>>,
         Top.at = "succs" \/ (Top.at = "instrs" /\ Top.i > Len(code[Top.bb])),
         NEW f \in Frames, frames' = Append(Front(frames), f),
         f.bb = Top.bb, f.kids = Top.kids, f.wait = Top.wait
  PROVE  ScopeInv'
<1>1. Top.i \in Nat /\ Len(code[Top.bb]) \in Nat
  BY TopFields
<1>2. \A j \in 1 .. Len(code[Top.bb]) : Ran(Top, j)
  BY <1>1 DEF Ran
<1>3. NoLoads(var_val_stack')
  BY DEF ScopeInv, InSSA
<1>. QED BY <1>2, <1>3, QuietSSA

LEMMA SSAInstrsDone ==
  ASSUME RenameInv, ScopeInv, SetBeforeRead, InstrsDone PROVE ScopeInv'
<1> DEFINE f == [Top EXCEPT !.at = "succs", !.i = 1]
<1>1. phase = "rename" /\ frames # <<>> /\ Top.at = "instrs" /\ Top.i > Len(code[Top.bb])
  BY DEF InstrsDone, Renaming
<1>2. f \in Frames /\ f.bb = Top.bb /\ f.kids = Top.kids /\ f.wait = Top.wait
  BY <1>1, TopFields, FrameSuccs
<1>3. frames' = Append(Front(frames), f) /\ UNCHANGED <<prog, code, phase, todo, var_val_stack, known>>
  BY DEF InstrsDone, SetTop
<1>. HIDE DEF f
<1>. QED BY <1>1, <1>2, <1>3, SSADone

LEMMA SSASuccsDone ==
  ASSUME RenameInv, ScopeInv, SetBeforeRead, SuccsDone PROVE ScopeInv'
<1> DEFINE f == [Top EXCEPT !.at = "kids"]
<1>1. phase = "rename" /\ frames # <<>> /\ Top.at = "succs"
  BY DEF SuccsDone, Renaming
<1>2. f \in Frames /\ f.bb = Top.bb /\ f.kids = Top.kids /\ f.wait = Top.wait
  BY <1>1, TopFields, FrameAt
<1>3. frames' = Append(Front(frames), f) /\ UNCHANGED <<prog, code, phase, todo, var_val_stack, known>>
  BY DEF SuccsDone, SetTop
<1>. HIDE DEF f
<1>. QED BY <1>1, <1>2, <1>3, SSADone

LEMMA SSAPushPhis ==
  ASSUME RenameInv, ScopeInv, SetBeforeRead, PushPhis PROVE ScopeInv'
<1> DEFINE f == [Top EXCEPT !.at = "instrs"]
           more(x) == IF HasPhi(Top.bb, x) THEN <<Phi(Top.bb, x).def>> ELSE <<>>
<1>1. /\ phase = "rename" /\ frames # <<>> /\ Top.at = "phis" /\ UNCHANGED <<prog, code, phase, todo>>
      /\ frames' = Append(Front(frames), f)
      /\ var_val_stack' = [x \in Vars |-> var_val_stack[x] \o more(x)]
  BY DEF PushPhis, Renaming, SetTop
<1>2. Top \in Frames /\ Top.i = 1 /\ code \in Codes /\ Stacks(code, frames, var_val_stack)
  <2>1. Top \in Frames
    BY <1>1, TopFields
  <2>2. Top.at = "phis" => Top.i = 1
    BY <2>1 DEF Frames
  <2>. QED BY <1>1, <2>1, <2>2 DEF RenameInv
<1>3. /\ f \in Frames /\ f.bb = Top.bb /\ f.kids = Top.kids /\ f.at = "instrs" /\ f.i = 1
      /\ f.wait = Top.wait
  BY <1>2, FrameAt
<1>. HIDE DEF f
<1>4. NoLoads(var_val_stack')
  <2>1. ASSUME NEW x \in Vars, NEW j \in 1 .. Len(var_val_stack'[x])
        PROVE  var_val_stack'[x][j][1] # "load"
    <3> DEFINE s == var_val_stack[x]
               m == more(x)
    <3>1. s \in Seq(Operands) /\ var_val_stack'[x] = s \o m
      <4>1. frames \in Seq(Frames)
        BY <1>1, TopFields
      <4>. QED BY <1>1, <1>2, <4>1, StackTop
    <3>2. \A k \in 1 .. Len(s) : s[k][1] # "load"
      BY DEF ScopeInv, InSSA, NoLoads
    <3>3. Phi(Top.bb, x).def = <<"phi", Top.bb, x>>
      BY DEF Phi
    <3>4. Phi(Top.bb, x).def[1] # "load"
      BY <3>3
    <3>5. m = <<>> \/ m = <<Phi(Top.bb, x).def>>
      OBVIOUS
    <3>. HIDE DEF s, m
    <3>6. CASE m = <<>>
      BY <3>1, <3>2, <3>6
    <3>7. CASE m = <<Phi(Top.bb, x).def>>
      <4>1. s \o m = Append(s, Phi(Top.bb, x).def)
        BY <3>1, <3>7
      <4>2. j \in 1 .. Len(s) + 1 /\ Len(s) \in Nat
        BY <3>1, <4>1
      <4>3. CASE j = Len(s) + 1
        BY <3>1, <3>4, <4>1, <4>3
      <4>4. CASE j # Len(s) + 1
        BY <3>1, <3>2, <4>1, <4>2, <4>4
      <4>. QED BY <4>3, <4>4
    <3>. QED BY <3>5, <3>6, <3>7
  <2>. QED BY <2>1 DEF NoLoads
<1>5. \A j \in 1 .. Len(code[Top.bb]) : ~Ran(f, j)
  BY <1>3 DEF Ran
<1>. QED BY <1>1, <1>3, <1>4, <1>5, QuietSSA

\* What dominates the innermost call is open, and behind re_name.
LEMMA NotAhead ==
  ASSUME RenameInv, frames # <<>>, NEW d \in Blocks, NEW j,
         IF d = Top.bb THEN Ran(Top, j) ELSE Dom(prog, d, Top.bb)
  PROVE  ~Ahead(prog, frames, d, j)
<1> DEFINE n == Len(frames)
<1>1. /\ frames \in Seq(Frames) /\ n \in Nat \ {0} /\ n \in 1 .. n /\ Top = frames[n] /\ Top.bb \in Blocks
      /\ Tree(prog, frames) /\ prog \in Programs
  BY TopFields DEF RenameInv
<1>2. PICK m \in 1 .. n : frames[m].bb = d
  <2>1. CASE d = Top.bb
    BY <1>1, <2>1
  <2>2. CASE d # Top.bb
    <3>1. \E m \in 1 .. n : frames[m].bb = d
      BY <1>1, <2>2 DEF Tree
    <3>. QED BY <3>1
  <2>. QED BY <2>1, <2>2
<1>3. ~ToCome(prog, frames, d)
  BY <1>1, <1>2 DEF Tree, ToCome
<1>4. ASSUME NEW k \in 1 .. n, frames[k].bb = d PROVE Ran(frames[k], j)
  <2>1. CASE k = n
    BY <1>1, <1>4, <2>1
  <2>2. CASE k # n
    <3>1. k < n
      BY <1>1, <2>2
    <3>2. frames[k].at = "kids"
      BY <1>1, <3>1 DEF Tree
    <3>. QED BY <3>2 DEF Ran
  <2>. QED BY <2>1, <2>2
<1>. QED BY <1>3, <1>4 DEF Ahead

LEMMA OperandPassed ==
  ASSUME RenameInv, ScopeInv, SetBeforeRead, phase = "rename", frames # <<>>,
         NEW i \in 1 .. Len(code[Top.bb]), \A j \in 1 .. Len(code[Top.bb]) : j < i => Ran(Top, j)
  PROVE  code[Top.bb][i].val[1] # "load"
<1>. SUFFICES ASSUME code[Top.bb][i].val[1] = "load" PROVE FALSE
  OBVIOUS
<1>1. Top.bb \in Blocks
  BY TopFields
<1>2. LoadAhead(prog, code, phase, frames, Top.bb, i)
  BY <1>1 DEF ScopeInv, InSSA, LoadsAhead
<1>3. PICK d \in Blocks : \E j \in 1 .. Len(code[d]) :
        (IF d = Top.bb THEN j < i ELSE Dom(prog, d, Top.bb)) /\ Ahead(prog, frames, d, j)
  BY <1>2 DEF LoadAhead
<1>4. PICK j \in 1 .. Len(code[d]) :
        (IF d = Top.bb THEN j < i ELSE Dom(prog, d, Top.bb)) /\ Ahead(prog, frames, d, j)
  BY <1>3
<1>5. IF d = Top.bb THEN Ran(Top, j) ELSE Dom(prog, d, Top.bb)
  BY <1>4
<1>. QED BY <1>4, <1>5, NotAhead

\* A value on a stack is not a load, and is there at the end of the innermost block.
LEMMA StackReaches ==
  ASSUME RenameInv, ScopeInv, SetBeforeRead, frames # <<>>, NEW x \in Vars, var_val_stack[x] # <<>>
  PROVE  LET w == Last(var_val_stack[x])
         IN  w \in Operands /\ w[1] # "load" /\ PhiReaches(prog, code, w, Top.bb)
<1> DEFINE w == Last(var_val_stack[x])
           n == Len(frames)
<1>1. /\ frames \in Seq(Frames) /\ n \in Nat \ {0} /\ n \in 1 .. n /\ Top = frames[n] /\ Top.bb \in Blocks
      /\ Tree(prog, frames) /\ prog \in Programs /\ code \in Codes /\ Stacks(code, frames, var_val_stack)
  BY TopFields DEF RenameInv
<1>2. var_val_stack[x] \in Seq(Operands) /\ w \in Operands /\ FromCalls(code, frames, n, w)
  BY <1>1, StackTop
<1>3. w[1] # "load"
  <2>1. Len(var_val_stack[x]) \in 1 .. Len(var_val_stack[x])
    BY <1>2
  <2>. QED BY <2>1 DEF ScopeInv, InSSA, NoLoads, Last
<1>. HIDE DEF w
<1>4. ASSUME w[1] = "phi"
      PROVE  \E d \in Blocks : Dom(prog, d, Top.bb) /\ \E j \in 1 .. Len(code[d]) : code[d][j].op = "phi" /\ code[d][j].def = w
  <2>1. PICK m \in 1 .. n : DefinedBy(code, frames[m], w)
    BY <1>2, <1>4 DEF FromCalls
  <2>2. frames[m].bb \in Blocks /\ Open(frames, frames[m].bb)
    BY <1>1, FrameFields DEF Open
  <2>3. AsBuilt(prog, code, frames[m].bb)
    BY <2>2 DEF RenameInv, Built
  <2>4. Dom(prog, frames[m].bb, Top.bb)
    <3>1. CASE m = n
      BY <1>1, <3>1, DomOrder
    <3>2. CASE m # n
      <4>1. m < n
        BY <1>1, <3>2
      <4>. QED BY <1>1, <4>1 DEF Tree
    <3>. QED BY <3>1, <3>2
  <2>5. PICK j \in 1 .. Len(code[frames[m].bb]) : code[frames[m].bb][j].def = w
    BY <2>1 DEF DefinedBy
  <2>6. code[frames[m].bb][j].op = "phi"
    BY <1>1, <1>4, <2>2, <2>3, <2>5, BuiltFields
  <2>. QED BY <2>2, <2>4, <2>5, <2>6
<1>. QED BY <1>2, <1>3, <1>4 DEF w, PhiReaches

LEMMA SSAPushStore ==
  ASSUME RenameInv, ScopeInv, SetBeforeRead, PushStore PROVE ScopeInv'
<1>1. /\ Renaming("instrs") /\ Top.i <= Len(code[Top.bb]) /\ NextInstr(TRUE)
      /\ phase = "rename" /\ frames # <<>> /\ Top.at = "instrs" /\ Instr.op = "store"
      /\ UNCHANGED <<prog, code, phase, todo>>
      /\ var_val_stack' = Push(var_val_stack, Instr.var, Instr.val)
  BY DEF PushStore, AtInstr, Renaming
<1>2. PICK f \in Frames :
        /\ frames' = Append(Front(frames), f)
        /\ f.bb = Top.bb /\ f.kids = Top.kids /\ f.at = "instrs" /\ f.i = Top.i + 1
        /\ f.wait = Top.wait \union {Instr.def}
        /\ Top.i \in 1 .. Len(code[Top.bb])
  BY <1>1, NextInstrFrame
<1>3. /\ Top \in Frames /\ Top.i \in Nat /\ frames \in Seq(Frames) /\ code \in Codes
      /\ Stacks(code, frames, var_val_stack)
  BY <1>1, TopFields DEF RenameInv
<1>4. \A j \in 1 .. Len(code[Top.bb]) : Ran(f, j) => Ran(Top, j) \/ j = Top.i
  BY <1>1, <1>2, <1>3 DEF Ran
<1>5. Instr.val[1] # "load"
  <2>1. \A j \in 1 .. Len(code[Top.bb]) : j < Top.i => Ran(Top, j)
    BY <1>1 DEF Ran
  <2>. QED BY <1>1, <1>2, <2>1, OperandPassed DEF Instr
<1>6. NoLoads(var_val_stack')
  <2>1. var_val_stack \in [Vars -> Seq(Operands)]
    BY <1>3 DEF Stacks, Pushed
  <2>2. NoLoads(var_val_stack)
    BY DEF ScopeInv, InSSA
  <2>3. ASSUME NEW x \in Vars, NEW j \in 1 .. Len(var_val_stack'[x])
        PROVE  var_val_stack'[x][j][1] # "load"
    <3>1. CASE x # Instr.var
      <4>1. var_val_stack'[x] = var_val_stack[x]
        BY <1>1, <2>1, <3>1 DEF Push
      <4>. QED BY <2>2, <2>3, <4>1 DEF NoLoads
    <3>2. CASE x = Instr.var
      <4> DEFINE s == var_val_stack[x]
      <4>1. var_val_stack'[x] = Append(s, Instr.val) /\ s \in Seq(Operands)
        BY <1>1, <2>1, <3>2 DEF Push
      <4>2. \A k \in 1 .. Len(s) : s[k][1] # "load"
        BY <2>2 DEF NoLoads
      <4>. HIDE DEF s
      <4>3. j \in 1 .. Len(s) + 1 /\ Len(s) \in Nat
        BY <2>3, <4>1
      <4>4. CASE j = Len(s) + 1
        BY <1>5, <4>1, <4>4
      <4>5. CASE j # Len(s) + 1
        BY <4>1, <4>2, <4>3, <4>5
      <4>. QED BY <4>4, <4>5
    <3>. QED BY <3>1, <3>2
  <2>. QED BY <2>3 DEF NoLoads
<1>7. code[Top.bb][Top.i].def \in f.wait /\ code[Top.bb][Top.i].op # "load"
  BY <1>1, <1>2 DEF Instr
<1>. QED BY <1>1, <1>2, <1>4, <1>6, <1>7, QuietSSA

\* A load finds its variable known: the entry sets it before it reads it, and
\* in another block the entry is done.
LEMMA LoadIsKnown ==
  ASSUME RenameInv, PhisInv, SetBeforeRead, AtInstr({"load"}) PROVE Instr.var \in known
<1> DEFINE n == Len(frames)
           x == Instr.var
<1>1. /\ phase = "rename" /\ frames # <<>> /\ Top.at = "instrs" /\ Top.i <= Len(code[Top.bb])
      /\ Instr.op = "load"
  BY DEF AtInstr, Renaming
<1>2. /\ frames \in Seq(Frames) /\ n \in Nat \ {0} /\ n \in 1 .. n /\ Top = frames[n] /\ Top.bb \in Blocks
      /\ Top \in Frames /\ Top.i \in Nat \ {0} /\ AsBuilt(prog, code, Top.bb) /\ Len(code[Top.bb]) \in Nat
      /\ Tree(prog, frames) /\ prog \in Programs /\ code \in Codes /\ Built(prog, code, phase, frames)
  BY <1>1, TopFields DEF RenameInv
<1>3. x \in Vars
  <2>1. Top.i \in 1 .. Len(code[Top.bb])
    BY <1>1, <1>2
  <2>. QED BY <1>1, <1>2, <2>1, BuiltFields DEF Instr
<1>4. CASE n > 1
  <2>1. SetsAll(prog)
    BY RunsOn
  <2>. HIDE DEF x
  <2>2. Pushes(code, frames[1], x) # {}
    BY <1>2, <1>3, <1>4, <2>1, OuterKnown
  <2>3. 1 \in 1 .. Len(frames)
    BY <1>2
  <2>4. PushedAreKnown(code, frames, known)
    BY <1>1 DEF PhisInv, Running
  <2>5. x \in known
    BY <1>3, <2>2, <2>3, <2>4 DEF PushedAreKnown
  <2>. QED BY <2>5 DEF x
<1>5. CASE n = 1
  <2>1. Top.bb = Entry
    BY <1>1, <1>2, <1>5 DEF Tree
  <2>2. PICK i \in DOMAIN prog.code[Entry] :
          /\ prog.code[Entry][i].op = "store" /\ prog.code[Entry][i].var = x
          /\ \A j \in 1 .. i : ~(prog.code[Entry][j].op = "load" /\ prog.code[Entry][j].var = x)
    BY <1>3 DEF SetBeforeRead
  <2> DEFINE s == prog.code[Entry]
             r == code[Entry]
  <2>3. prog.code \in Codes /\ Entry \in Blocks
    BY <1>2, BlocksAssumption, ProgramFields
  <2>4. Len(s) \in Nat /\ DOMAIN s = 1 .. Len(s)
    BY <2>3, CodeFields
  <2>5. PICK m \in Nat : /\ Len(r) = m + Len(s)
                         /\ \A k \in 1 .. m : r[k].op = "phi"
                         /\ \A k \in 1 .. Len(s) : SameAccess(r[m + k], s[k])
    BY <1>2, <2>1 DEF AsBuilt
  <2>6. r[Top.i].op = "load" /\ r[Top.i].var = x /\ Top.i \in 1 .. Len(r)
    BY <1>1, <1>2, <2>1 DEF Instr
  <2>7. i \in 1 .. Len(s) /\ s[i].op = "store" /\ s[i].var = x
        /\ \A j \in 1 .. i : ~(s[j].op = "load" /\ s[j].var = x)
    BY <2>2, <2>4
  <2>. HIDE DEF s, r, x
  <2>8. Top.i > m
    BY <1>2, <2>5, <2>6
  <2>9. Top.i - m \in 1 .. Len(s) /\ m + (Top.i - m) = Top.i
    BY <1>2, <2>4, <2>5, <2>6, <2>8
  <2>10. s[Top.i - m].op = "load" /\ s[Top.i - m].var = x
    BY <2>5, <2>6, <2>9 DEF SameAccess
  <2>11. Top.i - m > i
    BY <2>4, <2>7, <2>9, <2>10
  <2>12. m + i < Top.i /\ m + i \in 1 .. Len(r)
    BY <1>2, <2>4, <2>5, <2>6, <2>7, <2>11
  <2>13. r[m + i].op = "store" /\ r[m + i].var = x
    BY <2>5, <2>7 DEF SameAccess
  <2>14. m + i \in Pushes(code, Top, x)
    BY <1>1, <2>1, <2>12, <2>13 DEF Pushes, Ran, r
  <2>. QED BY <1>1, <1>3, <2>14, TopKnown DEF x
<1>6. n > 1 \/ n = 1
  <2>. HIDE DEF n
  <2>. QED BY <1>2
<1>. QED BY <1>4, <1>5, <1>6

LEMMA SSAKeepLoad ==
  ASSUME RenameInv, PhisInv, SetBeforeRead, KeepLoad PROVE ScopeInv'
BY LoadIsKnown DEF KeepLoad

\* What reaches the end of a block reaches the blocks it dominates, and stays
\* there as long as no phi is deleted.
LEMMA ReachesOn ==
  ASSUME NEW p \in Programs, NEW c, NEW v, NEW b \in Blocks, NEW d \in Blocks,
         PhiReaches(p, c, v, b), Dom(p, b, d)
  PROVE  PhiReaches(p, c, v, d)
<1>1. \A a \in Blocks : Dom(p, a, b) => Dom(p, a, d)
  BY DomOrder
<1>. QED BY <1>1 DEF PhiReaches

PhisStay(c, e) ==
  \A b \in Blocks : \A i \in 1 .. Len(c[b]) : c[b][i].op = "phi" =>
    \E j \in 1 .. Len(e[b]) : e[b][j].op = "phi" /\ e[b][j].def = c[b][i].def

LEMMA ReachesKept ==
  ASSUME NEW p, NEW c, NEW e, PhisStay(c, e)
  PROVE  \A v : \A b \in Blocks : PhiReaches(p, c, v, b) => PhiReaches(p, e, v, b)
<1>. SUFFICES ASSUME NEW v, NEW b \in Blocks, PhiReaches(p, c, v, b), v[1] = "phi"
              PROVE  \E d \in Blocks : Dom(p, d, b) /\ \E j \in 1 .. Len(e[d]) : e[d][j].op = "phi" /\ e[d][j].def = v
  BY DEF PhiReaches
<1>1. PICK d \in Blocks : Dom(p, d, b) /\ \E i \in 1 .. Len(c[d]) : c[d][i].op = "phi" /\ c[d][i].def = v
  BY DEF PhiReaches
<1>2. PICK i \in 1 .. Len(c[d]) : c[d][i].op = "phi" /\ c[d][i].def = v
  BY <1>1
<1>3. \E j \in 1 .. Len(e[d]) : e[d][j].op = "phi" /\ e[d][j].def = v
  BY <1>2 DEF PhisStay
<1>. QED BY <1>1, <1>3

LEMMA ShapeStays ==
  ASSUME NEW c, NEW e, SameShape(c, e)
  PROVE  PhisStay(c, e)
BY DEF SameShape, SameAccess, PhisStay

LEMMA RightKept ==
  ASSUME NEW p, NEW c \in Codes, NEW e, NEW b \in Blocks, NEW i \in 1 .. Len(c[b]),
         PhisStay(c, e), InstrsRight(p, c)
  PROVE  InstrRight(p, e, b, c[b][i])
<1> DEFINE ins == c[b][i]
<1>1. InstrRight(p, c, b, ins) /\ ins \in Instructions
  BY CodeFields DEF InstrsRight
<1>. HIDE DEF ins
<1>2. \A m \in 1 .. Len(ins.pairs) : ins.pairs[m][2] \in Blocks
  <2>1. ins.pairs \in Seq(Operands \X Blocks)
    BY <1>1, InstructionFields
  <2>2. \A m \in 1 .. Len(ins.pairs) : ins.pairs[m] \in Operands \X Blocks
    BY <2>1
  <2>. QED BY <2>2
<1>3. \A v : \A d \in Blocks : PhiReaches(p, c, v, d) => PhiReaches(p, e, v, d)
  BY ReachesKept
<1>4. InstrRight(p, e, b, ins)
  BY <1>1, <1>2, <1>3 DEF InstrRight
<1>. QED BY <1>4 DEF ins

\* The load of the innermost call dominates what takes it as an operand.
LEMMA LoadDominates ==
  ASSUME RenameInv, ScopeInv, SetBeforeRead, AtInstr({"load"}),
         NEW b \in Blocks, NEW i \in 1 .. Len(code[b]), code[b][i].val = Instr.def
  PROVE  Dom(prog, Top.bb, b)
<1>1. /\ phase = "rename" /\ frames # <<>> /\ Top.i <= Len(code[Top.bb]) /\ Instr.op = "load"
  BY DEF AtInstr, Renaming
<1>2. /\ Top.bb \in Blocks /\ Top.i \in 1 .. Len(code[Top.bb]) /\ AsBuilt(prog, code, Top.bb)
      /\ prog \in Programs /\ code \in Codes
  <2>1. Top.i \in Nat \ {0} /\ Len(code[Top.bb]) \in Nat
    BY <1>1, TopFields
  <2>. QED BY <1>1, <2>1, TopFields DEF RenameInv
<1>3. code[b][i].val[1] = "load"
  BY <1>1, <1>2, BuiltFields DEF Instr
<1>4. LoadAhead(prog, code, phase, frames, b, i)
  BY <1>3 DEF ScopeInv, InSSA, LoadsAhead
<1>5. PICK d \in Blocks : \E j \in 1 .. Len(code[d]) :
        /\ code[d][j].def = code[b][i].val
        /\ IF d = b THEN j < i ELSE Dom(prog, d, b)
        /\ Ahead(prog, frames, d, j)
  BY <1>1, <1>4 DEF LoadAhead
<1>6. PICK j \in 1 .. Len(code[d]) :
        /\ code[d][j].def = code[b][i].val
        /\ IF d = b THEN j < i ELSE Dom(prog, d, b)
        /\ Ahead(prog, frames, d, j)
  BY <1>5
<1>7. AsBuilt(prog, code, d)
  BY <1>6 DEF Ahead, Open, RenameInv, Built
<1>8. code[d][j].def = code[Top.bb][Top.i].def
  BY <1>6 DEF Instr
<1>9. d = Top.bb
  BY <1>2, <1>7, <1>8, BuiltUnique
<1>. QED BY <1>2, <1>6, <1>9, DomOrder

\* Replacing a load that no pair holds changes only value operands.
LEMMA ReplacedRight ==
  ASSUME NEW p, NEW c, NEW b, NEW ins \in Instructions, NEW v, NEW w \in Operands,
         v[1] = "load", w[1] # "load", InstrRight(p, c, b, ins),
         ins.val = v => PhiReaches(p, c, w, b)
  PROVE  InstrRight(p, c, b, Redirect(ins, v, w))
<1> DEFINE new == Redirect(ins, v, w)
<1>1. /\ new \in Instructions /\ SameAccess(new, ins)
      /\ new.val = IF ins.val = v THEN w ELSE ins.val
      /\ Len(new.pairs) = Len(ins.pairs)
      /\ \A j \in 1 .. Len(ins.pairs) : new.pairs[j] =
           IF ins.pairs[j][1] = v THEN <<w, ins.pairs[j][2]>> ELSE ins.pairs[j]
  BY Redirected
<1>. HIDE DEF new
<1>2. \A j \in 1 .. Len(ins.pairs) : new.pairs[j] = ins.pairs[j]
  <2>1. \A j \in 1 .. Len(ins.pairs) : ins.pairs[j][1] # v
    BY DEF InstrRight
  <2>. QED BY <1>1, <2>1
<1>3. new.op = ins.op
  BY <1>1 DEF SameAccess
<1>4. PhiReaches(p, c, new.val, b)
  BY <1>1 DEF InstrRight
<1>5. w # NoValue
  <2>1. \A u \in Operands : u[1] \in {"const", "load", "phi"}
    BY DEF Operands
  <2>2. NoValue[1] = "none"
    BY DEF NoValue
  <2>. QED BY <2>1, <2>2
<1>6. new.op = "use" => new.val # NoValue
  BY <1>1, <1>3, <1>5 DEF InstrRight
<1>7. new.op # "phi" => new.pairs = <<>>
  <2>1. new.op # "phi" => Len(new.pairs) = 0
    BY <1>1, <1>3 DEF InstrRight
  <2>2. new.pairs \in Seq(Operands \X Blocks)
    BY <1>1, InstructionFields
  <2>. QED BY <2>1, <2>2
<1>8. InstrRight(p, c, b, new)
  BY <1>1, <1>2, <1>4, <1>6, <1>7 DEF InstrRight
<1>. QED BY <1>8 DEF new

LEMMA SSAReplaceLoad ==
  ASSUME RenameInv, RenameInv', ScopeInv, SetBeforeRead, ReplaceLoad PROVE ScopeInv'
<1> DEFINE x == Instr.var
           v == Instr.def
           w == Last(var_val_stack[x])
<1>1. /\ Renaming("instrs") /\ Top.i <= Len(code[Top.bb]) /\ Instr.op = "load" /\ AtInstr({"load"})
      /\ phase = "rename" /\ frames # <<>> /\ Top.at = "instrs" /\ NextInstr(TRUE) /\ x \in known
      /\ UNCHANGED <<prog, todo, var_val_stack, known>>
  BY DEF ReplaceLoad, AtInstr, Renaming
<1>2. PICK f \in Frames :
        /\ frames' = Append(Front(frames), f)
        /\ f.bb = Top.bb /\ f.kids = Top.kids /\ f.at = "instrs" /\ f.i = Top.i + 1
        /\ f.wait = Top.wait \union {v}
        /\ Top.i \in 1 .. Len(code[Top.bb])
  BY <1>1, NextInstrFrame
<1>3. /\ Top \in Frames /\ Top.i \in Nat /\ Top.bb \in Blocks /\ AsBuilt(prog, code, Top.bb)
      /\ frames \in Seq(Frames) /\ Len(frames) \in 1 .. Len(frames) /\ Top = frames[Len(frames)]
      /\ prog \in Programs /\ code \in Codes /\ known \subseteq Vars
  BY <1>1, TopFields DEF RenameInv
<1>4. \A j \in 1 .. Len(code[Top.bb]) : Ran(f, j) => Ran(Top, j) \/ j = Top.i
  BY <1>1, <1>2, <1>3 DEF Ran
<1>5. code[Top.bb][Top.i].def = v /\ v[1] = "load"
  BY <1>1, <1>2, <1>3, BuiltFields, SMTT(30) DEF Instr
<1>6. /\ NoLoads(var_val_stack') /\ InstrsRight(prog, code)
      /\ WaitsFor(code, Top) /\ InSSA(prog, code, phase, frames, var_val_stack)
  BY <1>1, <1>3 DEF ScopeInv, InSSA
<1>7. phase' = "rename"
  <2>1. phase' \in {"rename", "fault"}
    BY <1>1 DEF ReplaceLoad
  <2>2. SetsAll(prog')
    BY <1>1, RunsOn
  <2>3. phase' # "fault"
    BY <2>2 DEF RenameInv
  <2>. QED BY <2>1, <2>3
<1>8. CASE UNCHANGED code
  <2>1. ASSUME NEW b \in Blocks, NEW i \in 1 .. Len(code[b]) PROVE code[b][i].val # v
    <3>1. DOMAIN code[b] = 1 .. Len(code[b])
      BY <1>3, CodeFields
    <3>2. CASE ~HasUses(v)
      <4>1. code[b][i] \in Instrs(b)
        BY <3>1 DEF Instrs, Range
      <4>. QED BY <3>2, <4>1 DEF HasUses
    <3>3. CASE var_val_stack[x] # <<>> /\ w # v
      <4>1. code = ReplaceAllUses(v, w) /\ w \in Operands
        <5>1. w \in Operands
          BY <1>1, <1>3, <3>3, StackTop DEF RenameInv
        <5>. QED BY <1>8, <3>3, <5>1 DEF ReplaceLoad
      <4>2. ReplaceAllUses(v, w)[b][i].val = IF code[b][i].val = v THEN w ELSE code[b][i].val
        BY <1>3, <4>1, Replaced
      <4>. QED BY <3>3, <4>1, <4>2
    <3>4. HasUses(v) => var_val_stack[x] # <<>> /\ w # v
      BY <1>7 DEF ReplaceLoad
    <3>. QED BY <3>2, <3>3, <3>4
  <2>2. \A j \in 1 .. Len(code[Top.bb]) : Ran(f, j) => Ran(Top, j) \/
          /\ code[Top.bb][j].op \in Accesses => code[Top.bb][j].def \in f.wait
          /\ \/ code[Top.bb][j].op # "load"
             \/ \A b \in Blocks : \A i \in 1 .. Len(code[b]) : code[b][i].val # code[Top.bb][j].def
    BY <1>2, <1>4, <1>5, <2>1
  <2>. QED BY <1>1, <1>2, <1>6, <1>7, <1>8, <2>2, QuietSSA
<1>9. CASE ~UNCHANGED code
  <2>1. var_val_stack[x] # <<>> /\ code' = ReplaceAllUses(v, w) /\ w # v
    BY <1>9 DEF ReplaceLoad
  <2>2. w \in Operands /\ w[1] # "load" /\ PhiReaches(prog, code, w, Top.bb)
    BY <1>1, <1>3, <2>1, StackReaches
  <2>3. /\ code' \in Codes /\ SameShape(code, code')
        /\ \A b \in Blocks : \A i \in 1 .. Len(code[b]) :
             code'[b][i].val = IF code[b][i].val = v THEN w ELSE code[b][i].val
    BY <1>3, <2>1, <2>2, Replaced
  <2>4. InstrsRight(prog, code')
    <3>1. ASSUME NEW b \in Blocks, NEW i \in 1 .. Len(code[b]) PROVE InstrRight(prog, code', b, code'[b][i])
      <4> DEFINE ins == code[b][i]
      <4>1. ins \in Instructions /\ DOMAIN code[b] = 1 .. Len(code[b])
        BY <1>3, CodeFields
      <4>2. code'[b][i] = Redirect(ins, v, w)
        BY <2>1, <4>1 DEF ReplaceAllUses
      <4>3. PhisStay(code, code')
        BY <2>3, ShapeStays
      <4>4. InstrRight(prog, code', b, ins)
        BY <1>3, <1>6, <4>3, RightKept
      <4>5. ASSUME ins.val = v PROVE PhiReaches(prog, code', w, b)
        <5>1. Dom(prog, Top.bb, b)
          BY <1>1, <4>5, LoadDominates
        <5>2. PhiReaches(prog, code, w, b)
          BY <1>3, <2>2, <5>1, ReachesOn
        <5>. QED BY <4>3, <5>2, ReachesKept
      <4>. HIDE DEF ins, v, w
      <4>6. InstrRight(prog, code', b, Redirect(ins, v, w))
        BY <1>5, <2>2, <4>1, <4>4, <4>5, ReplacedRight
      <4>. QED BY <4>2, <4>6
    <3>2. \A b \in Blocks : Len(code'[b]) = Len(code[b])
      BY <2>3 DEF SameShape
    <3>. QED BY <3>1, <3>2 DEF InstrsRight
  <2>5. WaitsFor(code', f)
    <3>1. /\ Len(code'[Top.bb]) = Len(code[Top.bb])
          /\ \A j \in 1 .. Len(code[Top.bb]) : /\ code'[Top.bb][j].op = code[Top.bb][j].op
                                               /\ code'[Top.bb][j].def = code[Top.bb][j].def
      BY <1>3, <2>3 DEF SameShape, SameAccess
    <3>2. Top.wait \subseteq f.wait /\ v \in f.wait
      BY <1>2
    <3>. QED BY <1>2, <1>4, <1>5, <1>6, <3>1, <3>2, ZenonT(30) DEF WaitsFor
  <2>6. \A b \in Blocks : \A i \in 1 .. Len(code[b]) :
          code'[b][i].val[1] = "load" => code[b][i].val = code'[b][i].val
    BY <2>2, <2>3
  <2>7. \A b \in Blocks : \A i \in 1 .. Len(code[b]) : code'[b][i].val # v
    BY <2>1, <2>3
  <2>8. \A j \in 1 .. Len(code[Top.bb]) : Ran(f, j) =>
          \/ Ran(Top, j) \/ code[Top.bb][j].def[1] # "load"
          \/ \A b \in Blocks : \A i \in 1 .. Len(code[b]) : code'[b][i].val # code[Top.bb][j].def
    BY <1>4, <1>5, <2>7
  <2>. QED BY <1>1, <1>2, <1>6, <1>7, <2>3, <2>4, <2>5, <2>6, <2>8, InnerSSA
<1>. QED BY <1>8, <1>9

\* A pair names a value that is there at the end of the block it names.
LEMMA FilledInScope ==
  ASSUME NEW p, NEW c, NEW b, NEW ins \in Instructions, InstrRight(p, c, b, ins), Top.bb \in Blocks,
         ins.op = "phi" /\ ins.var \in known =>
           LET w == Last(var_val_stack[ins.var])
           IN  w \in Operands /\ w[1] # "load" /\ PhiReaches(p, c, w, Top.bb)
  PROVE  InstrRight(p, c, b, Filled(ins))
<1> DEFINE new == Filled(ins)
           w == Last(var_val_stack[ins.var])
<1>1. CASE ins.op = "phi" /\ ins.var \in known
  <2>1. /\ new.op = ins.op /\ new.val = ins.val /\ new.pairs = Append(ins.pairs, <<w, Top.bb>>)
    BY <1>1, FilledFields DEF SameAccess
  <2>2. w[1] # "load" /\ PhiReaches(p, c, w, Top.bb) /\ ins.pairs \in Seq(Operands \X Blocks)
    BY <1>1, InstructionFields
  <2>. HIDE DEF new, w
  <2>3. ASSUME NEW m \in 1 .. Len(new.pairs)
        PROVE  new.pairs[m][1][1] # "load" /\ PhiReaches(p, c, new.pairs[m][1], new.pairs[m][2])
    <3>1. m \in 1 .. Len(ins.pairs) + 1 /\ Len(ins.pairs) \in Nat
      BY <2>1, <2>2
    <3>2. CASE m = Len(ins.pairs) + 1
      <4>1. new.pairs[m] = <<w, Top.bb>>
        BY <2>1, <2>2, <3>2
      <4>2. new.pairs[m][1] = w /\ new.pairs[m][2] = Top.bb
        BY <4>1
      <4>. QED BY <2>2, <4>2
    <3>3. CASE m # Len(ins.pairs) + 1
      <4>1. m \in 1 .. Len(ins.pairs) /\ new.pairs[m] = ins.pairs[m]
        BY <2>1, <2>2, <3>1, <3>3
      <4>. QED BY <4>1 DEF InstrRight
    <3>. QED BY <3>2, <3>3
  <2>4. InstrRight(p, c, b, new)
    BY <1>1, <2>1, <2>3 DEF InstrRight
  <2>. QED BY <2>4 DEF new
<1>2. CASE ~(ins.op = "phi" /\ ins.var \in known)
  <2>1. new = ins
    BY <1>2 DEF Filled
  <2>. QED BY <2>1
<1>. QED BY <1>1, <1>2

LEMMA SSAFillPhis ==
  ASSUME RenameInv, RenameInv', ScopeInv, SetBeforeRead, FillPhis PROVE ScopeInv'
<1> DEFINE t == Top.bb
           s == prog.succ[t][Top.i]
           f == [Top EXCEPT !.i = @ + 1]
           empty == \E ins \in Phis(s) : ins.var \in known /\ var_val_stack[ins.var] = <<>>
           e == [code EXCEPT ![s] = [i \in DOMAIN @ |-> Filled(@[i])]]
<1>1. /\ phase = "rename" /\ frames # <<>> /\ Top.at = "succs" /\ Top.i <= Len(prog.succ[t])
      /\ frames' = Append(Front(frames), f) /\ UNCHANGED <<prog, todo, var_val_stack, known>>
  BY DEF FillPhis, Renaming, SetTop
<1>2. /\ frames \in Seq(Frames) /\ Len(frames) \in 1 .. Len(frames) /\ Top = frames[Len(frames)]
      /\ Top \in Frames /\ t \in Blocks /\ Top.i \in Nat \ {0}
      /\ prog \in Programs /\ code \in Codes /\ known \subseteq Vars
  BY <1>1, TopFields DEF RenameInv
<1>3. /\ f \in Frames /\ f.bb = t /\ f.kids = Top.kids /\ f.at = "succs" /\ f.wait = Top.wait
  BY <1>1, <1>2, FrameNext
<1>4. s \in Blocks
  <2>1. prog.succ[t] \in Seq(Blocks)
    BY <1>2, ProgramFields
  <2>2. Top.i \in 1 .. Len(prog.succ[t])
    BY <1>1, <1>2, <2>1
  <2>. QED BY <2>1, <2>2
<1>. HIDE DEF f
<1>5. ~empty /\ code' = e /\ phase' = "rename"
  <2>1. SetsAll(prog')
    BY <1>1, RunsOn
  <2>2. phase' # "assert"
    BY <2>1 DEF RenameInv
  <2>. QED BY <1>1, <2>2 DEF FillPhis
<1>6. /\ NoLoads(var_val_stack') /\ InstrsRight(prog, code)
      /\ WaitsFor(code, Top) /\ InSSA(prog, code, phase, frames, var_val_stack)
  BY <1>1, <1>2 DEF ScopeInv, InSSA
<1>7. /\ DOMAIN code[s] = 1 .. Len(code[s]) /\ Len(code[s]) \in Nat
      /\ \A i \in 1 .. Len(code[s]) : code[s][i] \in Instructions
  BY <1>2, <1>4, CodeFields
<1>8. e = [b \in Blocks |-> IF b = s THEN [i \in 1 .. Len(code[s]) |-> Filled(code[s][i])] ELSE code[b]]
  BY <1>2, <1>7 DEF Codes
<1>. HIDE DEF e
<1>9. ASSUME NEW ins \in Range(code[s]), ins.op = "phi", ins.var \in known
      PROVE  LET w == Last(var_val_stack[ins.var])
             IN  w \in Operands /\ w[1] # "load" /\ PhiReaches(prog, code, w, t)
  <2>1. ins \in Phis(s)
    BY <1>9 DEF Phis, Instrs
  <2>2. ins.var \in Vars /\ var_val_stack[ins.var] # <<>>
    BY <1>2, <1>5, <1>9, <2>1
  <2>. QED BY <1>1, <2>2, StackReaches
<1>10. ASSUME NEW i \in 1 .. Len(code[s])
       PROVE  /\ InstrRight(prog, code, s, Filled(code[s][i]))
              /\ Filled(code[s][i]) \in Instructions /\ SameAccess(Filled(code[s][i]), code[s][i])
              /\ Filled(code[s][i]).val = code[s][i].val
  <2> DEFINE ins == code[s][i]
  <2>1. ins \in Instructions /\ ins \in Range(code[s]) /\ InstrRight(prog, code, s, ins)
    BY <1>4, <1>6, <1>7 DEF Range, InstrsRight
  <2>. HIDE DEF ins
  <2>2. ins.op = "phi" /\ ins.var \in known =>
          LET w == Last(var_val_stack[ins.var])
          IN  w \in Operands /\ w[1] # "load" /\ PhiReaches(prog, code, w, Top.bb)
    BY <1>9, <2>1
  <2>3. InstrRight(prog, code, s, Filled(ins))
    BY <1>2, <2>1, <2>2, FilledInScope
  <2>4. /\ Filled(ins) \in Instructions /\ SameAccess(Filled(ins), ins) /\ Filled(ins).val = ins.val
    BY <1>2, <2>1, <2>2, FilledFields
  <2>. QED BY <2>3, <2>4 DEF ins
<1>11. /\ e[s] \in Seq(Instructions) /\ Len(e[s]) = Len(code[s])
       /\ \A i \in 1 .. Len(code[s]) : e[s][i] = Filled(code[s][i])
       /\ \A b \in Blocks : b # s => e[b] = code[b]
  <2> DEFINE m == Len(code[s])
  <2>1. m \in Nat
    BY <1>7
  <2>2. e[s] = [i \in 1 .. m |-> Filled(code[s][i])] /\ \A b \in Blocks : b # s => e[b] = code[b]
    BY <1>4, <1>8
  <2>3. \A i \in 1 .. m : Filled(code[s][i]) \in Instructions
    BY <1>10
  <2>. HIDE DEF m
  <2>4. /\ e[s] \in Seq(Instructions) /\ Len(e[s]) = m
        /\ \A i \in 1 .. m : e[s][i] = Filled(code[s][i])
    <3> DEFINE r == e[s]
    <3>1. r = [i \in 1 .. m |-> Filled(code[s][i])]
      BY <2>2
    <3>. HIDE DEF r
    <3>2. \A i \in 1 .. m : r[i] = Filled(code[s][i])
      BY <3>1
    <3>3. r = [i \in 1 .. m |-> r[i]] /\ \A i \in 1 .. m : r[i] \in Instructions
      BY <2>3, <3>1, <3>2
    <3>4. r \in Seq(Instructions) /\ Len(r) = m
      BY <2>1, <3>3, SeqFrom
    <3>. QED BY <3>2, <3>4 DEF r
  <2>. QED BY <2>2, <2>4 DEF m
<1>12. e \in Codes
  <2>1. \A b \in Blocks : e[b] \in Seq(Instructions)
    BY <1>2, <1>11, CodeFields
  <2>. QED BY <1>8, <2>1 DEF Codes
<1>13. ASSUME NEW b \in Blocks
       PROVE  /\ Len(e[b]) = Len(code[b])
              /\ \A i \in 1 .. Len(code[b]) :
                   /\ SameAccess(e[b][i], code[b][i]) /\ e[b][i].val = code[b][i].val
                   /\ InstrRight(prog, code, b, e[b][i])
  <2>1. CASE b = s
    BY <1>10, <1>11, <2>1
  <2>2. CASE b # s
    BY <1>6, <1>11, <2>2 DEF SameAccess, InstrsRight
  <2>. QED BY <2>1, <2>2
<1>14. SameShape(code, e) /\ InstrsRight(prog, code) /\ PhisStay(e, e)
  <2>1. SameShape(code, e)
    BY <1>13 DEF SameShape
  <2>2. PhisStay(e, e)
    BY DEF PhisStay
  <2>. QED BY <1>6, <2>1, <2>2
<1>15. InstrsRight(prog, e)
  <2>1. ASSUME NEW b \in Blocks, NEW i \in 1 .. Len(e[b]) PROVE InstrRight(prog, e, b, e[b][i])
    <3> DEFINE ins == e[b][i]
    <3>1. InstrRight(prog, code, b, ins) /\ ins \in Instructions
      BY <1>12, <1>13, CodeFields
    <3>2. \A v : \A d \in Blocks : PhiReaches(prog, code, v, d) => PhiReaches(prog, e, v, d)
      BY <1>14, ShapeStays, ReachesKept
    <3>. HIDE DEF ins
    <3>3. ins.pairs \in Seq(Operands \X Blocks)
      BY <3>1, InstructionFields
    <3>4. \A m \in 1 .. Len(ins.pairs) : ins.pairs[m] \in Operands \X Blocks
      BY <3>3
    <3>5. \A m \in 1 .. Len(ins.pairs) : ins.pairs[m][2] \in Blocks
      BY <3>4
    <3>6. InstrRight(prog, e, b, ins)
      BY <3>1, <3>2, <3>5 DEF InstrRight
    <3>. QED BY <3>6 DEF ins
  <2>. QED BY <2>1 DEF InstrsRight
<1>16. \A j : Ran(f, j) /\ Ran(Top, j)
  BY <1>1, <1>3 DEF Ran
<1>17. WaitsFor(e, f)
  BY <1>2, <1>3, <1>6, <1>13, <1>16 DEF WaitsFor, SameAccess
<1>18. \A b \in Blocks : \A i \in 1 .. Len(code[b]) :
          e[b][i].val[1] = "load" => code[b][i].val = e[b][i].val
  BY <1>13
<1>. QED BY <1>1, <1>3, <1>5, <1>6, <1>12, <1>14, <1>15, <1>16, <1>17, <1>18, InnerSSA

LEMMA SSAEnterChild ==
  ASSUME RenameInv, ScopeInv, SetBeforeRead, EnterChild PROVE ScopeInv'
<1>1. /\ phase = "rename" /\ frames # <<>> /\ Top.at = "kids"
      /\ UNCHANGED <<prog, code, phase, todo, var_val_stack, known>>
  BY DEF EnterChild, Renaming
<1>2. PICK b \in Top.kids :
        frames' = Append(Append(Front(frames), [Top EXCEPT !.kids = @ \ {b}]), Call(b))
  BY DEF EnterChild
<1> DEFINE n == Len(frames)
           f == [Top EXCEPT !.kids = @ \ {b}]
           call == NewCall(prog, b)
           mid == Append(Front(frames), f)
           new == Append(mid, call)
<1>3. frames' = new
  BY <1>2 DEF Call, NewCall
<1>4. /\ frames \in Seq(Frames) /\ n \in Nat \ {0} /\ Top = Last(frames) /\ Top = frames[n]
      /\ Top \in Frames /\ b \in Blocks
  BY <1>1, TopFields DEF Top
<1>5. f \in Frames /\ f.bb = Top.bb /\ f.kids = Top.kids \ {b} /\ f.at = "kids" /\ f.wait = Top.wait
  BY <1>1, <1>4, FrameKids
<1>6. /\ prog \in Programs /\ code \in Codes /\ Tree(prog, frames)
      /\ InSSA(prog, code, "rename", frames, var_val_stack)
  BY <1>1 DEF RenameInv, ScopeInv
<1>. HIDE DEF f
<1>7. \A d \in Blocks : /\ Open(new, d) <=> Open(frames, d) \/ d = b
                        /\ ToCome(prog, new, d) \/ d = b <=> ToCome(prog, frames, d)
  <2>1. new = Append(Append(Front(frames), f), NewCall(prog, b))
    OBVIOUS
  <2>2. /\ frames # <<>> /\ Last(frames).at = "kids" /\ b \in Last(frames).kids /\ f.bb = Last(frames).bb
        /\ f.kids = Last(frames).kids \ {b} /\ f.at = "kids" /\ f \in Frames
        /\ prog \in Programs /\ Tree(prog, frames)
    BY <1>1, <1>2, <1>4, <1>5, <1>6
  <2>. HIDE DEF mid, new
  <2>. QED BY <2>1, <2>2, TreeEntered
<1>8. /\ mid \in Seq(Frames) /\ Len(mid) = n /\ mid[n] = f
      /\ \A k \in 1 .. n : k # n => mid[k] = frames[k]
  BY <1>1, <1>4, <1>5, SetLast
<1>9. call \in Frames /\ call.at = "phis" /\ call.bb = b
  BY <1>4, <1>6, NewCallType DEF NewCall
<1>. HIDE DEF mid, call
<1>10. Len(new) = n + 1 /\ new[n + 1] = call /\ \A k \in 1 .. n : new[k] = mid[k]
  BY <1>4, <1>8, <1>9
<1>11. /\ n \in 1 .. n /\ \A k \in 1 .. n + 1 : k \in 1 .. n \/ k = n + 1
       /\ \A k \in 1 .. n : k \in 1 .. n + 1
       /\ n + 1 \in 1 .. n + 1
  BY <1>4
<1>. HIDE DEF new
<1>12. ASSUME NEW k \in 1 .. n
       PROVE  /\ new[k].bb = frames[k].bb /\ new[k].wait = frames[k].wait
              /\ \A j : Ran(new[k], j) <=> Ran(frames[k], j)
  <2>1. CASE k = n
    <3>1. \A j : Ran(f, j) /\ Ran(Top, j)
      BY <1>1, <1>5 DEF Ran
    <3>. QED BY <1>4, <1>5, <1>8, <1>10, <2>1, <3>1
  <2>2. CASE k # n
    BY <1>8, <1>10, <2>2
  <2>. QED BY <2>1, <2>2
<1>13. \A d \in Blocks : Left(prog, new, d) => Left(prog, frames, d)
  BY <1>7 DEF Left
<1>14. \A j : ~Ran(call, j)
  BY <1>9 DEF Ran
<1>15. ASSUME NEW d \in Blocks, NEW j, Ahead(prog, frames, d, j) PROVE Ahead(prog, new, d, j)
  <2>1. CASE d = b
    BY <1>9, <1>10, <1>11, <1>14, <2>1 DEF Ahead
  <2>2. CASE d # b /\ ToCome(prog, frames, d)
    BY <1>7, <2>2 DEF Ahead
  <2>3. CASE ~ToCome(prog, frames, d)
    <3>1. PICK k \in 1 .. n : frames[k].bb = d /\ ~Ran(frames[k], j)
      BY <1>15, <2>3 DEF Ahead
    <3>. QED BY <1>10, <1>11, <1>12, <3>1 DEF Ahead
  <2>. QED BY <2>1, <2>2, <2>3
<1>16. LoadsAhead(prog, code, "rename", new)
  <2>1. LoadsAhead(prog, code, "rename", frames)
    BY <1>6 DEF InSSA
  <2>2. \A d \in Blocks : \A j : Ahead(prog, frames, d, j) => Ahead(prog, new, d, j)
    BY <1>15
  <2>. QED BY <2>1, <2>2 DEF LoadsAhead, LoadAhead
<1>17. ASSUME NEW k \in 1 .. n + 1 PROVE WaitsFor(code, new[k])
  <2>1. CASE k \in 1 .. n
    BY <1>6, <1>12, <2>1 DEF InSSA, WaitsFor
  <2>2. CASE k = n + 1
    BY <1>10, <1>14, <2>2 DEF WaitsFor
  <2>. QED BY <1>11, <2>1, <2>2
<1>18. InSSA(prog, code, "rename", new, var_val_stack)
  BY <1>6, <1>10, <1>13, <1>16, <1>17 DEF InSSA
<1>. QED BY <1>1, <1>3, <1>18 DEF ScopeInv

\* Deleting instructions keeps the phis in front.
LEMMA KeptInFront ==
  ASSUME NEW s \in Seq(Instructions), NEW K, PhisInFront(s)
  PROVE  LET r == Kept(s, K)
         IN  /\ PhisInFront(r)
             /\ \A i \in 1 .. Len(r) : \E k \in 1 .. Len(s) : r[i] = s[k] /\ s[k] \in K
<1> DEFINE r == Kept(s, K)
<1>1. r \in Seq(Instructions) /\ Selects(r, s, K, Len(s))
  BY KeptSelects
<1>. HIDE DEF r
<1>2. \A i \in 1 .. Len(r) : \E k \in 1 .. Len(s) : r[i] = s[k] /\ s[k] \in K
  BY <1>1 DEF Selects
<1>3. ASSUME NEW i \in 1 .. Len(r), NEW j \in 1 .. Len(r), r[i].op = "phi", r[j].op # "phi", ~(i < j)
      PROVE  FALSE
  <2>1. j < i
    BY <1>1, <1>3
  <2>2. PICK k, l \in 1 .. Len(s) : k < l /\ r[j] = s[k] /\ r[i] = s[l]
    BY <1>1, <2>1 DEF Selects
  <2>3. l < k
    BY <1>3, <2>2 DEF PhisInFront
  <2>. QED BY <2>2, <2>3
<1>4. PhisInFront(r)
  BY <1>3 DEF PhisInFront
<1>. QED BY <1>2, <1>4 DEF r

LEMMA SSALeave ==
  ASSUME RenameInv, PhisInv, ScopeInv, SetBeforeRead, Leave PROVE ScopeInv'
<1> DEFINE n == Len(frames)
           t == Top.bb
           new == Front(frames)
           K == {ins \in Range(code[t]) : ins.def \notin Top.wait}
           e == [code EXCEPT ![t] = Kept(@, K)]
           vs == var_val_stack
<1>1. /\ phase = "rename" /\ frames # <<>> /\ Top.at = "kids" /\ Top.kids = {}
      /\ frames' = new /\ code' = e /\ UNCHANGED <<prog, phase, todo, known>>
      /\ vs' = [x \in Vars |-> SubSeq(vs[x], 1, Len(vs[x]) - Defined(t, x))]
  BY DEF Leave, Renaming
<1>2. /\ frames \in Seq(Frames) /\ n \in Nat \ {0} /\ n \in 1 .. n /\ Top = frames[n] /\ Top = Last(frames)
      /\ Top \in Frames /\ t \in Blocks /\ DOMAIN code[t] = 1 .. Len(code[t])
      /\ AsBuilt(prog, code, t) /\ code[t] \in Seq(Instructions)
  BY <1>1, TopFields DEF Top
<1>3. /\ prog \in Programs /\ code \in Codes /\ Tree(prog, frames) /\ WaitsKeepPhis(frames)
      /\ InSSA(prog, code, "rename", frames, vs) /\ vs \in [Vars -> Seq(Operands)]
  BY <1>1 DEF RenameInv, PhisInv, Running, ScopeInv, Stacks, Pushed
<1>4. \A i \in 1 .. Len(code[t]) : code[t][i].op = "phi" => code[t][i] \in K
  <2>1. \A i \in 1 .. Len(code[t]) : code[t][i].op = "phi" => code[t][i].def[1] = "phi"
    BY <1>2, <1>3, BuiltFields
  <2>2. \A v \in Top.wait : v[1] # "phi"
    BY <1>2, <1>3 DEF WaitsKeepPhis
  <2>. QED BY <1>2, <2>1, <2>2 DEF Range
<1>5. \A j : Ran(Top, j)
  BY <1>1 DEF Ran
<1>6. \A i \in 1 .. Len(code[t]) : code[t][i] \in K => code[t][i].op \notin Accesses
  <2>1. WaitsFor(code, Top)
    BY <1>2, <1>3 DEF InSSA
  <2>. QED BY <1>5, <2>1 DEF WaitsFor
<1>. HIDE DEF K
<1>7. e[t] = Kept(code[t], K) /\ \A d \in Blocks : d # t => e[d] = code[d]
  BY <1>2, <1>3 DEF Codes
<1>8. /\ \A b \in Blocks : /\ Open(frames, b) <=> Open(new, b) \/ b = t
                           /\ ToCome(prog, new, b) <=> ToCome(prog, frames, b)
  BY <1>1, <1>2, <1>3, TreeLeft
<1>9. new \in Seq(Frames) /\ Len(new) = n - 1 /\ \A k \in 1 .. n - 1 : new[k] = frames[k]
  BY <1>1, <1>2, DropLast
<1>. HIDE DEF e, new
<1>10. /\ \A k \in 1 .. n - 1 : k \in 1 .. n /\ k < n
       /\ \A k \in 1 .. n : k \in 1 .. n - 1 \/ k = n
  BY <1>2
<1>11. /\ PhisInFront(e[t]) /\ Cleared(e[t])
       /\ \A i \in 1 .. Len(e[t]) : \E k \in 1 .. Len(code[t]) : e[t][i] = code[t][k]
       /\ \A k \in 1 .. Len(code[t]) : code[t][k].op = "phi" => \E i \in 1 .. Len(e[t]) : e[t][i] = code[t][k]
  <2> DEFINE s == code[t]
  <2>1. /\ s \in Seq(Instructions) /\ PhisInFront(s) /\ \A i \in 1 .. Len(s) : s[i].op = "phi" => s[i] \in K
        /\ \A i \in 1 .. Len(s) : s[i] \in K => s[i].op \notin Accesses
    BY <1>2, <1>3, <1>4, <1>6 DEF InSSA
  <2>. HIDE DEF s
  <2>2. /\ PhisInFront(Kept(s, K))
        /\ \A i \in 1 .. Len(Kept(s, K)) : \E k \in 1 .. Len(s) : Kept(s, K)[i] = s[k] /\ s[k] \in K
    BY <2>1, KeptInFront
  <2>3. \A j \in 1 .. Len(s) : s[j].op = "phi" => \E i \in 1 .. Len(Kept(s, K)) : Kept(s, K)[i] = s[j]
    BY <2>1, KeptPhis
  <2>4. Cleared(Kept(s, K))
    BY <2>1, <2>2 DEF Cleared
  <2>. QED BY <1>7, <2>2, <2>3, <2>4 DEF s
<1>12. PhisStay(code, e)
  <2>1. ASSUME NEW b \in Blocks, NEW i \in 1 .. Len(code[b]), code[b][i].op = "phi"
        PROVE  \E j \in 1 .. Len(e[b]) : e[b][j].op = "phi" /\ e[b][j].def = code[b][i].def
    <3>1. CASE b = t
      BY <1>11, <2>1, <3>1
    <3>2. CASE b # t
      BY <1>7, <2>1, <3>2
    <3>. QED BY <3>1, <3>2
  <2>. QED BY <2>1 DEF PhisStay
<1>13. ASSUME NEW b \in Blocks, NEW i \in 1 .. Len(e[b])
       PROVE  \E k \in 1 .. Len(code[b]) : e[b][i] = code[b][k]
  <2>1. CASE b = t
    BY <1>11, <2>1
  <2>2. CASE b # t
    BY <1>7, <2>2
  <2>. QED BY <2>1, <2>2
<1>14. InstrsRight(prog, e)
  <2>1. ASSUME NEW b \in Blocks, NEW i \in 1 .. Len(e[b]) PROVE InstrRight(prog, e, b, e[b][i])
    <3>1. PICK k \in 1 .. Len(code[b]) : e[b][i] = code[b][k]
      BY <1>13
    <3>2. InstrsRight(prog, code)
      BY <1>3 DEF InSSA
    <3>3. InstrRight(prog, e, b, code[b][k])
      BY <1>3, <1>12, <3>2, RightKept
    <3>. QED BY <3>1, <3>3
  <2>. QED BY <2>1 DEF InstrsRight
<1>15. LoadsAhead(prog, e, "rename", new)
  <2>1. ASSUME NEW b \in Blocks, NEW i \in 1 .. Len(e[b]), e[b][i].val[1] = "load"
        PROVE  LoadAhead(prog, e, "rename", new, b, i)
    <3>1. b # t
      <4>1. \A k \in 1 .. Len(code[t]) : code[t][k].val[1] # "load"
        BY <1>1, <1>5, OperandPassed
      <4>2. CASE b = t
        <5>1. i \in 1 .. Len(e[t]) /\ e[t][i].val[1] = "load"
          BY <2>1, <4>2
        <5>2. PICK k \in 1 .. Len(code[t]) : e[t][i] = code[t][k]
          BY <1>11, <5>1
        <5>. QED BY <4>1, <5>1, <5>2
      <4>. QED BY <4>2
    <3>2. e[b] = code[b]
      BY <1>7, <3>1
    <3>3. LoadAhead(prog, code, "rename", frames, b, i)
      BY <1>3, <2>1, <3>2 DEF InSSA, LoadsAhead
    <3>4. PICK d \in Blocks : \E j \in 1 .. Len(code[d]) :
            /\ code[d][j].def = code[b][i].val
            /\ IF d = b THEN j < i ELSE Dom(prog, d, b)
            /\ Ahead(prog, frames, d, j)
      BY <3>3 DEF LoadAhead
    <3>5. PICK j \in 1 .. Len(code[d]) :
            /\ code[d][j].def = code[b][i].val
            /\ IF d = b THEN j < i ELSE Dom(prog, d, b)
            /\ Ahead(prog, frames, d, j)
      BY <3>4
    <3>6. d # t
      BY <1>1, <1>2, <1>5, <3>5, NotAhead
    <3>7. Ahead(prog, new, d, j)
      <4>1. CASE ToCome(prog, frames, d)
        BY <1>8, <4>1 DEF Ahead
      <4>2. CASE ~ToCome(prog, frames, d)
        <5>1. PICK k \in 1 .. n : frames[k].bb = d /\ ~Ran(frames[k], j)
          BY <3>5, <4>2 DEF Ahead
        <5>2. k \in 1 .. n - 1
          BY <1>2, <1>10, <3>6, <5>1
        <5>. QED BY <1>9, <5>1, <5>2 DEF Ahead
      <4>. QED BY <4>1, <4>2
    <3>8. e[d] = code[d]
      BY <1>7, <3>6
    <3>. QED BY <3>2, <3>5, <3>7, <3>8 DEF LoadAhead
  <2>. QED BY <2>1 DEF LoadsAhead
<1>16. ASSUME NEW b \in Blocks
       PROVE  PhisInFront(e[b]) /\ (Left(prog, new, b) => Cleared(e[b]))
  <2>1. CASE b = t
    BY <1>11, <2>1
  <2>2. CASE b # t
    <3>1. Left(prog, new, b) => Left(prog, frames, b)
      BY <1>8, <2>2 DEF Left
    <3>. QED BY <1>3, <1>7, <2>2, <3>1 DEF InSSA
  <2>. QED BY <2>1, <2>2
<1>17. ASSUME NEW k \in 1 .. n - 1 PROVE WaitsFor(e, new[k])
  <2>1. frames[k].bb # frames[n].bb /\ frames[k].bb \in Blocks
    BY <1>2, <1>3, <1>10, FrameFields DEF Tree
  <2>2. new[k] = frames[k] /\ e[frames[k].bb] = code[frames[k].bb]
    BY <1>2, <1>7, <1>9, <2>1
  <2>. QED BY <1>3, <1>10, <2>2 DEF InSSA, WaitsFor
<1>18. NoLoads(vs')
  <2>1. ASSUME NEW x \in Vars, NEW j \in 1 .. Len(vs'[x]) PROVE vs'[x][j][1] # "load"
    <3> DEFINE s == vs[x]
               c == Defined(t, x)
    <3>1. s \in Seq(Operands) /\ vs'[x] = SubSeq(s, 1, Len(s) - c)
      BY <1>1, <1>3
    <3>2. c \in Nat
      <4>1. {i \in DOMAIN code[t] : code[t][i].op \in {"store", "phi"} /\ code[t][i].var = x}
              = Pushes(code, Top, x)
        BY <1>2, <1>5, <1>1 DEF Pushes
      <4>2. c = Cardinality(Pushes(code, Top, x))
        BY <4>1 DEF Defined
      <4>. QED BY <1>2, <1>3, <4>2, PushesFinite
    <3>3. \A k \in 1 .. Len(s) : s[k][1] # "load"
      BY <1>3 DEF InSSA, NoLoads
    <3>. HIDE DEF s, c
    <3>4. CASE Len(s) - c < 1
      <4>1. SubSeq(s, 1, Len(s) - c) = <<>>
        BY <3>1, <3>2, <3>4
      <4>2. j \in 1 .. Len(<<>>)
        BY <2>1, <3>1, <4>1
      <4>. QED BY <4>2
    <3>5. CASE Len(s) - c >= 1
      <4>1. Len(SubSeq(s, 1, Len(s) - c)) = Len(s) - c
        BY <3>1, <3>2, <3>5
      <4>2. j \in 1 .. Len(s) - c /\ j \in 1 .. Len(s)
        BY <2>1, <3>1, <3>2, <4>1
      <4>3. SubSeq(s, 1, Len(s) - c)[j] = s[j]
        BY <3>1, <3>2, <3>5, <4>2
      <4>. QED BY <3>1, <3>3, <4>2, <4>3
    <3>. QED BY <3>1, <3>2, <3>4, <3>5
  <2>. QED BY <2>1 DEF NoLoads
<1>19. InSSA(prog, e, "rename", new, vs')
  BY <1>9, <1>14, <1>15, <1>16, <1>17, <1>18 DEF InSSA
<1>. QED BY <1>1, <1>19 DEF ScopeInv

LEMMA SSARemoveAlloca ==
  ASSUME RenameInv, ScopeInv, SetBeforeRead, RemoveAlloca PROVE ScopeInv'
<1>1. /\ phase = "rename" /\ frames = <<>> /\ phase' = "done"
      /\ UNCHANGED <<prog, todo, frames, var_val_stack, known>>
      /\ code' = [b \in Blocks |-> Kept(code[b], {ins \in Instrs(b) : ins.op # "alloca"})]
  BY DEF RemoveAlloca
<1>2. prog \in Programs /\ code \in Codes /\ InSSA(prog, code, "rename", <<>>, var_val_stack)
  BY <1>1 DEF RenameInv, ScopeInv
<1>3. \A b \in Blocks : Left(prog, <<>>, b)
  BY DEF Left, Open, ToCome
<1>4. \A b \in Blocks : \A i \in 1 .. Len(code[b]) : code[b][i].val[1] # "load"
  <2>1. \A d \in Blocks : \A j : ~Ahead(prog, <<>>, d, j)
    BY DEF Ahead, ToCome
  <2>. QED BY <1>2, <2>1 DEF InSSA, LoadsAhead, LoadAhead
<1>5. ASSUME NEW b \in Blocks
      PROVE  /\ PhisInFront(code'[b])
             /\ \A i \in 1 .. Len(code'[b]) : \E k \in 1 .. Len(code[b]) :
                  code'[b][i] = code[b][k] /\ code[b][k].op # "alloca"
             /\ \A k \in 1 .. Len(code[b]) : code[b][k].op = "phi" =>
                  \E i \in 1 .. Len(code'[b]) : code'[b][i] = code[b][k]
  <2> DEFINE K == {ins \in Instrs(b) : ins.op # "alloca"}
             s == code[b]
  <2>1. s \in Seq(Instructions) /\ DOMAIN s = 1 .. Len(s) /\ PhisInFront(s)
    BY <1>2, CodeFields DEF InSSA
  <2>2. \A i \in 1 .. Len(s) : s[i].op = "phi" => s[i] \in K
    BY <2>1 DEF Instrs, Range
  <2>3. code'[b] = Kept(s, K) /\ \A ins \in K : ins.op # "alloca"
    BY <1>1
  <2>. HIDE DEF K, s
  <2>4. /\ PhisInFront(Kept(s, K))
        /\ \A i \in 1 .. Len(Kept(s, K)) : \E k \in 1 .. Len(s) : Kept(s, K)[i] = s[k] /\ s[k] \in K
    BY <2>1, KeptInFront
  <2>5. \A j \in 1 .. Len(s) : s[j].op = "phi" => \E i \in 1 .. Len(Kept(s, K)) : Kept(s, K)[i] = s[j]
    BY <2>1, <2>2, KeptPhis
  <2>. QED BY <2>3, <2>4, <2>5 DEF s
<1>6. PhisStay(code, code')
  BY <1>5 DEF PhisStay
<1>7. InstrsRight(prog, code')
  <2>1. ASSUME NEW b \in Blocks, NEW i \in 1 .. Len(code'[b]) PROVE InstrRight(prog, code', b, code'[b][i])
    <3>1. PICK k \in 1 .. Len(code[b]) : code'[b][i] = code[b][k]
      BY <1>5
    <3>2. InstrsRight(prog, code)
      BY <1>2 DEF InSSA
    <3>3. InstrRight(prog, code', b, code[b][k])
      BY <1>2, <1>6, <3>2, RightKept
    <3>. QED BY <3>1, <3>3
  <2>. QED BY <2>1 DEF InstrsRight
<1>8. LoadsAhead(prog, code', "done", <<>>)
  BY <1>4, <1>5 DEF LoadsAhead
<1>9. \A b \in Blocks : Cleared(code'[b])
  BY <1>2, <1>3, <1>5 DEF InSSA, Cleared
<1>10. \A b \in Blocks : \A i \in 1 .. Len(code'[b]) : code'[b][i].op # "alloca"
  BY <1>5
<1>11. \A k \in 1 .. Len(<<>>) : WaitsFor(code', <<>>[k])
  OBVIOUS
<1>12. NoLoads(var_val_stack)
  BY <1>2 DEF InSSA
<1>13. InSSA(prog, code', "done", <<>>, var_val_stack)
  BY <1>5, <1>7, <1>8, <1>9, <1>10, <1>11, <1>12 DEF InSSA
<1>. QED BY <1>1, <1>13 DEF ScopeInv

\* When re_name begins everything is ahead.
LEMMA SSAStartRename ==
  ASSUME RenameInv, ScopeInv, SetBeforeRead, StartRename PROVE ScopeInv'
<1> DEFINE f == NewCall(prog, Entry)
           new == <<f>>
<1>1. /\ phase = "place" /\ phase' = "rename" /\ frames' = new /\ frames = <<>>
      /\ UNCHANGED <<prog, code, todo, var_val_stack, known>>
  BY DEF StartRename, RenameInv, Call, NewCall
<1>2. prog \in Programs /\ code \in Codes /\ InSSA(prog, code, "place", frames, var_val_stack)
  BY <1>1 DEF RenameInv, ScopeInv
<1>3. f.bb = Entry /\ f.kids = prog.kids[Entry] /\ f.at = "phis"
  BY DEF NewCall
<1>4. Len(new) = 1 /\ new[1] = f /\ \A k \in 1 .. Len(new) : k = 1
  OBVIOUS
<1>. HIDE DEF f, new
<1>5. 1 \in 1 .. Len(new) /\ \A j : ~Ran(f, j)
  BY <1>3, <1>4 DEF Ran
<1>6. ASSUME NEW b \in Blocks PROVE ToCome(prog, new, b) \/ b = Entry
  <2>1. b = Entry \/ \E c \in prog.kids[Entry] : Dom(prog, c, b)
    BY <1>2, BlocksAssumption, DomOrder, KidsOf
  <2>. QED BY <1>3, <1>4, <1>5, <2>1 DEF ToCome
<1>7. \A b \in Blocks : ~Left(prog, new, b) /\ \A j : Ahead(prog, new, b, j)
  BY <1>3, <1>4, <1>5, <1>6 DEF Left, Open, Ahead
<1>8. LoadsAhead(prog, code, "rename", new)
  <2>1. LoadsAhead(prog, code, "place", frames)
    BY <1>2 DEF InSSA
  <2>. QED BY <1>7, <2>1 DEF LoadsAhead, LoadAhead
<1>9. \A k \in 1 .. Len(new) : WaitsFor(code, new[k])
  BY <1>4, <1>5 DEF WaitsFor
<1>10. InSSA(prog, code, "rename", new, var_val_stack)
  BY <1>2, <1>7, <1>8, <1>9 DEF InSSA
<1>. QED BY <1>1, <1>10 DEF ScopeInv

LEMMA SSAInit == Init => ScopeInv
<1>. SUFFICES ASSUME Init PROVE InSSA(prog, code, phase, frames, var_val_stack)
  BY DEF ScopeInv
<1>1. /\ prog \in Programs /\ code = prog.code /\ phase = "place" /\ frames = <<>>
      /\ var_val_stack = [x \in Vars |-> <<>>]
  BY DEF Init
<1>2. \A b \in Blocks : \A i \in 1 .. Len(code[b]) :
        LET ins == code[b][i]
        IN  /\ ins.op # "phi" /\ ins.val[1] # "phi" /\ ins.pairs = <<>>
            /\ ins.op \in {"store", "use"} => ins.val # NoValue
            /\ ins.val[1] = "load" => ComputedBefore(prog, ins.val, b, i)
  BY <1>1, ProgramFields
<1>3. \A b \in Blocks : DOMAIN code[b] = 1 .. Len(code[b])
  BY <1>1, ProgramFields, CodeFields
<1>4. Len(<<>>) = 0 /\ 1 .. 0 = {}
  OBVIOUS
<1>5. LoadsAhead(prog, code, "place", frames)
  <2>1. ASSUME NEW b \in Blocks, NEW i \in 1 .. Len(code[b]), code[b][i].val[1] = "load"
        PROVE  LoadAhead(prog, code, "place", frames, b, i)
    <3>1. ComputedBefore(prog, code[b][i].val, b, i)
      BY <1>2, <2>1
    <3>. QED BY <1>1, <1>3, <3>1 DEF ComputedBefore, LoadAhead, Dom
  <2>. QED BY <2>1 DEF LoadsAhead
<1>6. InstrsRight(prog, code)
  BY <1>2, <1>4 DEF InstrsRight, InstrRight, PhiReaches
<1>7. \A b \in Blocks : PhisInFront(code[b])
  BY <1>2 DEF PhisInFront
<1>8. NoLoads(var_val_stack)
  BY <1>1, <1>4 DEF NoLoads
<1>9. \A k \in 1 .. Len(frames) : WaitsFor(code, frames[k])
  BY <1>1, <1>4
<1>. QED BY <1>1, <1>5, <1>6, <1>7, <1>8, <1>9 DEF InSSA

LEMMA SSAPlacePhis ==
  ASSUME RenameInv, RenameInv', ScopeInv, SetBeforeRead, PlacePhis PROVE ScopeInv'
<1>1. /\ phase = "place" /\ UNCHANGED <<prog, phase, frames, var_val_stack, known>> /\ frames = <<>>
  BY DEF PlacePhis, RenameInv
<1>2. PICK w \in todo :
        code' = [b \in Blocks |-> IF b \in NeedPhi(w) THEN <<Phi(b, w.var)>> \o code[b] ELSE code[b]]
  BY DEF PlacePhis
<1> DEFINE x == w.var
           N == NeedPhi(w)
           e == code'
           sh(b) == IF b \in N THEN 1 ELSE 0
<1>3. /\ prog \in Programs /\ code \in Codes /\ x \in Vars /\ e \in Codes
      /\ InSSA(prog, code, "place", frames, var_val_stack)
      /\ \A b \in Blocks : AsBuilt(prog, e, b)
  BY <1>1 DEF RenameInv, ScopeInv, Built
<1>4. ASSUME NEW b \in Blocks
      PROVE  /\ Phi(b, x) \in Instructions /\ Phi(b, x).op = "phi" /\ Phi(b, x).pairs = <<>>
             /\ Phi(b, x).val[1] = "none"
  <2>1. <<"phi", b, x>> \in ValueNames /\ <<>> \in Seq(Operands \X Blocks)
    BY <1>3 DEF ValueNames, Operands
  <2>. QED BY <1>3, <2>1 DEF Phi, Instructions, Ops, NoValue
<1>5. ASSUME NEW b \in Blocks
      PROVE  /\ Len(code[b]) \in Nat /\ Len(e[b]) = Len(code[b]) + sh(b)
             /\ b \in N => e[b][1] = Phi(b, x)
             /\ \A i \in 1 .. Len(code[b]) : e[b][i + sh(b)] = code[b][i]
  <2>1. code[b] \in Seq(Instructions) /\ Len(code[b]) \in Nat
    BY <1>3, CodeFields
  <2>2. CASE b \in N
    <3>1. e[b] = <<Phi(b, x)>> \o code[b] /\ sh(b) = 1
      BY <1>2, <2>2
    <3>2. Phi(b, x) \in Instructions
      BY <1>4
    <3>. HIDE DEF e, N, x, sh
    <3>. QED BY <2>1, <3>1, <3>2, Prefixed
  <2>3. CASE b \notin N
    <3>1. e[b] = code[b] /\ sh(b) = 0
      BY <1>2, <2>3
    <3>. HIDE DEF e, N, x, sh
    <3>. QED BY <2>1, <2>3, <3>1
  <2>. QED BY <2>2, <2>3
<1>6. \A b \in Blocks : (b \in N => sh(b) = 1) /\ (b \notin N => sh(b) = 0)
  OBVIOUS
<1>. HIDE DEF e, N, x, sh
<1>7. ASSUME NEW b \in Blocks
      PROVE  /\ \A i \in 1 .. Len(code[b]) : i + sh(b) \in 1 .. Len(e[b])
             /\ \A k \in 1 .. Len(e[b]) : e[b][k] = Phi(b, x) \/
                  \E i \in 1 .. Len(code[b]) : k = i + sh(b) /\ e[b][k] = code[b][i]
  <2>1. \A i \in 1 .. Len(code[b]) : i + sh(b) \in 1 .. Len(e[b])
    BY <1>5, <1>6
  <2>2. ASSUME NEW k \in 1 .. Len(e[b]), e[b][k] # Phi(b, x)
        PROVE  \E i \in 1 .. Len(code[b]) : k = i + sh(b) /\ e[b][k] = code[b][i]
    <3>1. Len(code[b]) \in Nat /\ Len(e[b]) = Len(code[b]) + sh(b) /\ (b \in N => k # 1)
      BY <1>5, <2>2
    <3>2. k - sh(b) \in 1 .. Len(code[b]) /\ k = (k - sh(b)) + sh(b)
      <4>1. CASE b \in N
        <5>1. sh(b) = 1 /\ k # 1
          BY <1>6, <3>1, <4>1
        <5>. QED BY <3>1, <5>1
      <4>2. CASE b \notin N
        <5>1. sh(b) = 0
          BY <1>6, <4>2
        <5>. QED BY <3>1, <5>1
      <4>. QED BY <4>1, <4>2
    <3>. QED BY <1>5, <3>2
  <2>. QED BY <2>1, <2>2
<1>8. LoadsAhead(prog, e, "place", frames)
  <2>1. ASSUME NEW b \in Blocks, NEW k \in 1 .. Len(e[b]), e[b][k].val[1] = "load"
        PROVE  LoadAhead(prog, e, "place", frames, b, k)
    <3>1. PICK i \in 1 .. Len(code[b]) : k = i + sh(b) /\ e[b][k] = code[b][i]
      BY <1>4, <1>7, <2>1
    <3>2. LoadAhead(prog, code, "place", frames, b, i)
      BY <1>3, <2>1, <3>1 DEF InSSA, LoadsAhead
    <3>3. PICK d \in Blocks : \E j \in 1 .. Len(code[d]) :
            code[d][j].def = code[b][i].val /\ IF d = b THEN j < i ELSE Dom(prog, d, b)
      BY <3>2 DEF LoadAhead
    <3>4. PICK j \in 1 .. Len(code[d]) :
            code[d][j].def = code[b][i].val /\ IF d = b THEN j < i ELSE Dom(prog, d, b)
      BY <3>3
    <3>5. j + sh(d) \in 1 .. Len(e[d]) /\ e[d][j + sh(d)] = code[d][j]
      BY <1>5, <1>7
    <3>6. IF d = b THEN j + sh(d) < k ELSE Dom(prog, d, b)
      BY <1>6, <3>1, <3>4
    <3>. QED BY <3>1, <3>4, <3>5, <3>6 DEF LoadAhead
  <2>. QED BY <2>1 DEF LoadsAhead
<1>9. PhisStay(code, e)
  <2>1. ASSUME NEW b \in Blocks, NEW i \in 1 .. Len(code[b]), code[b][i].op = "phi"
        PROVE  \E j \in 1 .. Len(e[b]) : e[b][j].op = "phi" /\ e[b][j].def = code[b][i].def
    <3>1. i + sh(b) \in 1 .. Len(e[b]) /\ e[b][i + sh(b)] = code[b][i]
      BY <1>5, <1>7
    <3>. QED BY <2>1, <3>1
  <2>. QED BY <2>1 DEF PhisStay
<1>10. InstrsRight(prog, e)
  <2>1. ASSUME NEW b \in Blocks, NEW k \in 1 .. Len(e[b]) PROVE InstrRight(prog, e, b, e[b][k])
    <3>1. CASE e[b][k] = Phi(b, x)
      <4>1. Len(<<>>) = 0 /\ 1 .. 0 = {}
        OBVIOUS
      <4>. QED BY <1>4, <3>1, <4>1 DEF InstrRight, PhiReaches
    <3>2. CASE e[b][k] # Phi(b, x)
      <4>1. PICK i \in 1 .. Len(code[b]) : e[b][k] = code[b][i]
        BY <1>7, <3>2
      <4>2. InstrsRight(prog, code)
        BY <1>3 DEF InSSA
      <4>3. InstrRight(prog, e, b, code[b][i])
        BY <1>3, <1>9, <4>2, RightKept
      <4>. QED BY <4>1, <4>3
    <3>. QED BY <3>1, <3>2
  <2>. QED BY <2>1 DEF InstrsRight
<1>11. \A b \in Blocks : PhisInFront(e[b])
  <2>1. ASSUME NEW b \in Blocks PROVE PhisInFront(e[b])
    <3>1. AsBuilt(prog, e, b)
      BY <1>3
    <3>2. \A i, j \in 1 .. Len(e[b]) : e[b][i].op = "phi" /\ e[b][j].op # "phi" => i < j
      BY <1>3, <3>1, BuiltFields
    <3>. QED BY <3>2 DEF PhisInFront
  <2>. QED BY <2>1
<1>12. InSSA(prog, e, "place", frames, var_val_stack)
  <2>1. Len(<<>>) = 0 /\ 1 .. 0 = {}
    OBVIOUS
  <2>2. \A k \in 1 .. Len(frames) : WaitsFor(e, frames[k])
    BY <1>1, <2>1
  <2>. QED BY <1>3, <1>8, <1>10, <1>11, <2>2 DEF InSSA
<1>. QED BY <1>1, <1>12 DEF ScopeInv, e

LEMMA SSANext ==
  ASSUME RenameInv, RenameInv', PhisInv, ScopeInv, [RunNext]_allVars PROVE ScopeInv'
<1>1. [RunNext]_allVars => Next \/ UNCHANGED vars
  BY DEF RunNext, Compile, NameValues, Transform, PrintFunction, RunNextBlock, Stopped, allVars
<1>2. prog' = prog
  BY <1>1 DEF Next, vars, PlacePhis, StartRename, PushPhis, ReplaceLoad, KeepLoad, PushStore, SkipInstr,
     InstrsDone, FillPhis, SuccsDone, EnterChild, Leave, RemoveAlloca
<1>3. SetBeforeRead' => SetBeforeRead
  BY <1>2 DEF SetBeforeRead
<1>4. CASE ~SetBeforeRead
  BY <1>3, <1>4 DEF ScopeInv
<1>5. CASE UNCHANGED vars
  BY <1>3, <1>5 DEF ScopeInv, vars
<1>6. CASE SetBeforeRead /\ Next
  <2>1. CASE PlacePhis BY <1>6, <2>1, SSAPlacePhis
  <2>2. CASE StartRename BY <1>6, <2>2, SSAStartRename
  <2>3. CASE PushPhis BY <1>6, <2>3, SSAPushPhis
  <2>4. CASE ReplaceLoad BY <1>6, <2>4, SSAReplaceLoad
  <2>5. CASE KeepLoad BY <1>6, <2>5, SSAKeepLoad
  <2>6. CASE PushStore BY <1>6, <2>6, SSAPushStore
  <2>7. CASE SkipInstr BY <1>6, <2>7, SSASkipInstr
  <2>8. CASE InstrsDone BY <1>6, <2>8, SSAInstrsDone
  <2>9. CASE FillPhis BY <1>6, <2>9, SSAFillPhis
  <2>10. CASE SuccsDone BY <1>6, <2>10, SSASuccsDone
  <2>11. CASE EnterChild BY <1>6, <2>11, SSAEnterChild
  <2>12. CASE Leave BY <1>6, <2>12, SSALeave
  <2>13. CASE RemoveAlloca BY <1>6, <2>13, SSARemoveAlloca
  <2>. QED BY <1>6, <2>1, <2>2, <2>3, <2>4, <2>5, <2>6, <2>7, <2>8, <2>9, <2>10, <2>11, <2>12, <2>13
       DEF Next
<1>. QED BY <1>1, <1>4, <1>5, <1>6

LEMMA PhiAvailable ==
  ASSUME code \in Codes, NEW v \in Operands, v[1] # "load", NEW b \in Blocks, NEW i,
         PhiReaches(prog, code, v, b),
         \A j \in 1 .. Len(code[b]) : code[b][j].op = "phi" => j < i
  PROVE  Available(v, b, i)
<1>1. v[1] = "const" \/ v[1] = "phi"
  BY DEF Operands
<1>2. CASE v[1] = "const"
  BY <1>2 DEF Available
<1>3. CASE v[1] = "phi"
  <2>1. PICK d \in Blocks : Dom(prog, d, b) /\ \E j \in 1 .. Len(code[d]) : code[d][j].op = "phi" /\ code[d][j].def = v
    BY <1>3 DEF PhiReaches
  <2>2. PICK j \in 1 .. Len(code[d]) : code[d][j].op = "phi" /\ code[d][j].def = v
    BY <2>1
  <2>3. j \in DOMAIN code[d]
    BY <2>2, CodeFields
  <2>4. IF d = b THEN j < i ELSE Dominates(d, b, Entry, Blocks, EdgesOf(prog))
    BY <2>1, <2>2 DEF Dom
  <2>. QED BY <2>2, <2>3, <2>4 DEF Available
<1>. QED BY <1>1, <1>2, <1>3

LEMMA SSADefsDominate ==
  ASSUME RenameInv, ScopeInv PROVE DefsDominateUses
<1>. SUFFICES ASSUME phase = "done", SetBeforeRead,
                     NEW b \in Blocks, NEW i \in DOMAIN code[b]
              PROVE  LET ins == code[b][i]
                     IN  /\ ins.op \in {"use", "phi"}
                         /\ ins.op = "use" => Available(ins.val, b, i)
                         /\ \A pair \in Range(ins.pairs) :
                              Available(pair[1], pair[2], Len(code[pair[2]]) + 1)
  BY DEF DefsDominateUses
<1> DEFINE ins == code[b][i]
<1>1. code \in Codes /\ frames = <<>> /\ InSSA(prog, code, "done", <<>>, var_val_stack)
  BY DEF RenameInv, ScopeInv
<1>2. i \in 1 .. Len(code[b]) /\ ins \in Instructions
  BY <1>1, CodeFields
<1>3. ins.op \in {"use", "phi"}
  <2>1. Left(prog, <<>>, b)
    BY DEF Left, Open, ToCome
  <2>2. ins.op \notin Accesses /\ ins.op # "alloca"
    BY <1>1, <1>2, <2>1 DEF InSSA, Cleared
  <2>. QED BY <1>2, <2>2, InstructionFields DEF Ops, Accesses
<1>4. ins.val[1] # "load"
  <2>1. \A d \in Blocks : \A j : ~Ahead(prog, <<>>, d, j)
    BY DEF Ahead, ToCome
  <2>. QED BY <1>1, <1>2, <2>1 DEF InSSA, LoadsAhead, LoadAhead
<1>5. InstrRight(prog, code, b, ins)
  BY <1>1, <1>2 DEF InSSA, InstrsRight
<1>6. ASSUME ins.op = "use" PROVE Available(ins.val, b, i)
  <2>1. \A j \in 1 .. Len(code[b]) : code[b][j].op = "phi" => j < i
    BY <1>1, <1>2, <1>6 DEF InSSA, PhisInFront
  <2>2. ins.val \in Operands /\ PhiReaches(prog, code, ins.val, b)
    BY <1>2, <1>5, <1>6, InstructionFields DEF InstrRight
  <2>. HIDE DEF ins
  <2>. QED BY <1>1, <1>4, <2>1, <2>2, PhiAvailable
<1>7. ASSUME NEW pair \in Range(ins.pairs) PROVE Available(pair[1], pair[2], Len(code[pair[2]]) + 1)
  <2>1. ins.pairs \in Seq(Operands \X Blocks)
    BY <1>2, InstructionFields
  <2>. HIDE DEF ins
  <2>2. PICK m \in 1 .. Len(ins.pairs) : pair = ins.pairs[m]
    BY <2>1 DEF Range
  <2>3. pair \in Operands \X Blocks
    BY <2>1, <2>2
  <2>4. pair[1] \in Operands /\ pair[2] \in Blocks
    BY <2>3
  <2>5. pair[1][1] # "load" /\ PhiReaches(prog, code, pair[1], pair[2])
    BY <1>5, <2>2 DEF InstrRight
  <2>6. \A j \in 1 .. Len(code[pair[2]]) : j < Len(code[pair[2]]) + 1
    BY <1>1, <2>4, CodeFields
  <2>. QED BY <1>1, <2>4, <2>5, <2>6, PhiAvailable
<1>. QED BY <1>3, <1>6, <1>7

\* In a function that sets its variables at the entry before it reads them, what
\* the pass leaves is in SSA form: no load or store is left, and what is used is
\* a constant or a phi that is there on every path.
THEOREM DefinitionsDominate == RunSpec => []DefsDominateUses
<1>1. RunInit => PhisInv /\ ScopeInv
  BY PhisInit, SSAInit DEF RunInit
<1>2. RenameInv /\ RenameInv' /\ PhisInv /\ ScopeInv /\ [RunNext]_allVars => PhisInv' /\ ScopeInv'
  BY PhisNext, SSANext
<1>3. RunSpec => [](PhisInv /\ ScopeInv)
  BY <1>1, <1>2, RenameInvariant, PTL DEF RunSpec
<1>4. RenameInv /\ PhisInv /\ ScopeInv => DefsDominateUses
  BY SSADefsDominate
<1>. QED BY <1>3, <1>4, RenameInvariant, PTL
=============================================================================
