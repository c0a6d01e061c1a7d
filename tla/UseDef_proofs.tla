---------------------------- MODULE UseDef_proofs ----------------------------
(***************************************************************************)
(* For any values and any bound on operands: the list of a value in use is *)
(* exactly its uses, and the code with the lists implements Operands, in   *)
(* which replacing a value redirects all its uses and nothing else.        *)
(***************************************************************************)
EXTENDS UseDef, TLAPS

UseType == [val_ : Values, arg_no_ : 1 .. MaxOps]

\* Operands are values in use.
OperandsUsable ==
  \A u \in Values : Present(u) => \A i \in DOMAIN operands_[u] : Usable(operands_[u][i])

UnbornUnused ==
  \A v \in Values : status[v] = "unborn" => use_list_[v] = {} /\ operands_[v] = <<>>

IInv == TypeOK /\ LiveListsExact /\ OperandsUsable /\ UnbornUnused

\* The operand lists are the sequences of at most MaxOps values.
LEMMA OpListsAre ==
  ASSUME NEW ops
  PROVE  ops \in OpLists <=> ops \in Seq(Values) /\ Len(ops) <= MaxOps
<1>1. ASSUME ops \in OpLists PROVE ops \in Seq(Values) /\ Len(ops) <= MaxOps
  <2>1. PICK n \in 0 .. MaxOps : ops \in [1 .. n -> Values]
    BY <1>1 DEF OpLists
  <2>2. ops \in Seq(Values) /\ Len(ops) = n
    BY <2>1, MaxOpsAssumption
  <2>. QED BY <2>2, MaxOpsAssumption
<1>2. ASSUME ops \in Seq(Values), Len(ops) <= MaxOps PROVE ops \in OpLists
  <2>1. Len(ops) \in 0 .. MaxOps /\ ops \in [1 .. Len(ops) -> Values]
    BY <1>2, MaxOpsAssumption
  <2>. QED BY <2>1 DEF OpLists
<1>. QED BY <1>1, <1>2

\* What the proofs use of the types.
LEMMA Types ==
  ASSUME TypeOK, NEW u \in Values
  PROVE  /\ operands_[u] \in Seq(Values) /\ Len(operands_[u]) <= MaxOps
         /\ DOMAIN operands_[u] = 1 .. Len(operands_[u])
         /\ \A i \in DOMAIN operands_[u] : i \in 1 .. MaxOps /\ operands_[u][i] \in Values
<1>1. operands_[u] \in Seq(Values) /\ Len(operands_[u]) <= MaxOps
  BY OpListsAre DEF TypeOK
<1>. QED BY <1>1, MaxOpsAssumption

\* The list of a value in use, entry by entry.
LEMMA ListEntries ==
  ASSUME IInv, NEW v \in Values, Usable(v), NEW u \in Values, NEW i \in 1 .. MaxOps
  PROVE  Use(u, i) \in use_list_[v] <=>
           Present(u) /\ i \in DOMAIN operands_[u] /\ operands_[u][i] = v
  BY DEF IInv, LiveListsExact, UsesOf, Use

\* Nothing has been made.
LEMMA InitGood == Init => IInv
<1> SUFFICES ASSUME Init PROVE IInv
  OBVIOUS
<1>1. <<>> \in OpLists
  <2>1. <<>> \in Seq(Values) /\ Len(<<>>) = 0
    OBVIOUS
  <2>2. Len(<<>>) <= MaxOps
    BY <2>1, MaxOpsAssumption
  <2>. QED BY <2>1, <2>2, OpListsAre
<1>2. TypeOK
  BY <1>1 DEF Init, TypeOK
<1>3. LiveListsExact /\ OperandsUsable /\ UnbornUnused
  BY DEF Init, LiveListsExact, OperandsUsable, UnbornUnused, Usable, Present
<1>. QED BY <1>2, <1>3 DEF IInv

\* A new user is recorded with each of its operands.
LEMMA CreateGood ==
  ASSUME IInv, NEW u \in Values, NEW ops \in OpLists, Create(u, ops)
  PROVE  IInv' /\ Abstract!Create(u, ops)
<1>0. ops \in Seq(Values) /\ Len(ops) <= MaxOps /\ DOMAIN ops = 1 .. Len(ops)
  BY OpListsAre
<1>1. TypeOK'
  <2>1. \A i \in DOMAIN ops : Use(u, i) \in UseType
    BY <1>0, MaxOpsAssumption DEF Use, UseType
  <2>2. use_list_' \in [Values -> SUBSET UseType]
    BY <2>1 DEF Create, SetOperands, IInv, TypeOK, UseType
  <2>. QED BY <2>2 DEF Create, IInv, TypeOK, UseType
<1>2. \A i \in DOMAIN ops : ops[i] # u
  BY DEF Create, Usable
<1>3. OperandsUsable'
  BY DEF Create, OperandsUsable, IInv, TypeOK, Usable, Present
<1>4. UnbornUnused'
  <2> SUFFICES ASSUME NEW v \in Values, status'[v] = "unborn"
               PROVE  use_list_'[v] = {} /\ operands_'[v] = <<>>
    BY DEF UnbornUnused
  <2>1. v # u /\ status[v] = "unborn"
    BY DEF Create, IInv, TypeOK
  <2>2. use_list_[v] = {} /\ operands_[v] = <<>>
    BY <2>1 DEF IInv, UnbornUnused
  <2>3. \A i \in DOMAIN ops : ops[i] # v
    BY <2>1 DEF Create, Usable
  <2>. QED BY <2>1, <2>2, <2>3 DEF Create, SetOperands, IInv, TypeOK
<1>5. LiveListsExact'
  <2> SUFFICES ASSUME NEW v \in Values, Usable(v)', NEW use \in UseType
               PROVE  use \in use_list_'[v] <=> use \in UsesOf(v)'
    BY <1>1 DEF LiveListsExact, TypeOK, UseType, UsesOf
  <2>1. use_list_'[v] = use_list_[v] \union {Use(u, i) : i \in {j \in DOMAIN ops : ops[j] = v}}
    BY DEF Create, SetOperands
  <2>2. use = Use(use.val_, use.arg_no_) /\ use.val_ \in Values /\ use.arg_no_ \in 1 .. MaxOps
    BY DEF UseType, Use
  <2>3. use \in use_list_[v] <=>
          /\ use.val_ # u /\ Present(use.val_)
          /\ use.arg_no_ \in DOMAIN operands_[use.val_]
          /\ operands_[use.val_][use.arg_no_] = v
    <3>1. CASE v = u
      BY <3>1, <2>2 DEF Create, IInv, UnbornUnused, OperandsUsable, Usable, Present
    <3>2. CASE v # u
      <4>1. Usable(v)
        BY <3>2 DEF Create, Usable, IInv, TypeOK
      <4>2. ~Present(u)
        BY DEF Create, Present
      <4>. QED BY <4>1, <4>2, <2>2, ListEntries
    <3>. QED BY <3>1, <3>2
  <2>4. use \in {Use(u, i) : i \in {j \in DOMAIN ops : ops[j] = v}} <=>
          use.val_ = u /\ use.arg_no_ \in DOMAIN ops /\ ops[use.arg_no_] = v
    BY <2>2 DEF Use
  <2>5. use \in UsesOf(v)' <=>
          /\ Present(use.val_)'
          /\ use.arg_no_ \in DOMAIN operands_'[use.val_]
          /\ operands_'[use.val_][use.arg_no_] = v
    BY DEF UsesOf, UseType
  <2>6. /\ operands_'[use.val_] = IF use.val_ = u THEN ops ELSE operands_[use.val_]
        /\ Present(use.val_)' <=> use.val_ = u \/ Present(use.val_)
    BY <2>2 DEF Create, Present, IInv, TypeOK
  <2>. QED BY <2>1, <2>3, <2>4, <2>5, <2>6
<1>6. Abstract!Create(u, ops)
  BY DEF Create, Abstract!Create, Usable, Abstract!Usable
<1>. QED BY <1>1, <1>3, <1>4, <1>5, <1>6 DEF IInv

\* A phi gets one more operand.
LEMMA AddOperandGood ==
  ASSUME IInv, NEW u \in Values, NEW v \in Values, AddOperand(u, v)
  PROVE  IInv' /\ Abstract!AddOperand(u, v)
<1> DEFINE n == Len(operands_[u]) + 1
<1>0. /\ operands_[u] \in Seq(Values) /\ n \in 1 .. MaxOps
      /\ operands_' = [operands_ EXCEPT ![u] = Append(@, v)]
      /\ use_list_' = [use_list_ EXCEPT ![v] = @ \union {Use(u, n)}]
      /\ status' = status
      /\ Usable(u) /\ Usable(v)
  BY Types, MaxOpsAssumption DEF AddOperand, IInv
<1>1. /\ Append(operands_[u], v) \in Seq(Values)
      /\ DOMAIN Append(operands_[u], v) = 1 .. n
      /\ \A i \in 1 .. n : Append(operands_[u], v)[i] = IF i = n THEN v ELSE operands_[u][i]
      /\ DOMAIN operands_[u] = 1 .. n - 1
  BY <1>0
<1> HIDE DEF n
<1>2. TypeOK'
  <2>1. Append(operands_[u], v) \in OpLists
    <3>1. Len(Append(operands_[u], v)) <= MaxOps
      BY <1>0 DEF n
    <3>. QED BY <3>1, <1>1, OpListsAre
  <2>2. Use(u, n) \in UseType
    BY <1>0 DEF Use, UseType
  <2>. QED BY <1>0, <2>1, <2>2 DEF IInv, TypeOK, UseType
<1>3. \A w \in Values : operands_'[w] = IF w = u THEN Append(operands_[u], v) ELSE operands_[w]
  BY <1>0 DEF IInv, TypeOK
<1>4. OperandsUsable'
  BY <1>0, <1>1, <1>3 DEF OperandsUsable, IInv, Usable, Present
<1>5. UnbornUnused'
  BY <1>0, <1>3 DEF UnbornUnused, IInv, TypeOK, Usable
<1>6. LiveListsExact'
  <2> SUFFICES ASSUME NEW w \in Values, Usable(w)', NEW use \in UseType
               PROVE  use \in use_list_'[w] <=> use \in UsesOf(w)'
    BY <1>2 DEF LiveListsExact, TypeOK, UseType, UsesOf
  <2>1. use = Use(use.val_, use.arg_no_) /\ use.val_ \in Values /\ use.arg_no_ \in 1 .. MaxOps
    BY DEF UseType, Use
  <2>2. Usable(w)
    BY <1>0 DEF Usable
  <2>3. use \in use_list_[w] <=>
          /\ Present(use.val_)
          /\ use.arg_no_ \in DOMAIN operands_[use.val_]
          /\ operands_[use.val_][use.arg_no_] = w
    BY <2>1, <2>2, ListEntries
  <2>4. use \in use_list_'[w] <=> use \in use_list_[w] \/ (w = v /\ use = Use(u, n))
    BY <1>0 DEF IInv, TypeOK
  <2>5. use = Use(u, n) <=> use.val_ = u /\ use.arg_no_ = n
    BY <2>1 DEF Use
  <2>6. use \in UsesOf(w)' <=>
          /\ Present(use.val_)
          /\ use.arg_no_ \in DOMAIN operands_'[use.val_]
          /\ operands_'[use.val_][use.arg_no_] = w
    BY <1>0 DEF UsesOf, UseType, Present
  <2>7. Present(u)
    BY <1>0 DEF Usable, Present
  <2>8. CASE use.val_ # u
    BY <2>8, <2>1, <2>3, <2>4, <2>5, <2>6, <1>3
  <2>9. CASE use.val_ = u
    <3>1. operands_'[u] = Append(operands_[u], v)
      BY <1>3
    <3>2. use \in UsesOf(w)' <=>
            use.arg_no_ \in 1 .. n /\ (IF use.arg_no_ = n THEN v ELSE operands_[u][use.arg_no_]) = w
      BY <2>9, <2>6, <2>7, <3>1, <1>1
    <3>3. use \in use_list_[w] <=> use.arg_no_ \in 1 .. n - 1 /\ operands_[u][use.arg_no_] = w
      BY <2>9, <2>3, <2>7, <1>1
    <3>4. use \in use_list_'[w] <=> use \in use_list_[w] \/ (w = v /\ use.arg_no_ = n)
      BY <2>9, <2>4, <2>5
    <3>5. n \in Nat /\ use.arg_no_ \in Nat
      BY <2>1, <1>0
    <3>6. CASE use.arg_no_ = n
      <4>1. use \in UsesOf(w)' <=> v = w
        BY <3>2, <3>5, <3>6, <1>0
      <4>2. use \notin use_list_[w]
        BY <3>3, <3>5, <3>6
      <4>. QED BY <3>4, <3>6, <4>1, <4>2
    <3>7. CASE use.arg_no_ # n
      <4>1. use.arg_no_ \in 1 .. n <=> use.arg_no_ \in 1 .. n - 1
        BY <3>5, <3>7
      <4>. QED BY <3>2, <3>3, <3>4, <3>7, <4>1
    <3>. QED BY <3>6, <3>7
  <2>. QED BY <2>8, <2>9
<1>7. Abstract!AddOperand(u, v)
  BY DEF AddOperand, Abstract!AddOperand, Usable, Abstract!Usable
<1>. QED BY <1>2, <1>4, <1>5, <1>6, <1>7 DEF IInv

\* replace_all_use_with redirects the uses of the value, which its list names.
LEMMA ReplaceGood ==
  ASSUME IInv, NEW v \in Values, NEW new_val \in Values, ReplaceAllUses(v, new_val)
  PROVE  IInv' /\ Abstract!Replace(v, new_val)
<1>0. /\ Usable(v) /\ Usable(new_val) /\ v # new_val
      /\ use_list_' = [use_list_ EXCEPT ![new_val] = @ \union use_list_[v]]
      /\ status' = [status EXCEPT ![v] = "replaced"]
  BY DEF ReplaceAllUses
<1>1. ASSUME NEW u \in Values
      PROVE  /\ DOMAIN operands_'[u] = DOMAIN operands_[u]
             /\ \A i \in DOMAIN operands_[u] :
                  operands_'[u][i] = IF operands_[u][i] = v /\ Present(u) THEN new_val
                                     ELSE operands_[u][i]
  <2>1. operands_'[u] = [i \in DOMAIN operands_[u] |->
                          IF Use(u, i) \in use_list_[v] THEN new_val ELSE operands_[u][i]]
    BY DEF ReplaceAllUses
  <2>2. \A i \in DOMAIN operands_[u] :
          Use(u, i) \in use_list_[v] <=> Present(u) /\ operands_[u][i] = v
    BY <1>0, Types, ListEntries DEF IInv
  <2>. QED BY <2>1, <2>2
<1>2. Abstract!Replace(v, new_val)
  <2>1. ASSUME NEW u \in Values
        PROVE  operands_'[u] = [i \in DOMAIN operands_[u] |->
                 IF operands_[u][i] = v /\ Present(u) THEN new_val ELSE operands_[u][i]]
    <3>1. operands_'[u] = [i \in DOMAIN operands_[u] |->
                            IF Use(u, i) \in use_list_[v] THEN new_val ELSE operands_[u][i]]
      BY DEF ReplaceAllUses
    <3>2. \A i \in DOMAIN operands_[u] :
            Use(u, i) \in use_list_[v] <=> Present(u) /\ operands_[u][i] = v
      BY <1>0, Types, ListEntries DEF IInv
    <3>. QED BY <3>1, <3>2
  <2>2. operands_' = [u \in Values |-> operands_'[u]]
    BY DEF ReplaceAllUses
  <2>. QED BY <1>0, <2>1, <2>2 DEF Abstract!Replace, Abstract!Usable, Abstract!Present, Usable, Present
<1>3. TypeOK'
  <2>1. ASSUME NEW u \in Values PROVE operands_'[u] \in OpLists
    <3>1. operands_[u] \in OpLists
      BY DEF IInv, TypeOK
    <3>2. PICK n \in 0 .. MaxOps : operands_[u] \in [1 .. n -> Values]
      BY <3>1 DEF OpLists
    <3>3. operands_'[u] = [i \in DOMAIN operands_[u] |->
                            IF Use(u, i) \in use_list_[v] THEN new_val ELSE operands_[u][i]]
      BY DEF ReplaceAllUses
    <3>4. operands_'[u] \in [1 .. n -> Values]
      BY <3>2, <3>3
    <3>. QED BY <3>4 DEF OpLists
  <2>2. operands_' \in [Values -> OpLists]
    BY <2>1 DEF ReplaceAllUses
  <2>. QED BY <1>0, <2>2 DEF IInv, TypeOK
<1>4. \A u \in Values : Present(u)' <=> Present(u)
  BY <1>0 DEF Present, Usable, IInv, TypeOK
<1>5. OperandsUsable'
  BY <1>0, <1>1, <1>4 DEF OperandsUsable, IInv, TypeOK, Usable
<1>6. UnbornUnused'
  <2> SUFFICES ASSUME NEW w \in Values, status'[w] = "unborn"
               PROVE  use_list_'[w] = {} /\ operands_'[w] = <<>>
    BY DEF UnbornUnused
  <2>1. w # v /\ w # new_val /\ status[w] = "unborn"
    BY <1>0 DEF Usable, IInv, TypeOK
  <2>2. use_list_[w] = {} /\ operands_[w] = <<>>
    BY <2>1 DEF IInv, UnbornUnused
  <2>3. operands_'[w] = [i \in DOMAIN operands_[w] |->
                          IF Use(w, i) \in use_list_[v] THEN new_val ELSE operands_[w][i]]
    BY DEF ReplaceAllUses
  <2>4. DOMAIN operands_[w] = {}
    BY <2>2
  <2>5. operands_'[w] = <<>>
    BY <2>3, <2>4
  <2>. QED BY <1>0, <2>1, <2>2, <2>5 DEF IInv, TypeOK
<1>7. LiveListsExact'
  <2> SUFFICES ASSUME NEW w \in Values, Usable(w)', NEW use \in UseType
               PROVE  use \in use_list_'[w] <=> use \in UsesOf(w)'
    BY <1>3 DEF LiveListsExact, TypeOK, UseType, UsesOf
  <2>1. use = Use(use.val_, use.arg_no_) /\ use.val_ \in Values /\ use.arg_no_ \in 1 .. MaxOps
    BY DEF UseType, Use
  <2>2. w # v /\ Usable(w)
    BY <1>0 DEF Usable, IInv, TypeOK
  <2>3. \A x \in {v, w} :
          use \in use_list_[x] <=>
            /\ Present(use.val_)
            /\ use.arg_no_ \in DOMAIN operands_[use.val_]
            /\ operands_[use.val_][use.arg_no_] = x
    BY <2>1, <2>2, <1>0, ListEntries
  <2>4. use \in use_list_'[w] <=> use \in use_list_[w] \/ (w = new_val /\ use \in use_list_[v])
    BY <1>0 DEF IInv, TypeOK
  <2>5. use \in UsesOf(w)' <=>
          /\ Present(use.val_)
          /\ use.arg_no_ \in DOMAIN operands_[use.val_]
          /\ operands_'[use.val_][use.arg_no_] = w
    BY <1>1, <1>4, <2>1 DEF UsesOf, UseType
  <2>. QED BY <2>1, <2>2, <2>3, <2>4, <2>5, <1>1
<1>. QED BY <1>2, <1>3, <1>5, <1>6, <1>7 DEF IInv

\* A deleted instruction is no user any more.
LEMMA DeleteGood ==
  ASSUME IInv, NEW u \in Values, Delete(u)
  PROVE  IInv' /\ Abstract!Delete(u)
<1>0. /\ Present(u)
      /\ \A x \in Values \ {u} : Present(x) => \A i \in DOMAIN operands_[x] : operands_[x][i] # u
      /\ use_list_' = RemoveUseOfOps(u)
      /\ status' = [status EXCEPT ![u] = "deleted"]
      /\ operands_' = operands_
  BY DEF Delete
<1>1. \A v \in Values : use_list_'[v] \subseteq use_list_[v]
  BY <1>0 DEF RemoveUseOfOps
<1>2. TypeOK'
  <2>1. use_list_' \in [Values -> SUBSET UseType]
    BY <1>0 DEF RemoveUseOfOps, IInv, TypeOK, UseType
  <2>. QED BY <1>0, <2>1 DEF IInv, TypeOK, UseType
<1>3. OperandsUsable'
  BY <1>0 DEF OperandsUsable, IInv, TypeOK, Usable, Present
<1>4. UnbornUnused'
  BY <1>0, <1>1 DEF UnbornUnused, IInv, TypeOK
<1>5. LiveListsExact'
  <2> SUFFICES ASSUME NEW v \in Values, Usable(v)', NEW use \in UseType
               PROVE  use \in use_list_'[v] <=> use \in UsesOf(v)'
    BY <1>2 DEF LiveListsExact, TypeOK, UseType, UsesOf
  <2>1. use = Use(use.val_, use.arg_no_) /\ use.val_ \in Values /\ use.arg_no_ \in 1 .. MaxOps
    BY DEF UseType, Use
  <2>2. v # u /\ Usable(v)
    BY <1>0 DEF Usable, IInv, TypeOK
  <2>3. use \in use_list_[v] <=>
          /\ Present(use.val_)
          /\ use.arg_no_ \in DOMAIN operands_[use.val_]
          /\ operands_[use.val_][use.arg_no_] = v
    BY <2>1, <2>2, ListEntries
  <2>4. use \in use_list_'[v] <=> use \in use_list_[v] /\ use.val_ # u
    BY <1>0, <2>3 DEF RemoveUseOfOps
  <2>5. use \in UsesOf(v)' <=>
          /\ Present(use.val_) /\ use.val_ # u
          /\ use.arg_no_ \in DOMAIN operands_[use.val_]
          /\ operands_[use.val_][use.arg_no_] = v
    BY <1>0, <2>1 DEF UsesOf, UseType, Present, IInv, TypeOK
  <2>. QED BY <2>3, <2>4, <2>5
<1>6. Abstract!Delete(u)
  BY <1>0 DEF Abstract!Delete, Abstract!Present, Present
<1>. QED BY <1>2, <1>3, <1>4, <1>5, <1>6 DEF IInv

\* Every step preserves the invariant and is a step of Operands.
LEMMA NextGood == IInv /\ [Next]_vars => IInv' /\ [Abstract!Next]_Abstract!vars
<1> SUFFICES ASSUME IInv, [Next]_vars PROVE IInv' /\ [Abstract!Next]_Abstract!vars
  OBVIOUS
<1>0. OpLists = Abstract!OpLists
  BY DEF OpLists, Abstract!OpLists
<1>1. ASSUME NEW u \in Values, NEW ops \in OpLists, Create(u, ops)
      PROVE  IInv' /\ Abstract!Next
  BY <1>0, <1>1, CreateGood DEF Abstract!Next
<1>2. ASSUME NEW u \in Values, NEW v \in Values, AddOperand(u, v)
      PROVE  IInv' /\ Abstract!Next
  BY <1>2, AddOperandGood DEF Abstract!Next
<1>3. ASSUME NEW u \in Values, NEW v \in Values, ReplaceAllUses(u, v)
      PROVE  IInv' /\ Abstract!Next
  BY <1>3, ReplaceGood DEF Abstract!Next
<1>4. ASSUME NEW u \in Values, Delete(u)
      PROVE  IInv' /\ Abstract!Next
  BY <1>4, DeleteGood DEF Abstract!Next
<1>5. CASE UNCHANGED vars
  <2>1. TypeOK' /\ OperandsUsable' /\ UnbornUnused'
    BY <1>5 DEF IInv, vars, TypeOK, OperandsUsable, UnbornUnused, Usable, Present
  <2>2. LiveListsExact'
    BY <1>5 DEF IInv, vars, LiveListsExact, UsesOf, Usable, Present
  <2>. QED BY <1>5, <2>1, <2>2 DEF IInv, vars, Abstract!vars
<1>. QED BY <1>1, <1>2, <1>3, <1>4, <1>5 DEF Next

\* Both sides of the relation keep their types: no entry names an operand
\* number beyond the operands a value may have.
THEOREM TypeCorrect == Spec => []TypeOK
<1>1. IInv => TypeOK
  BY DEF IInv
<1>. QED BY <1>1, InitGood, NextGood, PTL DEF Spec

\* use_list_ of a value in use names exactly the operands that are the value:
\* replace_all_use_with misses none and overwrites no other.
THEOREM ListsOfLiveValues == Spec => []LiveListsExact
<1>1. IInv => LiveListsExact
  BY DEF IInv
<1>. QED BY <1>1, InitGood, NextGood, PTL DEF Spec

\* The code, which only goes through the lists, redirects and deletes operands
\* as Operands does, which looks at all operands.
THEOREM UseListsImplementOperands == Spec => Implements
<1>1. Init => Abstract!Init
  BY DEF Init, Abstract!Init
<1>. QED BY <1>1, InitGood, NextGood, PTL DEF Spec, Implements, Abstract!Spec
=============================================================================
