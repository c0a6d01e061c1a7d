-------------------------------- MODULE UseDef --------------------------------
(***************************************************************************)
(* The two sides of the def-use relation of LightIR: operands_ of a User   *)
(* (lightir/User.cpp) and use_list_ of a Value (lightir/Value.cpp), as the *)
(* builder and Mem2Reg change them.  A use list is a set here: the code    *)
(* never depends on its order, and an entry that is there twice sets the   *)
(* same operand twice.                                                     *)
(*                                                                         *)
(* The callers' part of the contract: operands are values in use, a value  *)
(* that was replaced is not used again (Mem2Reg deletes it) and is not     *)
(* replaced by itself, and a value is deleted when nothing takes it.       *)
(***************************************************************************)
EXTENDS Integers, Sequences, FiniteSets

CONSTANTS
  Values,   \* constants, blocks and instructions; each is made once
  MaxOps    \* bound on the operands of a value

ASSUME MaxOpsAssumption == MaxOps \in Nat

VARIABLES
  operands_,   \* vector of a User; empty for a Value that is none
  use_list_,   \* entries: the user val_ and the number of the operand arg_no_
  status       \* where the value is in its life: see Operands

vars == <<operands_, use_list_, status>>

Usable(v) == status[v] = "live"
Present(u) == status[u] \in {"live", "replaced"}

Init ==
  /\ operands_ = [v \in Values |-> <<>>]
  /\ use_list_ = [v \in Values |-> {}]
  /\ status = [v \in Values |-> "unborn"]

Use(u, i) == [val_ |-> u, arg_no_ |-> i]

\* Mutant of SetOperands: an operand that is already there is not recorded.
SetOperandsFirst(u, ops) ==
  [v \in Values |-> use_list_[v] \union
     {Use(u, i) : i \in {j \in DOMAIN ops : ops[j] = v /\ \A k \in 1 .. j - 1 : ops[k] # v}}]

\* set_operand for each operand of a new user: add_use on the operand.
SetOperands(u, ops) ==
  [v \in Values |-> use_list_[v] \union {Use(u, i) : i \in {j \in DOMAIN ops : ops[j] = v}}]

\* The constructors of the instructions.
Create(u, ops) ==
  /\ status[u] = "unborn"
  /\ \A i \in DOMAIN ops : Usable(ops[i])
  /\ operands_' = [operands_ EXCEPT ![u] = ops]
  /\ use_list_' = SetOperands(u, ops)
  /\ status' = [status EXCEPT ![u] = "live"]

\* Mutant of AddOperand: the number of operands is increased too early.
AddOperandNext(u, v) ==
  /\ Usable(u) /\ Usable(v) /\ Len(operands_[u]) < MaxOps
  /\ operands_' = [operands_ EXCEPT ![u] = Append(@, v)]
  /\ use_list_' = [use_list_ EXCEPT ![v] = @ \union {Use(u, Len(operands_[u]) + 2)}]
  /\ UNCHANGED status

AddOperand(u, v) ==
  /\ Usable(u) /\ Usable(v) /\ Len(operands_[u]) < MaxOps
  /\ operands_' = [operands_ EXCEPT ![u] = Append(@, v)]
  /\ use_list_' = [use_list_ EXCEPT ![v] = @ \union {Use(u, Len(operands_[u]) + 1)}]
  /\ UNCHANGED status

\* replace_all_use_with: set_operand for every entry.  The entries are added
\* to new_val's list and stay in the old one.
ReplaceAllUses(v, new_val) ==
  /\ Usable(v) /\ Usable(new_val) /\ v # new_val
  /\ operands_' = [u \in Values |-> [i \in DOMAIN operands_[u] |->
                     IF Use(u, i) \in use_list_[v] THEN new_val ELSE operands_[u][i]]]
  /\ use_list_' = [use_list_ EXCEPT ![new_val] = @ \union use_list_[v]]
  /\ status' = [status EXCEPT ![v] = "replaced"]

\* Mutant of RemoveUseOfOps: the operands' lists keep the entries.
RemoveUseOfOpsNone(u) == use_list_

\* remove_use on every operand: all entries of that user go.
RemoveUseOfOps(u) ==
  [v \in Values |-> IF \E i \in DOMAIN operands_[u] : operands_[u][i] = v
                    THEN {use \in use_list_[v] : use.val_ # u} ELSE use_list_[v]]

\* BasicBlock::delete_instr.
Delete(u) ==
  /\ Present(u)
  /\ \A x \in Values \ {u} : Present(x) => \A i \in DOMAIN operands_[x] : operands_[x][i] # u
  /\ use_list_' = RemoveUseOfOps(u)
  /\ status' = [status EXCEPT ![u] = "deleted"]
  /\ UNCHANGED operands_

OpLists == UNION {[1 .. n -> Values] : n \in 0 .. MaxOps}

Next ==
  \/ \E u \in Values, ops \in OpLists : Create(u, ops)
  \/ \E u, v \in Values : AddOperand(u, v) \/ ReplaceAllUses(u, v)
  \/ \E u \in Values : Delete(u)

Spec == Init /\ [][Next]_vars

(***************************************************************************)
(* Properties.                                                             *)
(***************************************************************************)
\* Type invariant.
TypeOK ==
  /\ operands_ \in [Values -> OpLists]
  /\ use_list_ \in [Values -> SUBSET [val_ : Values, arg_no_ : 1 .. MaxOps]]
  /\ status \in [Values -> {"unborn", "live", "replaced", "deleted"}]

\* The operands that are v, of the instructions in the function.
UsesOf(v) ==
  {use \in [val_ : Values, arg_no_ : 1 .. MaxOps] :
     /\ Present(use.val_)
     /\ use.arg_no_ \in DOMAIN operands_[use.val_]
     /\ operands_[use.val_][use.arg_no_] = v}

\* The list of a value in use names exactly the operands that are that value:
\* replace_all_use_with misses none and overwrites no other.
LiveListsExact == \A v \in Values : Usable(v) => use_list_[v] = UsesOf(v)

\* With the lists forgotten the lists' work remains: see Operands.
Abstract == INSTANCE Operands WITH operands <- operands_

\* Every step of the lists' code is one of the steps they are for.
Implements == Abstract!Spec
=============================================================================
