------------------------------- MODULE Operands -------------------------------
(***************************************************************************)
(* What the def-use lists of LightIR are for, without the lists: a graph   *)
(* of values and their operands in which replacing a value redirects every *)
(* operand that is that value, and no other.  UseDef implements it.        *)
(***************************************************************************)
EXTENDS Integers, Sequences

CONSTANTS Values, MaxOps

VARIABLES
  operands,  \* for each value the values it takes, none unless it is a User
  status     \* "unborn", then "live", perhaps "replaced", at the end "deleted"

vars == <<operands, status>>

Usable(v) == status[v] = "live"
Present(u) == status[u] \in {"live", "replaced"}

Init ==
  /\ operands = [v \in Values |-> <<>>]
  /\ status = [v \in Values |-> "unborn"]

\* A value is made, with operands if it is an instruction.
Create(u, ops) ==
  /\ status[u] = "unborn"
  /\ \A i \in DOMAIN ops : Usable(ops[i])
  /\ operands' = [operands EXCEPT ![u] = ops]
  /\ status' = [status EXCEPT ![u] = "live"]

\* A phi gets one more operand, which may be the phi itself.
AddOperand(u, v) ==
  /\ Usable(u) /\ Usable(v) /\ Len(operands[u]) < MaxOps
  /\ operands' = [operands EXCEPT ![u] = Append(@, v)]
  /\ UNCHANGED status

\* Every operand that is v becomes w; v is used no more.
Replace(v, w) ==
  /\ Usable(v) /\ Usable(w) /\ v # w
  /\ operands' = [u \in Values |-> [i \in DOMAIN operands[u] |->
                    IF operands[u][i] = v /\ Present(u) THEN w ELSE operands[u][i]]]
  /\ status' = [status EXCEPT ![v] = "replaced"]

\* A value that is the operand of no instruction but itself is deleted.
Delete(u) ==
  /\ Present(u)
  /\ \A x \in Values \ {u} : Present(x) => \A i \in DOMAIN operands[x] : operands[x][i] # u
  /\ status' = [status EXCEPT ![u] = "deleted"]
  /\ UNCHANGED operands

OpLists == UNION {[1 .. n -> Values] : n \in 0 .. MaxOps}

Next ==
  \/ \E u \in Values, ops \in OpLists : Create(u, ops)
  \/ \E u, v \in Values : AddOperand(u, v) \/ Replace(u, v)
  \/ \E u \in Values : Delete(u)

Spec == Init /\ [][Next]_vars
=============================================================================
