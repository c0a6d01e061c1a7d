-------------------------------- MODULE Names --------------------------------
(***************************************************************************)
(* The names under which LightIR is printed (Function::set_instr_name):    *)
(* arguments, blocks and instructions without a name get the next numbers, *)
(* in their order in the function.  main() names every function before the *)
(* passes run and Function::print once more afterwards, so that the second *)
(* round meets a function of which only part has names.                    *)
(*                                                                         *)
(* The function is given by its values, a function of their places: the    *)
(* number of a block and that of an instruction in it.                     *)
(***************************************************************************)
EXTENDS Integers, FiniteSets, SequencesExt

VARIABLES
  name_,      \* the number in the name of each value that has one
  seq_cnt_    \* the numbers given so far

nameVars == <<name_, seq_cnt_>>

NamesInit == name_ = <<>> /\ seq_cnt_ = 0

\* set_name changes an empty name only.
Unnamed(values) == Range(values) \ DOMAIN name_

\* The loop over blocks comes to place q before it comes to place r.
Earlier(q, r) == q[1] < r[1] \/ (q[1] = r[1] /\ q[2] < r[2])

\* What is in the map seq of this round when v is come to, at its first place.
FirstPlace(values, v) ==
  CHOOSE q \in DOMAIN values :
    values[q] = v /\ \A r \in DOMAIN values : Earlier(r, q) => values[r] # v
Before(values, v) ==
  LET q == FirstPlace(values, v)
  IN  {values[r] : r \in {r \in DOMAIN values : Earlier(r, q)}} \ DOMAIN name_

\* Mutant of Number: every round starts at 0.
NumberFrom0(values, v) == Cardinality(Before(values, v))

\* seq_num, for a value that is given a name.
Number(values, v) == seq_cnt_ + Cardinality(Before(values, v))

set_instr_name(values) ==
  /\ name_' = [v \in DOMAIN name_ \union Range(values) |->
                 IF v \in DOMAIN name_ THEN name_[v] ELSE Number(values, v)]
  /\ seq_cnt_' = seq_cnt_ + Cardinality(Unnamed(values))

\* Every value can be referred to, and by a name of its own.
Distinct(values) ==
  /\ Range(values) \subseteq DOMAIN name_
  /\ \A q, r \in DOMAIN values : q # r => name_[values[q]] # name_[values[r]]
=============================================================================
