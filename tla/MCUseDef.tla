------------------------------ MODULE MCUseDef ------------------------------
(***************************************************************************)
(* Instances of UseDef.  No value differs from another before it is made,  *)
(* so that they are interchangeable.                                       *)
(***************************************************************************)
EXTENDS UseDef, TLC

Symmetry == Permutations(Values)
=============================================================================
