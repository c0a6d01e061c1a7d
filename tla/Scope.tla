-------------------------------- MODULE Scope --------------------------------
(***************************************************************************)
(* The scopes of CminusfBuilder (include/cminusf_builder.hpp, class Scope):*)
(* a stack of maps from names to values, innermost last.                   *)
(***************************************************************************)
EXTENDS Integers, Sequences, SequencesExt

enter(inner) == Append(inner, <<>>)
exit(inner) == Front(inner)
in_global(inner) == Len(inner) = 1

\* map::insert: a name that is there already keeps its value.
insert(map, name, val) ==
  [x \in DOMAIN map \union {name} |-> IF x \in DOMAIN map THEN map[x] ELSE val]

\* MUTANT of push: the name goes to the outermost map.
pushOutermost(inner, name, val) ==
  [inner EXCEPT ![1] = insert(@, name, val)]

push(inner, name, val) ==
  [inner EXCEPT ![Len(inner)] = insert(@, name, val)]

\* MUTANT of find: the outermost declaration of the name.
findOutermost(inner, name, null) ==
  LET declaring == {i \in DOMAIN inner : name \in DOMAIN inner[i]}
  IN  IF declaring = {} THEN null
      ELSE inner[CHOOSE i \in declaring : \A j \in declaring : j >= i][name]

\* The innermost declaration of the name; null if there is none.
find(inner, name, null) ==
  LET declaring == {i \in DOMAIN inner : name \in DOMAIN inner[i]}
  IN  IF declaring = {} THEN null
      ELSE inner[CHOOSE i \in declaring : \A j \in declaring : j <= i][name]
=============================================================================
