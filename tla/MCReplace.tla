------------------------------- MODULE MCReplace -------------------------------
(* Calls of replaceType on four types: src has no members, the others    *)
(* refer to each other in any way.                                            *)
EXTENDS Replace

Ids == 1 .. 4

Leaf == [kind |-> "builtin", kids |-> << >>]

Shapes ==
  {Leaf}
    \union [kind : {"pointer", "qualified"}, kids : [{1} -> Ids]]
    \union {[kind |-> "struct", kids |-> p] : p \in {q \in Ids \X Ids : q[1] <= q[2]}}
    \union {[kind |-> "function", kids |-> <<a, b>>] : a, b \in Ids}

\* The container lists the types in the order of their insertion. A type with
\* sugar is listed twice, one of an earlier job is not listed.
SmallCalls ==
  {[objs |-> <<Leaf, a, b, c>>, src |-> 1, dest |-> 4, entries |-> <<2, 1, 3, 2, 4>>] :
     a, b, c \in Shapes}
    \union
  {[objs |-> <<Leaf, a, b, [kind |-> "pointer", kids |-> <<2>>]>>, src |-> 1, dest |-> 3,
    entries |-> <<2, 1, 3>>] : a, b \in Shapes}
===============================================================================
