------------------------------- MODULE TypeOrder -------------------------------
(*****************************************************************************)
(* What a sorter of types promises, without graphs, duplicates or searches:  *)
(* it keeps dependencies as long as they form no cycle, gives up only those  *)
(* that would close one, and then emits the types so that each one comes     *)
(* after all it has a kept dependency on.                                    *)
(*****************************************************************************)
CONSTANT Types

VARIABLES
  listed,   \* the types to be emitted
  depends,  \* their dependencies: pairs <<t, d>>, t depends on d
  kept,     \* the dependencies that the order respects
  emitted   \* the types emitted so far

vars == <<listed, depends, kept, emitted>>

\* A relation on the types has no cycle iff every non-empty set of types has a
\* member that is related to none of them.
Acyclic(R) ==
  \A S \in SUBSET Types : S # {} => \E t \in S : \A d \in S : <<t, d>> \notin R

Init ==
  /\ listed = {}
  /\ depends = {}
  /\ kept = {}
  /\ emitted = {}

\* The types to sort, and their dependencies, are given once.
Give ==
  /\ listed = {}
  /\ listed' \in SUBSET Types
  /\ depends' \in SUBSET (listed' \X listed')
  /\ UNCHANGED <<kept, emitted>>

\* Accept a dependency, as long as nothing is emitted.
Keep(t, d) ==
  /\ emitted = {}
  /\ <<t, d>> \in depends
  /\ Acyclic(kept \union {<<t, d>>})
  /\ kept' = kept \union {<<t, d>>}
  /\ UNCHANGED <<listed, depends, emitted>>

\* Emit a type whose kept dependencies are out already. By now every
\* dependency is either kept or hopeless.
Emit(t) ==
  /\ t \in listed \ emitted
  /\ \A p \in depends \ kept : ~ Acyclic(kept \union {p})
  /\ \A d \in listed : <<t, d>> \in kept => d \in emitted
  /\ emitted' = emitted \union {t}
  /\ UNCHANGED <<listed, depends, kept>>

Next ==
  \/ Give
  \/ \E t, d \in listed : Keep(t, d)
  \/ \E t \in listed : Emit(t)

Spec == Init /\ [][Next]_vars
===============================================================================
