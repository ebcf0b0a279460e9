------------------------------- MODULE Catalog -------------------------------
(*****************************************************************************)
(* The Catalog of src/Catalog.cpp: the exports, and the types both as a      *)
(* sequence (the order of the output) and as a set (to test membership).     *)
(*****************************************************************************)
EXTENDS Naturals, Sequences

CONSTANTS
  Types,    \* the autoffi::Type objects
  Exports   \* the autoffi::Export objects

VARIABLES
  typeSeq, typeSet, \* the types, twice
  exports           \* the exports

catalogVars == <<typeSeq, typeSet, exports>>

CatalogInit ==
  /\ typeSeq = << >>
  /\ typeSet = {}
  /\ exports = {}

-------------------------------------------------------------------------------
\* Wrong variant: the set is not consulted.
addTypeAlways(t) ==
  /\ typeSet' = typeSet \union {t}
  /\ typeSeq' = Append(typeSeq, t)
  /\ UNCHANGED exports

addType(t) ==
  /\ typeSet' = typeSet \union {t}
  /\ typeSeq' = IF t \in typeSet THEN typeSeq ELSE Append(typeSeq, t)
  /\ UNCHANGED exports

addExport(e) ==
  /\ exports' = exports \union {e}
  /\ UNCHANGED <<typeSeq, typeSet>>

\* Wrong variant: the last type takes the place of the erased one.
eraseBySwap(s, t) ==
  LET n == CHOOSE k \in 1 .. Len(s) : s[k] = t
  IN  SubSeq([s EXCEPT ![n] = s[Len(s)]], 1, Len(s) - 1)

\* typeSeq.erase(std::find(...)): the first occurrence goes.
erase(s, t) ==
  LET n == CHOOSE k \in 1 .. Len(s) : s[k] = t /\ \A m \in 1 .. k - 1 : s[m] # t
  IN  SubSeq(s, 1, n - 1) \o SubSeq(s, n + 1, Len(s))

removeType(t) ==
  /\ typeSet' = typeSet \ {t}
  /\ typeSeq' = IF t \in typeSet THEN erase(typeSeq, t) ELSE typeSeq
  /\ UNCHANGED exports

removeExport(e) ==
  /\ exports' = exports \ {e}
  /\ UNCHANGED <<typeSeq, typeSet>>

\* removeDanglingTypes has an empty body: it is not an action.
CatalogNext ==
  \/ \E t \in Types : addType(t) \/ removeType(t)
  \/ \E e \in Exports : addExport(e) \/ removeExport(e)

CatalogSpec == CatalogInit /\ [][CatalogNext]_catalogVars

-------------------------------------------------------------------------------
(* Properties.                                                               *)

\* The sequence holds the types of the set, each of them once: this is what
\* CountMap needs to number the types without gaps.
SeqMatchesSet ==
  /\ typeSet = {typeSeq[k] : k \in 1 .. Len(typeSeq)}
  /\ \A a, b \in 1 .. Len(typeSeq) : typeSeq[a] = typeSeq[b] => a = b

\* s comes before t in the sequence q.
InOrder(q, s, t) == \E a, b \in 1 .. Len(q) : a < b /\ q[a] = s /\ q[b] = t

\* No operation changes the order of the types that stay.
OrderKept ==
  [][\A s, t \in typeSet \intersect typeSet' :
       InOrder(typeSeq, s, t) <=> InOrder(typeSeq', s, t)]_catalogVars
===============================================================================
