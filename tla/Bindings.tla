------------------------------- MODULE Bindings -------------------------------
(*****************************************************************************)
(* What the program promises as a whole, without types, visitors, lists or   *)
(* messages: the translation units are analysed one after the other, the     *)
(* first that fails is the end, and only when all of them have been is       *)
(* everything published at once, or nothing: then some unit has to redeclare *)
(* a record.                                                                 *)
(*****************************************************************************)
EXTENDS Naturals, Sequences

CONSTANTS
  Units,          \* what may be analysed
  Wanted(_),      \* the names a unit has to give
  Sound(_),       \* whether it is sure to be analysed
  Passable(_),    \* whether it may be analysed, which what is sound always is
  Redeclares(_)   \* whether it redeclares a record among them

VARIABLES
  request,   \* the units
  next,      \* the unit to be analysed next
  gathered,  \* the names known so far, as pairs <<unit, name>>
  document,  \* the names published
  outcome    \* "none" until it has ended, then "written" or "error"

vars == <<request, next, gathered, document, outcome>>

Init ==
  /\ request \in Seq(Units)
  /\ next = 1
  /\ gathered = {}
  /\ document = {}
  /\ outcome = "none"

More == outcome = "none" /\ next <= Len(request)

Analysed == outcome = "none" /\ next > Len(request)

\* A unit gives all its names or, when it cannot be analysed, none.
Analyse ==
  /\ More
  /\ next' = next + 1
  /\ Passable(request[next])
  /\ gathered' = gathered \union {<<next, name>> : name \in Wanted(request[next])}
  /\ UNCHANGED <<request, document, outcome>>

Fail ==
  /\ More
  /\ outcome' = "error"
  /\ ~ Sound(request[next])
  /\ UNCHANGED <<request, next, gathered, document>>

Publish ==
  /\ Analysed
  /\ document' = gathered
  /\ outcome' = "written"
  /\ UNCHANGED <<request, next, gathered>>

Refuse ==
  /\ Analysed
  /\ outcome' = "error"
  /\ \E m \in 1 .. Len(request) : Redeclares(request[m])
  /\ UNCHANGED <<request, next, gathered, document>>

Next == Analyse \/ Fail \/ Publish \/ Refuse

Spec == Init /\ [][Next]_vars

\* Every behaviour gets to an outcome.
Ends == <>(outcome # "none")
===============================================================================
