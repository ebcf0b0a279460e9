----------------------------- MODULE ProtoFormat -----------------------------
(*****************************************************************************)
(* Format::write of src/ProtoFormat.cpp: the types of the catalog are        *)
(* numbered by a CountMap, each type and then each export becomes a message  *)
(* that refers to types by number, and when all are converted the message is *)
(* printed.                                                                  *)
(*****************************************************************************)
EXTENDS Naturals, Sequences, FiniteSets

CONSTANT Catalogs  \* the catalogs to be written: [types, exports, objs]

ASSUME CatalogsAssumption ==
  \A c \in Catalogs :
    /\ c.types \in Seq(DOMAIN c.objs)
    /\ \A t \in DOMAIN c.objs : c.objs[t].kids \in Seq(DOMAIN c.objs)
    /\ IsFiniteSet(c.exports)

VARIABLES
  objs,      \* the AutoFFI types: [kind, kids]
  catTypes,  \* Catalog::getTypes
  catExports,\* Catalog::getExports
  index,     \* the CountMap
  messages,  \* the type messages: [id, kind, refs]
  exported,  \* the export messages: [export, type]
  wpc        \* where write is

input == <<objs, catTypes, catExports>>
vars == <<objs, catTypes, catExports, index, messages, exported, wpc>>

Init ==
  /\ \E c \in Catalogs : objs = c.objs /\ catTypes = c.types /\ catExports = c.exports
  /\ index = << >>
  /\ messages = << >>
  /\ exported = {}
  /\ wpc = "new"

-------------------------------------------------------------------------------
First(s, t, k) == s[k] = t /\ \A m \in 1 .. k - 1 : s[m] # t

\* Wrong variant: the numbers start at 0.
CountMapFromZero(s) == [t \in {s[k] : k \in 1 .. Len(s)} |-> (CHOOSE k \in 1 .. Len(s) : First(s, t, k)) - 1]

\* Numbers from 1, in order; a second occurrence of a type changes nothing but
\* uses up a number.
CountMap(s) == [t \in {s[k] : k \in 1 .. Len(s)} |-> CHOOSE k \in 1 .. Len(s) : First(s, t, k)]

HasID(t) == t \in DOMAIN index
getID(t) == index[t]

\* The types whose toString is called by that of t.
Printed(t) ==
  LET kids == objs[t].kids
  IN  CASE objs[t].kind \in {"union", "enum", "builtin"} -> {}
        [] objs[t].kind = "function" -> {kids[1]}
        [] OTHER -> {kids[n] : n \in 1 .. Len(kids)}

\* toString of t never ends: there is a set of types, t among them, in which
\* each one prints another.
Endless(t) ==
  \E S \in SUBSET (1 .. Len(objs)) : t \in S /\ \A s \in S : Printed(s) \intersect S # {}

\* getID of a type without a number throws, with the toString of the type in
\* the text of the exception: for a recursive type the call stack overflows
\* before anything is thrown.
NoID(t) == wpc' = IF Endless(t) THEN "overflow" ELSE "error"

-------------------------------------------------------------------------------
Start ==
  /\ wpc = "new"
  /\ index' = CountMap(catTypes)
  /\ messages' = << >>
  /\ exported' = {}
  /\ wpc' = "types"
  /\ UNCHANGED input

\* The type whose turn it is, and its references.
Current == catTypes[Len(messages) + 1]
Refs == objs[Current].kids

WriteType ==
  /\ wpc = "types"
  /\ Len(messages) < Len(catTypes)
  /\ \A n \in 1 .. Len(Refs) : HasID(Refs[n])
  /\ messages' = Append(messages, [id |-> getID(Current), kind |-> objs[Current].kind,
                                   refs |-> [n \in 1 .. Len(Refs) |-> getID(Refs[n])]])
  /\ UNCHANGED <<input, index, exported, wpc>>

\* The first reference without a number.
TypeMissing ==
  /\ wpc = "types"
  /\ Len(messages) < Len(catTypes)
  /\ \E n \in 1 .. Len(Refs) :
       /\ ~ HasID(Refs[n])
       /\ \A m \in 1 .. n - 1 : HasID(Refs[m])
       /\ NoID(Refs[n])
  /\ UNCHANGED <<input, index, messages, exported>>

\* The exports are a set of pointers, visited in any order.
Remaining == {e \in catExports : \A x \in exported : x.export # e}

WriteExport(e) ==
  /\ wpc = "types"
  /\ Len(messages) = Len(catTypes)
  /\ HasID(e.type)
  /\ exported' = exported \union {[export |-> e, type |-> getID(e.type)]}
  /\ UNCHANGED <<input, index, messages, wpc>>

ExportMissing(e) ==
  /\ wpc = "types"
  /\ Len(messages) = Len(catTypes)
  /\ ~ HasID(e.type)
  /\ NoID(e.type)
  /\ UNCHANGED <<input, index, messages, exported>>

\* Wrong variant: the message is printed as soon as the types are there.
PrintEarly ==
  /\ wpc = "types"
  /\ Len(messages) = Len(catTypes)
  /\ wpc' = "written"
  /\ UNCHANGED <<input, index, messages, exported>>

PrintCatalog ==
  /\ wpc = "types"
  /\ Len(messages) = Len(catTypes)
  /\ Remaining = {}
  /\ wpc' = "written"
  /\ UNCHANGED <<input, index, messages, exported>>

Step ==
  \/ Start
  \/ WriteType \/ TypeMissing
  \/ \E e \in Remaining : WriteExport(e) \/ ExportMissing(e)
  \/ PrintCatalog

Finished == wpc \in {"written", "error", "overflow"} /\ UNCHANGED vars

Next == Step \/ Finished

Spec == Init /\ [][Next]_vars

-------------------------------------------------------------------------------
(* Properties.                                                               *)

\* The references of the catalog that lead out of it.
Unlisted ==
  LET listed == {catTypes[k] : k \in 1 .. Len(catTypes)}
      used == (UNION {{objs[t].kids[n] : n \in 1 .. Len(objs[t].kids)} : t \in listed})
                \union {e.type : e \in catExports}
  IN  used \ listed

\* The output is complete or there is none: it is printed exactly for the
\* catalogs whose types refer to no type outside, and then it has one message
\* for every type and every export.
AllOrNothing ==
  /\ wpc = "written" => /\ Unlisted = {}
                        /\ Len(messages) = Len(catTypes)
                        /\ Cardinality(exported) = Cardinality(catExports)
  /\ wpc \in {"error", "overflow"} => Unlisted # {}

\* "Assigns an unique identifier to each element in the container"
\* (CountMap.hpp:20), and the reader can use the number of a message as its
\* position when the catalog holds no type twice.
NumbersArePositions ==
  (\A a, b \in 1 .. Len(catTypes) : catTypes[a] = catTypes[b] => a = b) =>
    \A k \in 1 .. Len(messages) :
      /\ messages[k].id = k
      /\ \A n \in 1 .. Len(messages[k].refs) :
           messages[k].refs[n] \in 1 .. Len(catTypes)
             /\ catTypes[messages[k].refs[n]] = objs[catTypes[k]].kids[n]
===============================================================================
