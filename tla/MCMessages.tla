------------------------------ MODULE MCMessages ------------------------------
(* The message classes, from either side: two messages in memory and every    *)
(* sequence of calls, or catalogs that go through a file.  A behaviour is one *)
(* of ProtoMessage or one of CatalogFile; the other one stays at its start.   *)
EXTENDS ProtoMessage, CatalogFile

VARIABLE onFile  \* which of the two it is

\* Two values of each type besides the absent one: a small one and one whose
\* varint is longer.
Small(f) ==
  CASE f.type = "string" \/ f.type = "bytes" -> << 65 >>
    [] f.type = "bool" -> TRUE
    [] OTHER -> 1
Large(f) ==
  CASE f.type = "string" \/ f.type = "bytes" -> << 66, 67 >>
    [] f.type = "bool" -> TRUE
    [] f.type = "enum" -> 24
    [] OTHER -> -2

RECURSIVE Full(_, _)
Full(c, large) ==
  [n \in FieldNames(c) |->
     LET f == Schema[c][n]
     IN  CASE IsMessage(f) /\ f.repeated /\ large -> << Full(f.type, TRUE), Empty(f.type) >>
           [] IsMessage(f) -> << Full(f.type, large) >>
           [] f.repeated -> IF large THEN << 300, 0 >> ELSE << 7 >>
           [] OTHER -> IF large THEN Large(f) ELSE Small(f)]

\* A catalog that goes as deep as messages go.
DeepCatalog ==
  [type |-> << [Empty("Type") EXCEPT !.id = 300, !.paramType = << 1, 300 >>,
                                     !.field = << Full("RecordField", TRUE) >>] >>,
   export |-> << Full("Export", TRUE), Empty("Export") >>]

MCSamples(c) ==
  CASE c = "Type" -> {Full(c, TRUE)}
    [] c = "Catalog" -> {Empty(c), DeepCatalog}
    [] OTHER -> {Empty(c), Full(c, TRUE)}

\* The members of Type whose setters are called: one of each kind.
SomeNumbers == {"id", "recordKind", "isVolatile"}

ValueTable ==
  [c \in Classes |-> [n \in FieldNames(c) |->
     LET f == Schema[c][n]
     IN  IF IsMessage(f) THEN {IF f.type = "Type" THEN Empty(f.type) ELSE Full(f.type, FALSE)}
         ELSE IF f.repeated THEN {200}
         ELSE IF c = "Type" /\ n \notin SomeNumbers THEN {}
         ELSE {Large(f)}]]
MCValues(c, n) == ValueTable[c][n]

MCJunk == {77}
MCMaxCalls(c) == IF c = "Export" THEN 3 ELSE 2

-------------------------------------------------------------------------------
AType == [Empty("Type") EXCEPT
  !.id = 300, !.kind = 24, !.elementType = 2, !.size = -2, !.isVolatile = TRUE,
  !.paramType = << 1, 300 >>,
  !.field = << [Empty("RecordField") EXCEPT !.name = << 65, 66 >>, !.type = 5,
                 !.defaultValue = << [Empty("Value") EXCEPT !.value = << 7 >>] >>] >>,
  !.value = << [Empty("EnumValue") EXCEPT !.name = << 67 >>, !.value = 128] >>]
AnExport == [Empty("Export") EXCEPT !.name = << 68 >>, !.type = 300]

MCCatalogs ==
  {[type |-> << >>, export |-> << AnExport, Empty("Export") >>],
   [type |-> << AType, [Empty("Type") EXCEPT !.id = 1] >>, export |-> << AnExport >>]}

\* Fields of later versions (a varint, bytes, four and eight bytes), one within
\* a type; parameter types that are not packed; a known number with another wire
\* type; a tag above the cutoff; a name that is no UTF-8; the end of a group; a
\* tag that never ends; a number that a zero takes back; a field without a number.
MCForeign ==
  {<< 24, 200, 1 >>, << 26, 2, 8, 8 >>, << 29, 1, 2, 3, 4 >>, << 25, 1, 2, 3, 4, 5, 6, 7, 8 >>,
   << 10, 5, 24, 9, 8, 172, 2 >>, << 10, 3, 208, 1, 7 >>,
   << 10, 6, 208, 1, 7, 208, 1, 8 >>, << 8, 1 >>, << 160, 6, 1 >>,
   << 18, 3, 10, 1, 255 >>, << 18, 2, 16, 3, 12 >>, << 255, 255 >>,
   << 10, 4, 8, 1, 8, 0 >>, << 2, 0 >>}

-------------------------------------------------------------------------------
allVars == <<vars, onFile, fileVars>>

\* Two messages that nobody calls.
NoMessages ==
  /\ class = "Value" /\ msg = << New("Value", 77), New("Value", 77) >> /\ sameArena = FALSE
  /\ bytes = << >> /\ decoded = << >> /\ written = << >> /\ call = << "new" >> /\ calls = 0

MCInit ==
  /\ onFile \in BOOLEAN
  /\ FileInit
  /\ IF onFile THEN NoMessages ELSE Init

MCNext ==
  \/ ~ onFile /\ Next /\ UNCHANGED <<onFile, fileVars>>
  \/ onFile /\ FileNext /\ UNCHANGED <<onFile, vars>>

MCSpec == MCInit /\ [][MCNext]_allVars
===============================================================================
