------------------------------ MODULE MCCatalog ------------------------------
(* Catalogs, from three sides that have no influence on each other: one of few *)
(* types, for any sequence of operations, and then a symbol table of its       *)
(* exports, for any sequence of lookups, removals and renamings; the writer,   *)
(* on catalogs of two types that refer to each other in any way, with either   *)
(* left out or listed more than once; and the numbers of one declaration on    *)
(* their way into one message.  A behaviour is one of one side.                *)
EXTENDS Catalog, SymbolTable, ProtoFormat, Numbers

VARIABLE side  \* "catalog", "writer" or "numbers"

CONSTANT Ordered  \* how many types the catalog may have when its table is made

\* Every order of up to three exports; catalogs have no export twice.
MCRanges == {s \in UNION {[1 .. n -> Entries] : n \in 0 .. 3} : \A k, l \in DOMAIN s : s[k] = s[l] => k = l}

\* The program fills its catalog, before it does anything about a table ...
Fill == CatalogNext /\ ~ made /\ name = namesThen /\ UNCHANGED tableVars

\* ... which is then made of the exports of the catalog, in any order.
UseTable ==
  /\ TableNext /\ UNCHANGED catalogVars
  /\ exports = {range[k] : k \in 1 .. Len(range)}
  /\ Len(typeSeq) <= Ordered

-------------------------------------------------------------------------------
CONSTANT N  \* the number of objects

Ids == 1 .. N

\* One object of each way toString treats its members.
Shapes ==
  {[kind |-> "builtin", kids |-> << >>]}
    \union [kind : {"pointer"}, kids : [{1} -> Ids]]
    \union [kind : {"struct", "union"}, kids : UNION {[1 .. k -> Ids] : k \in 0 .. 2}]
    \union [kind : {"function"}, kids : UNION {[1 .. k -> Ids] : k \in 1 .. 2}]

ExportSets == {{[decl |-> 1, type |-> 1], [decl |-> 2, type |-> t]} : t \in Ids} \union {{}}

SmallCatalogs ==
  [types : UNION {[1 .. k -> Ids] : k \in 0 .. 3},
   exports : ExportSets,
   objs : [Ids -> Shapes]]

-------------------------------------------------------------------------------
Signed(bits) == {[bits |-> bits, value |-> v] : v \in -(2 ^ (bits - 1)) .. 2 ^ (bits - 1) - 1}
Unsigned(bits) == {[bits |-> bits, value |-> v] : v \in 0 .. 2 ^ bits - 1}

\* A type that is narrower than the field, one of its width, one in between,
\* unsigned long long and a wider one.
Enumerators(bits) == Signed(bits) \cup Unsigned(bits)
AllEnumerators == UNION {Enumerators(bits) : bits \in {2, 3, 5, 6, 8}}

Enum(values) == [kind |-> "enum", values |-> values, count |-> [bits |-> LongBits, value |-> 0], builtin |-> ""]
Builtin(b) == [Enum(<< >>) EXCEPT !.kind = "builtin", !.builtin = b]
Array(n) == [Enum(<< >>) EXCEPT !.kind = "constant array", !.count = n]

\* Every enumerator by itself, every two of a narrow type, those of a C
\* enumeration where one is an int and one is wider, every size, and every kind
\* with one that is not supported.
MCDeclarations ==
  {Enum(<< >>), [Enum(<< >>) EXCEPT !.kind = "incomplete array"],
   [Enum(<< >>) EXCEPT !.kind = "variadic array"]}
  \cup {Enum(<<n>>) : n \in AllEnumerators}
  \cup UNION {{Enum(<<m, n>>) : m, n \in values} :
                values \in {Signed(2), Unsigned(2), Signed(3), Unsigned(3)}}
  \cup {Enum(<<m, n>>) : m \in Signed(3), n \in Signed(6)}
  \cup {Array(n) : n \in Unsigned(LongBits)}
  \cup {Builtin(b) : b \in DOMAIN ProtoPrimitiveKind \cup {"BFloat16"}}

\* The message has its numbers, or there is none.
NumbersDone == pc \in {"written", "thrown"} /\ UNCHANGED numberVars

-------------------------------------------------------------------------------
allVars == <<side, catalogVars, tableVars, vars, numberVars>>

NoTable == range = << >> /\ \A e \in Entries : name[e] = "a"

NothingToWrite ==
  /\ objs = << >> /\ catTypes = << >> /\ catExports = {}
  /\ index = << >> /\ messages = << >> /\ exported = {} /\ wpc = "idle"

NoNumbers == decl = Enum(<< >>) /\ type = NoType /\ message = NoMessage /\ pc = "idle"

\* The sides that are idle stay in their first state.
MCInit ==
  /\ CatalogInit /\ TableInit
  /\ \/ side = "catalog" /\ NothingToWrite /\ NoNumbers
     \/ side = "writer" /\ NoTable /\ Init /\ NoNumbers
     \/ side = "numbers" /\ NoTable /\ NothingToWrite /\ NumbersInit

MCNext ==
  \/ side = "catalog" /\ (Fill \/ UseTable) /\ UNCHANGED <<side, vars, numberVars>>
  \/ side = "writer" /\ Next /\ UNCHANGED <<side, catalogVars, tableVars, numberVars>>
  \/ side = "numbers" /\ (NumbersNext \/ NumbersDone) /\ UNCHANGED <<side, catalogVars, tableVars, vars>>

MCSpec == MCInit /\ [][MCNext]_allVars
===============================================================================
