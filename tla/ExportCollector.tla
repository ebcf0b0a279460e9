--------------------------- MODULE ExportCollector ---------------------------
(*****************************************************************************)
(* The ExportCollector of src/clang.cpp: one Visit call per collected        *)
(* declaration converts its type and pushes an Export. A record that is a    *)
(* redeclaration also replaces the type of the previous declaration, and     *)
(* marks the entries of that type as dangling.                               *)
(*                                                                           *)
(* The declarations are a std::set of pointers: they are visited in the      *)
(* order of their addresses, which may be any order.                         *)
(*****************************************************************************)
EXTENDS TypeConverter, Replacement

VARIABLES
  decls,    \* the declarations still to be visited
  cur,      \* those being visited: at most one
  latest,   \* the type of a redeclared record while its previous one is visited
  exports   \* the Exports: [decl, type]

collVars == <<convVars, decls, cur, latest, exports>>

\* What the collector distinguishes of a declaration: the member function that
\* visits it, its type, and whether it is the first declaration of its entity.
\* A C++ type alias is matched but has no member function of its own.
DeclKinds == {"typedef", "function", "var", "record", "enum", "alias"}

\* clang shares the type of a record among its declarations (the constructor of
\* a redeclaration takes over getTypeForDecl of the previous one).
PreviousType(d) == d.type[1]

Declared(a) ==
  \A d \in a.decls :
    /\ d.kind \in DeclKinds
    /\ d.type \in QualTypes
    /\ d.first \in BOOLEAN
    /\ d.kind \in {"record", "enum"} => d.type[2] = "none"
    /\ d.kind = "record" => a.kind[d.type[1]] \in Records

ASSUME DeclsAssumption == \A a \in ASTs : Declared(a)

Init ==
  /\ ast \in ASTs
  /\ types = << >>
  /\ objs = << >>
  /\ stack = << >>
  /\ ret = Null
  /\ failed = FALSE
  /\ decls = ast.decls
  /\ cur = {}
  /\ latest = Null
  /\ exports = << >>

\* A new ExportCollector for the declarations ds of a. The objects of an earlier
\* one stay: nothing is ever deleted.
Begin(a, ds) ==
  /\ ast' = [kind |-> a.kind, parts |-> a.parts, decls |-> ds]
  /\ types' = << >>
  /\ stack' = << >>
  /\ ret' = Null
  /\ decls' = ds
  /\ cur' = {}
  /\ latest' = Null
  /\ exports' = << >>
  /\ UNCHANGED <<objs, failed>>

-------------------------------------------------------------------------------
\* VisitDecl of an alias falls through to the empty default of clang.
SkipAlias(d) ==
  /\ cur = {}
  /\ d.kind = "alias"
  /\ decls' = decls \ {d}
  /\ UNCHANGED <<convVars, cur, latest, exports>>

\* VisitTypedefDecl, VisitFunctionDecl and VisitVarDecl convert a qualified
\* type, VisitRecordDecl and VisitEnumDecl the type of the declaration.
VisitDecl(d) ==
  /\ cur = {}
  /\ d.kind # "alias"
  /\ decls' = decls \ {d}
  /\ cur' = {d}
  /\ stack' = <<IF d.kind \in {"record", "enum"} THEN Visit(d.type[1]) ELSE VisitQualType(d.type)>>
  /\ UNCHANGED <<ast, types, objs, ret, failed, latest, exports>>

\* The conversion asked for has returned.
Converted(d) == d \in cur /\ stack = << >> /\ ret # Null

Redeclares(d) == d.kind = "record" /\ ~ d.first

\* Wrong variant: a redeclaration is exported before its previous declaration
\* is looked at, and again afterwards.
VisitPreviousDeclExporting(d) ==
  /\ Converted(d)
  /\ Redeclares(d)
  /\ latest = Null
  /\ latest' = ret
  /\ stack' = <<Visit(PreviousType(d))>>
  /\ ret' = Null
  /\ exports' = Append(exports, [decl |-> d, type |-> ret])
  /\ UNCHANGED <<ast, types, objs, failed, decls, cur>>

PushExport(d) ==
  /\ Converted(d)
  /\ ~ Redeclares(d)
  /\ exports' = Append(exports, [decl |-> d, type |-> ret])
  /\ cur' = {}
  /\ ret' = Null
  /\ UNCHANGED <<ast, types, objs, stack, failed, decls, latest>>

VisitPreviousDecl(d) ==
  /\ Converted(d)
  /\ Redeclares(d)
  /\ latest = Null
  /\ latest' = ret
  /\ stack' = <<Visit(PreviousType(d))>>
  /\ ret' = Null
  /\ UNCHANGED <<ast, types, objs, failed, decls, cur, exports>>

\* Wrong variant: the entries of the other types are left alone.
replaceReprsKept(src) ==
  [n \in 1 .. Len(types) |->
     IF types[n].autoffi = src THEN [types[n] EXCEPT !.dangling = TRUE] ELSE types[n]]

\* Entries of src are marked as dangling; every other entry is replaced by a
\* new TypeRepr, which is not dangling, whatever the old one was.
replaceReprs(src) ==
  [n \in 1 .. Len(types) |->
     IF types[n].autoffi = src THEN [types[n] EXCEPT !.dangling = TRUE]
     ELSE TypeRepr(types[n].clang, types[n].autoffi)]

\* replaceType(prevType, type), then the export of the redeclaration.
ReplacePrevious(d) ==
  /\ Converted(d)
  /\ latest # Null
  /\ types' = replaceReprs(ret)
  /\ objs' = ReplaceAll(objs, ret, latest)
  /\ exports' = Append([n \in 1 .. Len(exports) |->
                          IF exports[n].type = ret THEN [exports[n] EXCEPT !.type = latest] ELSE exports[n]],
                       [decl |-> d, type |-> latest])
  /\ cur' = {}
  /\ latest' = Null
  /\ ret' = Null
  /\ UNCHANGED <<ast, stack, failed, decls>>

CollStep ==
  \/ \E d \in decls : SkipAlias(d) \/ VisitDecl(d)
  \/ \E d \in cur : PushExport(d) \/ VisitPreviousDecl(d) \/ ReplacePrevious(d)
  \/ ConvStep /\ UNCHANGED <<decls, cur, latest, exports>>

Collected == decls = {} /\ cur = {}

\* All declarations are visited, or an exception has left analyse.
Done == (Collected \/ failed) /\ UNCHANGED collVars

Next == CollStep \/ Done

Spec == Init /\ [][Next]_collVars

\* One thread visits the declarations; it is not interrupted.
FairSpec == Spec /\ WF_collVars(CollStep)

-------------------------------------------------------------------------------
(* Properties.                                                               *)

\* The types of the variables. Frames of the stack and members of objects
\* refer to objects that exist, or to none yet.
TypeOK ==
  /\ ast.kind \in [ClangTypes -> Kinds] /\ ast.parts \in [ClangTypes -> Seq(QualTypes)]
  /\ types \in Seq([clang : Keys, autoffi : Objects, dangling : BOOLEAN])
  /\ objs \in Seq([kind : Leaves \union Composites \union {"qualified"}, kids : Seq(Nat)])
  /\ \A o \in Objects : \A n \in DOMAIN objs[o].kids : objs[o].kids[n] \in Objects \union {Null}
  /\ stack \in Seq([fn : {"VisitQualType", "Visit"}, clang : Keys, qualified : BOOLEAN,
                     obj : Objects \union {Null}, got : Nat])
  /\ ret \in Objects \union {Null}
  /\ failed \in BOOLEAN
  /\ decls \subseteq ast.decls
  /\ cur \subseteq ast.decls \ decls
  /\ latest \in Objects \union {Null}
  /\ exports \in Seq([decl : ast.decls, type : Objects])

\* Between two conversions every entry of the container is right: the object
\* has the shape of its clang type with all sugar removed, each member is the
\* object of the corresponding part, and no member is still NULL. Under a key
\* that a type shares with a form of it that has extended qualifiers only, it
\* may be that form's QualType instead (which then is its own underlying type,
\* unless the type is sugar): the container cannot tell them apart.
FaithfulConversion ==
  stack = << >> =>
    \A n \in 1 .. Len(types) :
      LET k == types[n].clang IN
        \/ SameShape(k, types[n].autoffi)
        \/ Blurred(k) /\ Qualifies(k[1], types[n].autoffi)

\* "Skip creation of qualified types where no qualifiers are present"
\* (clang.cpp:209): a part that is written without qualifiers, and is not sugar
\* for anything, is not converted to a QualType.
NoQualifiersNoQualType ==
  stack = << >> =>
    \A n \in 1 .. Len(types) :
      LET k == types[n].clang
          o == types[n].autoffi IN
      ~ k[2] /\ KindOf(k[1]) \in Composites /\ objs[o].kind # "qualified" =>
        \A m \in 1 .. Len(PartsOf(k[1])) :
          LET part == PartsOf(k[1])[m] IN
          ~ hasLocalQualifiers(part) /\ KindOf(part[1]) # "sugar" => objs[objs[o].kids[m]].kind # "qualified"

\* A key that sugar cannot give to an object a second time.
Plain(k) == k[2] \/ KindOf(k[1]) # "sugar"

\* No clang type is converted twice, however it is reached, and even while its
\* own conversion is going on: an object has its entry from the start, under a
\* key of no sugar (or one that is blurred), and any other that it has came later
\* and under sugar.
OneObjectEach ==
  \A o \in Objects :
    \E n \in 1 .. Len(types) :
      /\ types[n].autoffi = o
      /\ Plain(types[n].clang) \/ Blurred(types[n].clang)
      /\ \A m \in 1 .. Len(types) :
           types[m].autoffi = o => m = n \/ (n < m /\ ~ Plain(types[m].clang))

\* The recursion never starts on a type it is already converting: this is what
\* bounds the C++ call stack on recursive types.
NoReentry ==
  \A a, b \in 1 .. Len(stack) :
    stack[a].obj # Null /\ stack[b].obj # Null /\ stack[a].fn = stack[b].fn
      /\ stack[a].clang = stack[b].clang => a = b

\* The type o is what the declared type of d was converted to.
DeclaredAs(d, o) ==
  IF d.kind \in {"record", "enum"} THEN Converts(d.type[1], o) ELSE Stands(d.type, o)

\* Every visited declaration except an alias has exactly one export, and
\* whatever was converted and replaced since, the type of that export is the
\* one its declared type was converted to.
ExportsFaithful ==
  \A d \in ast.decls \ (decls \union cur) :
    LET its == {n \in 1 .. Len(exports) : exports[n].decl = d} IN
      /\ Cardinality(its) = IF d.kind = "alias" THEN 0 ELSE 1
      /\ \A n \in its : DeclaredAs(d, exports[n].type)

\* The objects that will not be listed: all their entries are dangling.
Lost == {o \in {types[n].autoffi : n \in 1 .. Len(types)} : \A n \in 1 .. Len(types) : types[n].autoffi = o => types[n].dangling}

\* However many records are redeclared, and in whatever order, at most one type
\* is lost: that of the redeclaration that was exported last.
AtMostOneLost ==
  \A o \in Lost :
    \E m \in 1 .. Len(exports) :
      /\ Redeclares(exports[m].decl) /\ exports[m].type = o
      /\ \A l \in m + 1 .. Len(exports) : ~ Redeclares(exports[l].decl)

\* "Re-introduce topological sorting as a solution to forward declarations"
\* (CHANGELOG.md): with forward declarations the list that is sorted has the
\* type of every export.
ExportedTypesListed ==
  Collected => \A n \in 1 .. Len(exports) : exports[n].type \notin Lost

\* The collection ends, with recursive types as well.
Termination == <>(Collected \/ failed)
===============================================================================
