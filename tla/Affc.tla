--------------------------------- MODULE Affc ---------------------------------
(*****************************************************************************)
(* The program affc: main of src/generate.cpp and                            *)
(* ClangSourceAnalyser::analyse of src/clang.cpp, composed of the            *)
(* NameCollector, the ExportCollector with its TypeConverter, the            *)
(* TypeSorter, the Catalog and the writer. One thread runs them one after    *)
(* the other, once per compilation job, and writes at the end.               *)
(*****************************************************************************)
EXTENDS NameCollector, FiniteSets, Functions

CONSTANTS
  ClangTypes,  \* the clang::Type objects of a job
  JobLists,    \* the sequences of units that clang's driver may make jobs of
  Filters,     \* the filter options
  ObjectIds,   \* numbers for the AutoFFI types
  Depth        \* how far descriptions of types are compared

VARIABLES
  jobs, filter,              \* the input
  n,                         \* the current job
  k,                         \* the loop over the sorted types
  pc,                        \* where analyse and main are
  ast, types, objs, stack, ret, failed, decls, cur, latest, exports,  \* ExportCollector
  list, deps, out, i, j, color, dfs, examined, sorted, result, spc,   \* TypeSorter
  typeSeq, typeSet, catExports,                                       \* Catalog
  index, messages, exported, wpc                                      \* ProtoFormat

Units == UNION {{js[m] : m \in 1 .. Len(js)} : js \in JobLists}

Coll == INSTANCE ExportCollector WITH ASTs <- Units

Sort == INSTANCE TypeSorter WITH Types <- ObjectIds, Inputs <- {}, pc <- spc

Cat == INSTANCE Catalog WITH Types <- ObjectIds, Exports <- {}, exports <- catExports

Writer == INSTANCE ProtoFormat WITH Catalogs <- {}, catTypes <- typeSeq

\* clang knows finitely many types in a job, each with two keys, and an object
\* is made for each key at most once.
ASSUME UnitsAssumption ==
  /\ JobLists \subseteq Seq(Units)
  /\ \A u \in Units : Coll!Convertible(u) /\ Coll!Declared(u)

ASSUME IdsAssumption ==
  /\ IsFiniteSet(ClangTypes)
  /\ \A js \in JobLists : 1 .. Len(js) * (2 * Cardinality(ClangTypes)) \subseteq ObjectIds

ASSUME DepthAssumption == Depth \in Nat

collector == <<ast, types, stack, ret, failed, decls, cur, latest, exports>>
sorter == <<list, deps, out, i, j, color, dfs, examined, sorted, result, spc>>
catalog == <<typeSeq, typeSet, catExports>>
writer == <<index, messages, exported, wpc>>

vars == <<jobs, filter, n, k, pc, objs, collector, sorter, catalog, writer>>

Init ==
  /\ jobs \in JobLists
  /\ filter \in Filters
  /\ n = 1
  /\ k = 1
  /\ pc = "job"
  /\ ast = <<>> /\ types = << >> /\ objs = << >> /\ stack = << >> /\ ret = 0 /\ failed = FALSE
  /\ decls = {} /\ cur = {} /\ latest = 0 /\ exports = << >>
  /\ Sort!Init
  /\ Cat!CatalogInit
  /\ index = << >> /\ messages = << >> /\ exported = {} /\ wpc = "new"

-------------------------------------------------------------------------------
(* analyse: one round of the loop over the jobs.                             *)

Unit == jobs[n]

\* ExecuteAction parses the unit and runs the matcher, and then a collector is
\* made for the declarations that were found.
GatherDecls ==
  /\ pc = "job"
  /\ n <= Len(jobs)
  /\ ~ Unit.errors
  /\ ~ Throws(filter, Unit)
  /\ Coll!Begin(Unit, Decls(filter, Unit))
  /\ pc' = "collect"
  /\ UNCHANGED <<jobs, filter, n, k, sorter, catalog, writer>>

\* Wrong variant: a job that fails is skipped.
GatherFailsSkips ==
  /\ pc = "job"
  /\ n <= Len(jobs)
  /\ Unit.errors \/ Throws(filter, Unit)
  /\ n' = n + 1
  /\ UNCHANGED <<jobs, filter, k, pc, objs, collector, sorter, catalog, writer>>

\* "extraction did not succeed", or the exception of canonical.
GatherFails ==
  /\ pc = "job"
  /\ n <= Len(jobs)
  /\ Unit.errors \/ Throws(filter, Unit)
  /\ pc' = "error"
  /\ UNCHANGED <<jobs, filter, n, k, objs, collector, sorter, catalog, writer>>

Collect ==
  /\ pc = "collect"
  /\ Coll!CollStep
  /\ UNCHANGED <<jobs, filter, n, k, pc, sorter, catalog, writer>>

CollectFails ==
  /\ pc = "collect"
  /\ failed
  /\ pc' = "error"
  /\ UNCHANGED <<jobs, filter, n, k, objs, collector, sorter, catalog, writer>>

\* The types whose entries are not dangling, in the order of the entries.
Kept ==
  LET kept[m \in 0 .. Len(types)] ==
        IF m = 0 THEN << >>
        ELSE IF types[m].dangling THEN kept[m - 1] ELSE Append(kept[m - 1], types[m].autoffi)
  IN kept[Len(types)]

\* Wrong variant: only the first member of a type is a dependency.
DependenciesFirst ==
  [o \in ObjectIds |-> IF o \in Coll!Objects /\ objs[o].kids # << >> THEN <<objs[o].kids[1]>> ELSE << >>]

\* What the visit functions of the TypeSorter pass to addDependency: the
\* members of a type, in order.
Dependencies == [o \in ObjectIds |-> IF o \in Coll!Objects THEN objs[o].kids ELSE << >>]

StartSort ==
  /\ pc = "collect"
  /\ Coll!Collected
  /\ \E l \in {Kept}, d \in {Dependencies} : Sort!Construct(l, d)
  /\ pc' = "sort"
  /\ UNCHANGED <<jobs, filter, n, k, objs, collector, catalog, writer>>

\* not_a_dag would be a logic_error that nobody catches: there is no step for
\* it, so that it would show as a deadlock.
SortTypes ==
  /\ pc = "sort"
  /\ Sort!Step
  /\ UNCHANGED <<jobs, filter, n, k, pc, objs, collector, catalog, writer>>

AddExports ==
  /\ pc = "sort"
  /\ spc = "sorted"
  /\ catExports' = catExports \union
       {[job |-> n, decl |-> exports[m].decl, type |-> exports[m].type] : m \in 1 .. Len(exports)}
  /\ k' = 1
  /\ pc' = "types"
  /\ UNCHANGED <<jobs, filter, n, objs, collector, sorter, typeSeq, typeSet, writer>>

\* Wrong variant: the loop does not go on after a type that is there already.
AddTypeOnce ==
  /\ pc = "types"
  /\ k <= Len(result)
  /\ Cat!addType(result[k])
  /\ k' = IF result[k] \in typeSet THEN k ELSE k + 1
  /\ UNCHANGED <<jobs, filter, n, pc, objs, collector, sorter, writer>>

AddType ==
  /\ pc = "types"
  /\ k <= Len(result)
  /\ Cat!addType(result[k])
  /\ k' = k + 1
  /\ UNCHANGED <<jobs, filter, n, pc, objs, collector, sorter, writer>>

\* Wrong variant: only the first job is analysed.
NextJobNever ==
  /\ pc = "types"
  /\ k > Len(result)
  /\ n' = Len(jobs) + 1
  /\ pc' = "job"
  /\ UNCHANGED <<jobs, filter, k, objs, collector, sorter, catalog, writer>>

NextJob ==
  /\ pc = "types"
  /\ k > Len(result)
  /\ n' = n + 1
  /\ pc' = "job"
  /\ UNCHANGED <<jobs, filter, k, objs, collector, sorter, catalog, writer>>

-------------------------------------------------------------------------------
(* main: format.write once analyse has returned. An exception is printed and *)
(* main returns 0 all the same.                                              *)

Write ==
  /\ pc = "job"
  /\ n > Len(jobs)
  /\ pc' = "write"
  /\ UNCHANGED <<jobs, filter, n, k, objs, collector, sorter, catalog, writer>>

WriteStep ==
  /\ pc = "write"
  /\ Writer!Step
  /\ pc' = IF wpc' \in {"written", "error", "overflow"} THEN wpc' ELSE pc
  /\ UNCHANGED <<jobs, filter, n, k, collector, sorter, typeSet>>

Step ==
  \/ GatherDecls \/ GatherFails
  \/ Collect \/ CollectFails
  \/ StartSort \/ SortTypes
  \/ AddExports \/ AddType \/ NextJob
  \/ Write \/ WriteStep

Exited == pc \in {"written", "error", "overflow"}

\* The process is gone.
Gone == Exited /\ UNCHANGED vars

Next == Step \/ Gone

Spec == Init /\ [][Next]_vars

\* A program with one thread and no waiting: a step that is possible is taken.
FairSpec == Spec /\ WF_vars(Step)

-------------------------------------------------------------------------------
(* Properties.                                                               *)

\* The pairs <<qt, id>> such that the message number id describes the clang type
\* qt of unit u, down to a depth: sugar is looked through, and the references
\* lead to the descriptions of the parts. A type that u also has with extended
\* qualifiers only may be described as qualified or not, whatever qt says.
Described(u, depth) ==
  LET pairs == Coll!QualTypes \X (1 .. Len(messages))
      below[m \in 0 .. depth] ==
        IF m = 0 THEN pairs
        ELSE {p \in pairs :
                LET t == p[1][1]
                    refs == messages[p[2]].refs
                    asQualified == /\ messages[p[2]].kind = "qualified"
                                   /\ Len(refs) = 1
                                   /\ <<<<t, "none">>, refs[1]>> \in below[m - 1]
                    asPlain == IF u.kind[t] = "sugar"
                               THEN <<u.parts[t][1], p[2]>> \in below[m - 1]
                               ELSE /\ messages[p[2]].kind = u.kind[t]
                                    /\ Len(refs) = Len(u.parts[t])
                                    /\ \A r \in 1 .. Len(refs) : <<u.parts[t][r], refs[r]>> \in below[m - 1]
                IN IF p[1][2] = "fast" THEN asQualified ELSE asPlain \/ (Coll!Mixed(u, t) /\ asQualified)}
  IN below[depth]

WantedBy(f, u) == {d \in Decls(f, u) : d.kind # "alias"}

Wanted(u) == WantedBy(filter, u)

\* What is written describes what was asked for: for every job each collected
\* declaration has one export, whose type is described by the messages it
\* leads to, and there is no other export.
OutputFaithful ==
  pc = "written" =>
    /\ \A e \in exported : e.export.decl \in Wanted(jobs[e.export.job])
    /\ \A m \in 1 .. Len(jobs) :
         LET described == Described(jobs[m], Depth) IN
           \A d \in Wanted(jobs[m]) :
             LET its == {e \in exported : e.export.job = m /\ e.export.decl = d} IN
               /\ Cardinality(its) = 1
               /\ \A e \in its : <<d.type, e.type>> \in described

\* The messages a message leads to, directly or not.
LeadsTo(a, b) ==
  \A S \in SUBSET (1 .. Len(messages)) :
    a \in S /\ (\A s \in S : \A r \in 1 .. Len(messages[s].refs) : messages[s].refs[r] \in S)
      => b \in S

\* "the types are topologically sorted" (clang.cpp:661): a reader of the output
\* meets a type before the types that refer to it, except within a recursive
\* group of types.
OutputOrdered ==
  pc = "written" =>
    \A m \in 1 .. Len(messages) : \A r \in 1 .. Len(messages[m].refs) :
      LET ref == messages[m].refs[r] IN ref < m \/ LeadsTo(ref, m)

\* "one or more path that will not be included in the generated AST"
\* (README.md:58): nothing that is exported comes from an excluded file.
ExcludedLeftOut ==
  pc = "written" =>
    \A e \in exported : \A m \in 1 .. Len(filter.excludes) :
      e.export.decl.file \notin filter.excludes[m].files

\* "one or more paths of which the resulting AST will be generated"
\* (README.md:57), a path being that of a directory as well as of a file
\* (clang.cpp:400, 422): the visible declarations below it are exported.
IncludedExported ==
  pc = "written" =>
    \A m \in 1 .. Len(jobs) : \A d \in jobs[m].decls :
      /\ Examined(filter, d)
      /\ d.kind # "alias"
      /\ \E p \in 1 .. Len(filter.includes) : d.file \in filter.includes[p].files
      => \E e \in exported : e.export.job = m /\ e.export.decl = d

-------------------------------------------------------------------------------
(* What all of this implements.                                              *)

\* A unit, with the filter, that clang parses, whose paths exist, and whose
\* declarations lead to no type without a Visit function: some set holds their
\* types and with each type its parts, except below unseen ones, and none that
\* cannot be converted.
SoundBelow(asked, unseen) ==
  LET f == asked[1]
      u == asked[2]
  IN /\ ~ u.errors
     /\ ~ Throws(f, u)
     /\ \E S \in SUBSET ClangTypes :
          /\ \A d \in WantedBy(f, u) : d.type[1] \in S
          /\ \A t \in S \ unseen : \A r \in 1 .. Len(u.parts[t]) : u.parts[t][r][1] \in S
          /\ \A t \in S : u.kind[t] # "other"

Sound(asked) == SoundBelow(asked, {})

\* A type is not looked at if a form of it with extended qualifiers was visited
\* first and has taken its key, so that even a unit that is not sound may pass.
Passable(asked) ==
  SoundBelow(asked, {t \in ClangTypes : Coll!Mixed(asked[2], t) /\ asked[2].kind[t] # "sugar"})

Redeclares(asked) == \E d \in WantedBy(asked[1], asked[2]) : d.kind = "record" /\ ~ d.first

\* What of it all is seen from outside: the variables of Bindings.
Request == [m \in 1 .. Len(jobs) |-> <<filter, jobs[m]>>]
NextUnit == IF pc = "types" THEN n + 1 ELSE n
Gathered == {<<e.job, e.decl>> : e \in catExports}
Document == IF pc = "written" THEN {<<e.export.job, e.export.decl>> : e \in exported} ELSE {}
Outcome == IF pc = "written" THEN "written" ELSE IF Exited THEN "error" ELSE "none"

Bound ==
  INSTANCE Bindings WITH
    Units <- Filters \X Units,
    Wanted <- LAMBDA asked : WantedBy(asked[1], asked[2]),
    request <- Request, next <- NextUnit, gathered <- Gathered, document <- Document, outcome <- Outcome

\* The program as a whole, whatever its parts do on the way: all or nothing,
\* every job, in the order of the jobs, and nothing after a failure; a job fails
\* only when it is not sound; and the program refuses only when a record was
\* redeclared (clang.cpp:537-681, generate.cpp:49-68).
ImplementsBindings == Bound!Spec

\* And affc exits, whatever it is given.
AlwaysExits == Bound!Ends
===============================================================================
