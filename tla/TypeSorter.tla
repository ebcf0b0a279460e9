------------------------------ MODULE TypeSorter ------------------------------
(*****************************************************************************)
(* The TypeSorter of src/TypeSorter.cpp: from a list of AutoFFI types (which *)
(* may hold the same type several times) it builds a dependency graph, drops *)
(* the dependencies that would close a cycle, and sorts the list             *)
(* topologically, dependencies first.                                        *)
(*                                                                           *)
(* A vertex is a position of the list, counted from 0 as boost counts them.  *)
(* boost::topological_sort is external code: it is modelled step by step,    *)
(* because the order in which it starts its searches decides where the       *)
(* second occurrence of a type lands.                                        *)
(*****************************************************************************)
EXTENDS Naturals, Sequences, FiniteSets

CONSTANTS
  Types,    \* the autoffi::Type objects
  Inputs    \* what a TypeSorter is built from: a list of types, and for each
            \* type the types its visit function passes to addDependency

ASSUME InputsAssumption ==
  \A in \in Inputs : in.list \in Seq(Types) /\ in.deps \in [Types -> Seq(Types)]

VARIABLES
  list,     \* the range given to the constructor
  deps,     \* the dependencies of each type, in the order they are added
  out,      \* the out-edges of each vertex, in insertion order
  i, j,     \* the loop over the range, and over the dependencies of its type
  color, dfs, examined, \* the depth-first search: colours, stack, edge cursors
  sorted,   \* the vertices, in the order topological_sort finished them
  result,   \* the deque of types that is the TypeSorter's value
  pc        \* where the constructor is

input == <<list, deps>>
search == <<color, dfs, examined, sorted>>
vars == <<list, deps, out, i, j, color, dfs, examined, sorted, result, pc>>

Vertices == 0 .. Len(list) - 1
Listed == {list[k] : k \in 1 .. Len(list)}

\* g[v].type
TypeOf(v) == list[v + 1]

\* The vertex of a type: m.emplace keeps the first of several positions, and
\* m[type] of a type that is not in the list inserts the number 0.
getVertex(t) ==
  IF t \in Listed
  THEN CHOOSE v \in Vertices : TypeOf(v) = t /\ \A w \in 0 .. v - 1 : TypeOf(w) # t
  ELSE 0

Edge(o, u, v) == \E k \in 1 .. Len(o[u]) : o[u][k] = v

\* A finite graph has a cycle iff some set of vertices is never left: each of
\* its members has an edge into it.
has_cycles(o) ==
  \E S \in SUBSET Vertices :
    S # {} /\ \A u \in S : \E v \in S : Edge(o, u, v)

Insert(o, u, v) == [o EXCEPT ![u] = Append(@, v)]

-------------------------------------------------------------------------------
Init ==
  /\ list = << >>
  /\ deps = [t \in Types |-> << >>]
  /\ out = << >>
  /\ i = 1
  /\ j = 1
  /\ color = << >>
  /\ dfs = << >>
  /\ examined = << >>
  /\ sorted = << >>
  /\ result = << >>
  /\ pc = "new"

\* The constructor is called: g(boost::size(range)), one vertex per position.
Construct(l, d) ==
  /\ list' = l
  /\ deps' = d
  /\ out' = [v \in 0 .. Len(l) - 1 |-> << >>]
  /\ i' = 1
  /\ j' = 1
  /\ color' = [v \in 0 .. Len(l) - 1 |-> "white"]
  /\ dfs' = << >>
  /\ examined' = [v \in 0 .. Len(l) - 1 |-> 0]
  /\ sorted' = << >>
  /\ result' = << >>
  /\ pc' = "edges"

-------------------------------------------------------------------------------
(* The graph: visit(type) for every type of the list.                        *)

\* Wrong variant: the edge stays, cycle or not.
addDependencyUnchecked(u, v) ==
  out' = IF Edge(out, u, v) THEN out ELSE Insert(out, u, v)

\* An edge that is there already is not added again; one that closes a cycle
\* is added, found out by has_cycles and removed.
addDependency(u, v) ==
  out' = IF Edge(out, u, v) \/ has_cycles(Insert(out, u, v)) THEN out ELSE Insert(out, u, v)

\* One call of addDependency made by the visit function of list[i].
VisitDependency ==
  /\ pc = "edges"
  /\ i <= Len(list)
  /\ j <= Len(deps[list[i]])
  /\ addDependency(getVertex(list[i]), getVertex(deps[list[i]][j]))
  /\ j' = j + 1
  /\ UNCHANGED <<input, i, search, result, pc>>

\* Wrong variant: the last dependency of a type is skipped.
NextTypeTooEarly ==
  /\ pc = "edges"
  /\ i <= Len(list)
  /\ j >= Len(deps[list[i]])
  /\ i' = i + 1
  /\ j' = 1
  /\ UNCHANGED <<input, out, search, result, pc>>

NextType ==
  /\ pc = "edges"
  /\ i <= Len(list)
  /\ j > Len(deps[list[i]])
  /\ i' = i + 1
  /\ j' = 1
  /\ UNCHANGED <<input, out, search, result, pc>>

BeginSort ==
  /\ pc = "edges"
  /\ i > Len(list)
  /\ pc' = "sort"
  /\ UNCHANGED <<input, out, i, j, search, result>>

-------------------------------------------------------------------------------
(* boost::topological_sort: a depth-first search that appends a vertex when  *)
(* it is finished, and throws not_a_dag on an edge back to a vertex that is  *)
(* not finished.                                                             *)

Top == dfs[Len(dfs)]

\* Wrong variant: the search may start from any white vertex.
DiscoverAnyRoot(v) ==
  /\ pc = "sort"
  /\ dfs = << >>
  /\ color[v] = "white"
  /\ color' = [color EXCEPT ![v] = "gray"]
  /\ dfs' = <<v>>
  /\ UNCHANGED <<input, out, i, j, examined, sorted, result, pc>>

\* With nothing on the stack the search starts from the first white vertex.
DiscoverRoot(v) ==
  /\ pc = "sort"
  /\ dfs = << >>
  /\ color[v] = "white"
  /\ \A w \in 0 .. v - 1 : color[w] # "white"
  /\ color' = [color EXCEPT ![v] = "gray"]
  /\ dfs' = <<v>>
  /\ UNCHANGED <<input, out, i, j, examined, sorted, result, pc>>

ExamineEdge ==
  /\ pc = "sort"
  /\ dfs # << >>
  /\ examined[Top] < Len(out[Top])
  /\ LET v == out[Top][examined[Top] + 1] IN
       /\ color' = IF color[v] = "white" THEN [color EXCEPT ![v] = "gray"] ELSE color
       /\ dfs' = IF color[v] = "white" THEN Append(dfs, v) ELSE dfs
       /\ pc' = IF color[v] = "gray" THEN "not_a_dag" ELSE pc
  /\ examined' = [examined EXCEPT ![Top] = @ + 1]
  /\ UNCHANGED <<input, out, i, j, sorted, result>>

FinishVertex ==
  /\ pc = "sort"
  /\ dfs # << >>
  /\ examined[Top] = Len(out[Top])
  /\ color' = [color EXCEPT ![Top] = "black"]
  /\ sorted' = Append(sorted, Top)
  /\ dfs' = SubSeq(dfs, 1, Len(dfs) - 1)
  /\ UNCHANGED <<input, out, i, j, examined, result, pc>>

\* Wrong variant: the first finished vertex is left out.
FillResultNoFirst ==
  /\ pc = "sort"
  /\ dfs = << >>
  /\ \A v \in Vertices : color[v] # "white"
  /\ result' = [k \in 1 .. Len(sorted) - 1 |-> TypeOf(sorted[k + 1])]
  /\ pc' = "sorted"
  /\ UNCHANGED <<input, out, i, j, search>>

\* The loop of sort() over the finished vertices.
FillResult ==
  /\ pc = "sort"
  /\ dfs = << >>
  /\ \A v \in Vertices : color[v] # "white"
  /\ result' = [k \in 1 .. Len(sorted) |-> TypeOf(sorted[k])]
  /\ pc' = "sorted"
  /\ UNCHANGED <<input, out, i, j, search>>

-------------------------------------------------------------------------------
Step ==
  \/ VisitDependency
  \/ NextType
  \/ BeginSort
  \/ \E v \in Vertices : DiscoverRoot(v)
  \/ ExamineEdge
  \/ FinishVertex
  \/ FillResult

\* Someone constructs a TypeSorter.
Call == pc = "new" /\ \E in \in Inputs : Construct(in.list, in.deps)

\* The constructor has returned, or has thrown.
Returned == pc \in {"sorted", "not_a_dag"} /\ UNCHANGED vars

Next == Call \/ Step \/ Returned

Spec == Init /\ [][Next]_vars

\* The constructor runs in one thread to its end: while a step is possible the
\* thread takes one. Nothing says that it is ever called.
FairSpec == Spec /\ WF_vars(Step)

-------------------------------------------------------------------------------
(* Properties.                                                               *)

\* The types of the variables: the cursors stay in their ranges, the search
\* only holds vertices of the graph.
TypeOK ==
  /\ list \in Seq(Types)
  /\ deps \in [Types -> Seq(Types)]
  /\ out \in [Vertices -> Seq(Vertices)]
  /\ i \in 1 .. Len(list) + 1
  /\ j \in Nat \ {0}
  /\ color \in [Vertices -> {"white", "gray", "black"}]
  /\ dfs \in Seq(Vertices)
  /\ examined \in [Vertices -> Nat]
  /\ sorted \in Seq(Vertices)
  /\ result \in Seq(Types)
  /\ pc \in {"new", "edges", "sort", "sorted", "not_a_dag"}

\* topological_sort never throws not_a_dag. The exception is a logic_error,
\* which the handler of main does not catch: it would end the program.
NeverNotADag == pc # "not_a_dag"

\* s occurs in the result before the first t.
Before(s, t) ==
  \E p \in 1 .. Len(result) : result[p] = s /\ \A q \in 1 .. p : result[q] # t

\* In the result a type comes after every type it has a kept dependency on,
\* even counting only the first of several occurrences, which is the one
\* Catalog::addType keeps.
KeptOrder ==
  pc = "sorted" =>
    \A u, v \in Vertices : Edge(out, u, v) => Before(TypeOf(v), TypeOf(u))

\* The result holds every type as many times as the list.
SameTypes ==
  pc = "sorted" =>
    \A t \in Types : Cardinality({k \in 1 .. Len(result) : result[k] = t})
                       = Cardinality({k \in 1 .. Len(list) : list[k] = t})

\* A dependency of a listed type that the graph lacks would close a cycle with
\* the ones it has: no dependency is given up without need.
OnlyCyclesDropped ==
  pc \notin {"new", "edges"} =>
    \A t \in Listed : \A k \in 1 .. Len(deps[t]) :
      LET u == getVertex(t)
          v == getVertex(deps[t][k])
      IN  Edge(out, u, v) \/ has_cycles(Insert(out, u, v))

\* The list holds the dependencies of all its types.
Closed == \A t \in Listed : \A k \in 1 .. Len(deps[t]) : deps[t][k] \in Listed

\* No type of the list depends on itself, directly or not.
AcyclicTypes ==
  \A S \in SUBSET Listed :
    S # {} => \E t \in S : \A k \in 1 .. Len(deps[t]) : deps[t][k] \notin S

\* "the types are topologically sorted" (src/clang.cpp:661): when the types of
\* a list that lacks none of their dependencies form no cycle, every type
\* comes after all the types it depends on.
TopologicallySorted ==
  pc = "sorted" /\ Closed /\ AcyclicTypes =>
    \A t \in Listed : \A k \in 1 .. Len(deps[t]) : Before(deps[t][k], t)

\* The sorter does what TypeOrder promises, for a list that lacks none of its
\* dependencies and, with the first type of the list in the place of every
\* dependency it lacks, for any other. A later occurrence of a type emits
\* nothing new.
Order == INSTANCE TypeOrder WITH
  listed <- Listed,
  depends <- UNION {{<<t, TypeOf(getVertex(deps[t][k]))>> : k \in 1 .. Len(deps[t])} : t \in Listed},
  kept <- {<<TypeOf(p[1]), TypeOf(p[2])>> :
             p \in {q \in Vertices \X Vertices : Edge(out, q[1], q[2])}},
  emitted <- {TypeOf(sorted[k]) : k \in 1 .. Len(sorted)}

ImplementsTypeOrder == Order!Spec

\* Once called, the constructor returns, whatever the shape of the graph.
Termination == pc = "edges" ~> pc = "sorted"
===============================================================================
