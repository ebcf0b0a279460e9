--------------------------- MODULE TypeSorterProofs ---------------------------
(*****************************************************************************)
(* What TLAPS proves of the TypeSorter, for any list of types and any        *)
(* dependencies: that the graph stays free of cycles and the search correct; *)
(* then what the order of the result is worth; then that it implements       *)
(* TypeOrder.                                                                *)
(*****************************************************************************)
EXTENDS TypeSorter, TLAPS, WellFoundedInduction, SequenceTheorems, FiniteSetTheorems

\* Every non-empty set of numbers has a least member.
LEMMA LeastMember ==
  ASSUME NEW T \in SUBSET Nat, T # {}
  PROVE  \E x \in T : \A y \in T : x <= y
<1>1. IsWellFoundedOn(OpToRel(<, Nat), Nat)
  BY NatLessThanWellFounded
<1>2. PICK x \in T : \A y \in T : ~ (<<y, x>> \in OpToRel(<, Nat))
  BY <1>1, WFMin
<1>3. ASSUME NEW y \in T, y < x PROVE FALSE
  <2>1. y \in Nat /\ x \in Nat
    OBVIOUS
  <2>2. <<y, x>> \in OpToRel(<, Nat)
    BY <1>3, <2>1, Zenon DEF OpToRel
  <2> QED
    BY <2>2, <1>2
<1>4. \A y \in T : x <= y
  BY <1>3
<1> QED
  BY <1>4

\* getVertex of a listed type is the first position that holds it.
LEMMA FirstPosition ==
  ASSUME NEW t \in Listed, list \in Seq(Types)
  PROVE  /\ getVertex(t) \in Vertices
         /\ TypeOf(getVertex(t)) = t
         /\ \A w \in 0 .. getVertex(t) - 1 : TypeOf(w) # t
<1> DEFINE T == {v \in Vertices : TypeOf(v) = t}
<1>1. T \in SUBSET Nat
  BY DEF Vertices
<1>2. T # {}
  <2>1. PICK k \in 1 .. Len(list) : t = list[k]
    BY DEF Listed
  <2>2. k - 1 \in T
    BY <2>1, LenProperties DEF Vertices, TypeOf
  <2> QED
    BY <2>2
<1>3. PICK v \in T : \A y \in T : v <= y
  BY <1>1, <1>2, LeastMember
<1>4. \A w \in 0 .. v - 1 : w \in Vertices /\ ~ (v <= w)
  BY <1>1 DEF Vertices
<1>5. \A w \in 0 .. v - 1 : TypeOf(w) # t
  BY <1>3, <1>4
<1>6. \E x \in Vertices : TypeOf(x) = t /\ \A w \in 0 .. x - 1 : TypeOf(w) # t
  BY <1>5
<1> QED
  BY <1>6 DEF getVertex

-------------------------------------------------------------------------------
(* The inductive invariant.                                                  *)

\* The first vertex of its type: the only ones that edges join.
IsRep(v) == \A w \in 0 .. v - 1 : TypeOf(w) # TypeOf(v)

EdgesJoinReps ==
  \A u \in Vertices : \A e \in 1 .. Len(out[u]) : IsRep(u) /\ IsRep(out[u][e])

\* The search has not begun while edges are added.
Fresh ==
  pc \in {"new", "edges"} =>
    /\ \A v \in Vertices : color[v] = "white" /\ examined[v] = 0
    /\ dfs = << >>
    /\ sorted = << >>

\* The gray vertices are those on the stack, each of them once; the black ones
\* are those that are sorted, each of them once.
Colors ==
  /\ \A v \in Vertices : color[v] = "gray" <=> \E p \in 1 .. Len(dfs) : dfs[p] = v
  /\ \A v \in Vertices : color[v] = "black" <=> \E p \in 1 .. Len(sorted) : sorted[p] = v
  /\ \A p, q \in 1 .. Len(dfs) : dfs[p] = dfs[q] => p = q
  /\ \A p, q \in 1 .. Len(sorted) : sorted[p] = sorted[q] => p = q

\* The edge examined last of each vertex on the stack leads to the next one.
Chain ==
  \A p \in 1 .. Len(dfs) - 1 :
    /\ examined[dfs[p]] \in 1 .. Len(out[dfs[p]])
    /\ out[dfs[p]][examined[dfs[p]]] = dfs[p + 1]

\* The target of an examined edge is finished, or it is next on the stack.
Settled ==
  \A u \in Vertices :
    /\ examined[u] <= Len(out[u])
    /\ \A e \in 1 .. examined[u] :
         \/ color[out[u][e]] = "black"
         \/ \E p \in 1 .. Len(dfs) - 1 : dfs[p] = u /\ dfs[p + 1] = out[u][e]

\* The targets of a sorted vertex are sorted before it.
TargetsFirst ==
  \A a \in 1 .. Len(sorted) : \A e \in 1 .. Len(out[sorted[a]]) :
    \E b \in 1 .. a - 1 : sorted[b] = out[sorted[a]][e]

\* A later occurrence of a type has no edges: the search only gets to it as a
\* root, when all the vertices before it are finished.
RepsFirst ==
  /\ \A v \in Vertices : ~ IsRep(v) /\ color[v] # "white" =>
       \A w \in 0 .. v - 1 : color[w] = "black"
  /\ \A a \in 1 .. Len(sorted) : ~ IsRep(sorted[a]) =>
       \A w \in 0 .. sorted[a] - 1 : \E b \in 1 .. a - 1 : sorted[b] = w

\* When the constructor has returned, every vertex is sorted.
AllSorted ==
  pc = "sorted" =>
    /\ \A v \in Vertices : color[v] = "black"
    /\ result = [p \in 1 .. Len(sorted) |-> TypeOf(sorted[p])]

GraphInv == EdgesJoinReps /\ ~ has_cycles(out)
SearchInv == Fresh /\ Colors /\ Chain /\ Settled /\ TargetsFirst /\ RepsFirst /\ AllSorted
IInv == TypeOK /\ GraphInv /\ SearchInv /\ NeverNotADag

-------------------------------------------------------------------------------
(* Types.                                                                    *)

\* Every number that getVertex returns is the first vertex of its type.
LEMMA VertexIsRep ==
  ASSUME NEW t, list \in Seq(Types), Len(list) > 0
  PROVE  getVertex(t) \in Vertices /\ IsRep(getVertex(t))
<1>1. CASE t \in Listed
  BY <1>1, FirstPosition DEF IsRep
<1>2. CASE t \notin Listed
  BY <1>2 DEF getVertex, Vertices, IsRep
<1> QED
  BY <1>1, <1>2

LEMMA TypeInit == Init => TypeOK
BY DEF Init, TypeOK, Vertices

\* What addDependency leaves: the graph it found, or that graph with the edge,
\* which then closes no cycle.
LEMMA AddDependency ==
  ASSUME TypeOK, NEW u \in Vertices, NEW v \in Vertices, addDependency(u, v)
  PROVE  /\ out' \in [Vertices -> Seq(Vertices)]
         /\ \/ out' = out
            \/ out' = Insert(out, u, v) /\ ~ has_cycles(Insert(out, u, v))
BY DEF TypeOK, addDependency, Insert

LEMMA TypeStep == TypeOK /\ [Next]_vars => TypeOK'
<1> SUFFICES ASSUME TypeOK, [Next]_vars
             PROVE  TypeOK'
  OBVIOUS
<1> USE DEF TypeOK
<1>1. CASE Call
  <2>1. PICK in \in Inputs : Construct(in.list, in.deps)
    BY <1>1 DEF Call
  <2>2. in.list \in Seq(Types) /\ in.deps \in [Types -> Seq(Types)]
    BY InputsAssumption
  <2>3. Vertices' = 0 .. Len(in.list) - 1
    BY <2>1 DEF Construct, Vertices
  <2> QED
    BY <2>1, <2>2, <2>3 DEF Construct
<1>2. CASE VisitDependency
  <2>1. getVertex(list[i]) \in Vertices /\ getVertex(deps[list[i]][j]) \in Vertices
    BY <1>2, VertexIsRep DEF VisitDependency
  <2>2. out' \in [Vertices -> Seq(Vertices)]
    BY <1>2, <2>1, AddDependency DEF VisitDependency
  <2>3. /\ UNCHANGED <<list, deps, i, color, dfs, examined, sorted, result, pc>>
        /\ j' = j + 1
    BY <1>2 DEF VisitDependency, input, search
  <2>4. list' \in Seq(Types) /\ deps' \in [Types -> Seq(Types)] /\ Vertices' = Vertices
    BY <2>3 DEF Vertices
  <2>5. i' \in 1 .. Len(list') + 1 /\ j' \in Nat \ {0}
    BY <2>3
  <2>6. UNCHANGED <<color, dfs, examined, sorted, result, pc>>
    BY <2>3
  <2> QED
    BY <2>2, <2>4, <2>5, <2>6
<1>3. CASE NextType
  BY <1>3 DEF NextType, input, search, Vertices
<1>4. CASE BeginSort
  BY <1>4 DEF BeginSort, input, search, Vertices
<1>5. ASSUME NEW v \in Vertices, DiscoverRoot(v) PROVE TypeOK'
  BY <1>5 DEF DiscoverRoot, input, Vertices
<1>6. CASE ExamineEdge
  <2>1. Top \in Vertices /\ examined[Top] \in Nat /\ out[Top] \in Seq(Vertices)
    BY <1>6 DEF ExamineEdge, Top
  <2>2. out[Top][examined[Top] + 1] \in Vertices
    <3>1. examined[Top] < Len(out[Top])
      BY <1>6 DEF ExamineEdge
    <3>2. examined[Top] + 1 \in 1 .. Len(out[Top])
      BY ONLY <2>1, <3>1
    <3> QED
      BY ONLY <2>1, <3>2
  <2>3. dfs' \in Seq(Vertices)
    BY <1>6, <2>2 DEF ExamineEdge
  <2>4. color' \in [Vertices -> {"white", "gray", "black"}]
    BY <1>6, <2>2 DEF ExamineEdge
  <2>5. examined' \in [Vertices -> Nat]
    <3>1. examined' = [examined EXCEPT ![Top] = @ + 1]
      BY <1>6 DEF ExamineEdge
    <3> QED
      BY <2>1, <3>1
  <2>6. pc' \in {"sort", "not_a_dag"}
    BY <1>6 DEF ExamineEdge
  <2>7. UNCHANGED <<list, deps, out, i, j, sorted, result>>
    BY <1>6 DEF ExamineEdge, input
  <2> QED
    BY <2>3, <2>4, <2>5, <2>6, <2>7 DEF Vertices
<1>7. CASE FinishVertex
  <2>1. Top \in Vertices
    BY <1>7 DEF FinishVertex, Top
  <2>2. dfs' \in Seq(Vertices)
    BY <1>7 DEF FinishVertex
  <2>3. color' \in [Vertices -> {"white", "gray", "black"}]
    BY <1>7 DEF FinishVertex
  <2>4. sorted' \in Seq(Vertices)
    BY <1>7, <2>1 DEF FinishVertex
  <2>5. UNCHANGED <<list, deps, out, i, j, examined, result, pc>>
    BY <1>7 DEF FinishVertex, input
  <2> QED
    BY <2>2, <2>3, <2>4, <2>5 DEF Vertices
<1>8. CASE FillResult
  <2>1. ASSUME NEW p \in 1 .. Len(sorted) PROVE TypeOf(sorted[p]) \in Types
    <3>1. sorted[p] \in Vertices
      OBVIOUS
    <3>2. Len(list) \in Nat
      OBVIOUS
    <3>3. sorted[p] + 1 \in 1 .. Len(list)
      <4> HIDE DEF TypeOK
      <4> QED
        BY ONLY <3>1, <3>2 DEF Vertices
    <3> QED
      BY <3>3 DEF TypeOf
  <2>2. result' \in Seq(Types)
    BY <1>8, <2>1 DEF FillResult
  <2> QED
    BY <1>8, <2>2 DEF FillResult, input, search, Vertices
<1>9. CASE Returned \/ UNCHANGED vars
  BY <1>9 DEF Returned, vars, Vertices
<1> QED
  BY <1>1, <1>2, <1>3, <1>4, <1>5, <1>6, <1>7, <1>8, <1>9 DEF Next, Step

\* The variables keep their types: no cursor leaves its range, no search leaves
\* the graph.
THEOREM TypeCorrect == Spec => []TypeOK
BY TypeInit, TypeStep, PTL DEF Spec

-------------------------------------------------------------------------------
(* The graph.                                                                *)

LEMMA GraphInit == Init => GraphInv
<1> SUFFICES ASSUME Init PROVE GraphInv
  OBVIOUS
<1>1. Vertices = {}
  BY DEF Init, Vertices
<1>2. ~ has_cycles(out)
  BY <1>1 DEF has_cycles
<1> QED
  BY <1>1, <1>2 DEF GraphInv, EdgesJoinReps

\* The invariant of the graph only speaks of the list and of the edges.
LEMMA GraphUnchanged ==
  ASSUME GraphInv, UNCHANGED <<list, out>>
  PROVE  GraphInv'
<1>1. Vertices' = Vertices
  BY DEF Vertices
<1>2. ~ has_cycles(out)'
  BY <1>1 DEF GraphInv, has_cycles
<1>3. EdgesJoinReps'
  BY <1>1 DEF GraphInv, EdgesJoinReps, IsRep, TypeOf
<1> QED
  BY <1>2, <1>3 DEF GraphInv

LEMMA GraphStep ==
  ASSUME TypeOK, GraphInv, [Next]_vars
  PROVE  GraphInv'
<1>1. CASE Call
  <2>1. PICK in \in Inputs : Construct(in.list, in.deps)
    BY <1>1 DEF Call
  <2>2. \A v \in Vertices' : out'[v] = << >>
    BY <2>1 DEF Construct, Vertices
  <2>3. EdgesJoinReps'
    BY <2>2 DEF EdgesJoinReps
  <2>4. \A u \in Vertices' : \A v : ~ Edge(out', u, v)
    BY <2>2 DEF Edge
  <2>5. ~ has_cycles(out)'
    BY <2>4 DEF has_cycles, Edge
  <2> QED
    BY <2>3, <2>5 DEF GraphInv
<1>2. CASE VisitDependency
  <2> DEFINE u == getVertex(list[i])
             v == getVertex(deps[list[i]][j])
  <2>1. u \in Vertices /\ IsRep(u) /\ v \in Vertices /\ IsRep(v)
    BY <1>2, VertexIsRep DEF VisitDependency, TypeOK
  <2>2. /\ UNCHANGED list
        /\ \/ out' = out
           \/ out' = Insert(out, u, v) /\ ~ has_cycles(Insert(out, u, v))
    BY <1>2, <2>1, AddDependency DEF VisitDependency, input
  <2>3. CASE out' = out
    BY <2>2, <2>3, GraphUnchanged
  <2>4. CASE out' = Insert(out, u, v) /\ ~ has_cycles(Insert(out, u, v))
    <3>1. ~ has_cycles(out)'
      <4>1. Vertices' = Vertices
        BY <2>2 DEF Vertices
      <4> QED
        BY <2>4, <4>1 DEF has_cycles
    <3>2. ASSUME NEW x \in Vertices, NEW e \in 1 .. Len(out'[x])
          PROVE  IsRep(x) /\ IsRep(out'[x][e])
      <4>1. CASE x = u
        <5>1. out'[x] = Append(out[x], v) /\ out[x] \in Seq(Vertices)
          BY <2>1, <2>4, <4>1 DEF Insert, TypeOK
        <5> QED
          BY <2>1, <3>2, <4>1, <5>1 DEF GraphInv, EdgesJoinReps
      <4>2. CASE x # u
        BY <2>1, <2>4, <3>2, <4>2 DEF Insert, TypeOK, GraphInv, EdgesJoinReps
      <4> QED
        BY <4>1, <4>2
    <3>3. EdgesJoinReps'
      BY <2>2, <3>2 DEF EdgesJoinReps, IsRep, TypeOf, Vertices
    <3> QED
      BY <3>1, <3>3 DEF GraphInv
  <2> QED
    BY <2>2, <2>3, <2>4
<1>3. CASE UNCHANGED <<list, out>>
  BY <1>3, GraphUnchanged
<1>4. ASSUME NEW v \in Vertices, DiscoverRoot(v) PROVE UNCHANGED <<list, out>>
  BY <1>4 DEF DiscoverRoot, input
<1>5. CASE NextType \/ BeginSort \/ ExamineEdge \/ FinishVertex \/ FillResult
  BY <1>3, <1>5 DEF NextType, BeginSort, ExamineEdge, FinishVertex, FillResult, input
<1>6. CASE Returned \/ UNCHANGED vars
  BY <1>3, <1>6 DEF Returned, vars
<1> QED
  BY <1>1, <1>2, <1>3, <1>4, <1>5, <1>6 DEF Next, Step

\* No edge of the graph leads back into the stack of the search: the vertices
\* from its target to the top would be a cycle.
LEMMA NoBackEdge ==
  ASSUME TypeOK, GraphInv, Chain, dfs # << >>,
         NEW e \in 1 .. Len(out[Top]), NEW p \in 1 .. Len(dfs)
  PROVE  out[Top][e] # dfs[p]
<1> SUFFICES ASSUME out[Top][e] = dfs[p] PROVE FALSE
  OBVIOUS
<1> DEFINE S == {dfs[q] : q \in p .. Len(dfs)}
<1>1. S \in SUBSET Vertices /\ S # {}
  <2>1. \A q \in p .. Len(dfs) : q \in 1 .. Len(dfs) /\ dfs[q] \in Vertices
    BY DEF TypeOK
  <2>2. p \in p .. Len(dfs)
    BY DEF TypeOK
  <2> QED
    BY <2>1, <2>2
<1>2. ASSUME NEW u \in S PROVE \E v \in S : Edge(out, u, v)
  <2>1. PICK q \in p .. Len(dfs) : u = dfs[q]
    OBVIOUS
  <2>2. CASE q < Len(dfs)
    <3>1. q \in 1 .. Len(dfs) - 1 /\ q + 1 \in p .. Len(dfs)
      BY <2>2 DEF TypeOK
    <3>2. dfs[q + 1] \in S
      BY <3>1
    <3>3. Edge(out, u, dfs[q + 1])
      BY <2>1, <3>1 DEF Chain, Edge
    <3> QED
      BY <3>2, <3>3
  <2>3. CASE q = Len(dfs)
    <3>1. u = Top /\ dfs[p] \in S
      BY <2>1, <2>3 DEF Top, TypeOK
    <3>2. Edge(out, u, dfs[p])
      BY <3>1 DEF Edge
    <3> QED
      BY <3>1, <3>2
  <2> QED
    BY <2>1, <2>2, <2>3 DEF TypeOK
<1>3. has_cycles(out)
  BY <1>1, <1>2 DEF has_cycles
<1> QED
  BY <1>3 DEF GraphInv

-------------------------------------------------------------------------------
(* The search.                                                               *)

LEMMA SearchInit == Init => SearchInv /\ NeverNotADag
BY DEF Init, SearchInv, Fresh, Colors, Chain, Settled, TargetsFirst, RepsFirst, AllSorted,
       NeverNotADag, Vertices

\* The steps taken before the search begins leave it as it was: all white.
LEMMA SearchBegins ==
  ASSUME TypeOK, TypeOK', Call \/ VisitDependency \/ NextType \/ BeginSort,
         IInv
  PROVE  SearchInv' /\ NeverNotADag'
<1>1. /\ \A v \in Vertices' : color'[v] = "white" /\ examined'[v] = 0
      /\ dfs' = << >>
      /\ sorted' = << >>
      /\ pc' \in {"edges", "sort"}
  <2>1. CASE Call
    BY <2>1 DEF Call, Construct, Vertices
  <2>2. CASE VisitDependency \/ NextType \/ BeginSort
    BY <2>2 DEF VisitDependency, NextType, BeginSort, input, search, IInv, SearchInv, Fresh, Vertices
  <2> QED
    BY <2>1, <2>2
<1>2. \A v \in Vertices' : Len(out'[v]) \in Nat
  BY DEF TypeOK
<1>3. Fresh' /\ Colors' /\ Chain' /\ TargetsFirst' /\ RepsFirst' /\ AllSorted' /\ NeverNotADag'
  BY <1>1 DEF Fresh, Colors, Chain, TargetsFirst, RepsFirst, AllSorted, NeverNotADag
<1>4. Settled'
  BY <1>1, <1>2 DEF Settled
<1> QED
  BY <1>3, <1>4 DEF SearchInv

LEMMA SearchDiscoversRoot ==
  ASSUME TypeOK, IInv, NEW v \in Vertices, DiscoverRoot(v)
  PROVE  SearchInv' /\ NeverNotADag'
<1> USE DEF TypeOK
<1>1. /\ pc = "sort" /\ dfs = << >> /\ color[v] = "white"
      /\ \A w \in 0 .. v - 1 : color[w] # "white"
      /\ color' = [color EXCEPT ![v] = "gray"] /\ dfs' = <<v>>
      /\ UNCHANGED <<list, out, examined, sorted, result, pc>>
  BY DEF DiscoverRoot, input
<1>2. Vertices' = Vertices /\ \A w : IsRep(w)' <=> IsRep(w)
  BY <1>1 DEF Vertices, IsRep, TypeOf
<1>3. \A w \in Vertices : color[w] # "gray"
  BY <1>1 DEF IInv, SearchInv, Colors
<1>4. Fresh' /\ Chain' /\ AllSorted' /\ NeverNotADag'
  BY <1>1 DEF Fresh, Chain, AllSorted, NeverNotADag
<1>5. Colors'
  BY <1>1, <1>2, <1>3 DEF IInv, SearchInv, Colors
<1>6. Settled'
  <2>1. ASSUME NEW u \in Vertices, NEW e \in 1 .. examined[u]
        PROVE  color'[out[u][e]] = "black"
    <3>1. out[u][e] \in Vertices
      BY DEF IInv, SearchInv, Settled
    <3>2. color[out[u][e]] = "black"
      BY <1>1 DEF IInv, SearchInv, Settled
    <3> QED
      BY <1>1, <3>1, <3>2
  <2> QED
    BY <1>1, <1>2, <2>1 DEF IInv, SearchInv, Settled
<1>7. TargetsFirst'
  <2>1. out' = out /\ sorted' = sorted /\ TargetsFirst
    BY <1>1 DEF IInv, SearchInv
  <2> QED
    BY ONLY <2>1 DEF TargetsFirst
<1>8. RepsFirst'
  <2>1. ASSUME NEW x \in Vertices, ~ IsRep(x), color'[x] # "white", NEW w \in 0 .. x - 1
        PROVE  color'[w] = "black"
    <3>1. w \in Vertices
      BY DEF Vertices
    <3>2. color[w] = "black"
      <4>1. CASE x = v
        BY <1>1, <1>3, <3>1, <4>1
      <4>2. CASE x # v
        BY <1>1, <2>1, <4>2 DEF IInv, SearchInv, RepsFirst
      <4> QED
        BY <4>1, <4>2
    <3> QED
      BY <1>1, <3>1, <3>2
  <2>2. \A x \in Vertices : ~ IsRep(x)' /\ color'[x] # "white" =>
          \A w \in 0 .. x - 1 : color'[w] = "black"
    BY <1>2, <2>1
  <2>3. \A a \in 1 .. Len(sorted) : ~ IsRep(sorted[a])' =>
          \A w \in 0 .. sorted[a] - 1 : \E b \in 1 .. a - 1 : sorted[b] = w
    BY <1>1 DEF IInv, SearchInv, RepsFirst, IsRep, TypeOf
  <2> QED
    BY <1>1, <1>2, <2>2, <2>3 DEF RepsFirst
<1> QED
  BY <1>4, <1>5, <1>6, <1>7, <1>8 DEF SearchInv

\* The edge examined leads to a white vertex, which is pushed, or to a black
\* one, which is passed over.
LEMMA SearchExamines ==
  ASSUME TypeOK, IInv, ExamineEdge
  PROVE  SearchInv' /\ NeverNotADag'
<1> SUFFICES ASSUME NEW u, NEW e, NEW v,
                    u = Top, e = examined[u] + 1, v = out[u][e]
             PROVE  SearchInv' /\ NeverNotADag'
  OBVIOUS
<1>1. /\ pc = "sort" /\ dfs # << >> /\ examined[u] < Len(out[u])
      /\ examined' = [examined EXCEPT ![u] = @ + 1]
      /\ UNCHANGED <<list, out, sorted, result>>
      /\ color' = IF color[v] = "white" THEN [color EXCEPT ![v] = "gray"] ELSE color
      /\ dfs' = IF color[v] = "white" THEN Append(dfs, v) ELSE dfs
      /\ pc' = IF color[v] = "gray" THEN "not_a_dag" ELSE pc
  BY DEF ExamineEdge, input
<1>2. /\ dfs \in Seq(Vertices) /\ sorted \in Seq(Vertices)
      /\ color \in [Vertices -> {"white", "gray", "black"}]
      /\ examined \in [Vertices -> Nat] /\ out \in [Vertices -> Seq(Vertices)]
  BY DEF TypeOK
<1>3. /\ GraphInv /\ Fresh /\ Colors /\ Chain /\ Settled /\ TargetsFirst /\ RepsFirst /\ AllSorted
  BY DEF IInv, SearchInv
<1>4. /\ Len(dfs) \in Nat \ {0} /\ u = dfs[Len(dfs)] /\ u \in Vertices
  BY <1>1, <1>2 DEF Top
<1>5. e \in 1 .. Len(out[u]) /\ e = examined[u] + 1 /\ v \in Vertices
  <2>1. examined[u] \in Nat /\ out[u] \in Seq(Vertices) /\ examined[u] < Len(out[u])
    BY <1>1, <1>2, <1>4
  <2>2. e \in 1 .. Len(out[u])
    BY <2>1
  <2> QED
    BY <2>1, <2>2
<1>6. \A p \in 1 .. Len(dfs) : dfs[p] # v
  <2>1. e \in 1 .. Len(out[Top]) /\ v = out[Top][e]
    BY <1>5
  <2> QED
    BY <1>1, <1>3, <2>1, NoBackEdge
<1>7. color[v] \in {"white", "black"}
  <2>1. color[v] = "gray" <=> \E p \in 1 .. Len(dfs) : dfs[p] = v
    BY <1>3, <1>5 DEF Colors
  <2>2. color[v] # "gray"
    BY <1>6, <2>1
  <2> QED
    BY <1>2, <1>5, <2>2
<1>8. pc' = "sort"
  BY <1>1, <1>7
<1>9. Vertices' = Vertices /\ \A w : IsRep(w)' <=> IsRep(w)
  BY <1>1 DEF Vertices, IsRep, TypeOf
<1>same. out' = out /\ sorted' = sorted
  BY <1>1
<1>10. /\ examined'[u] = e
       /\ \A w \in Vertices : w # u => examined'[w] = examined[w]
  BY <1>1, <1>2, <1>4, <1>5
<1>11. \A p \in 1 .. Len(dfs) - 1 : dfs[p] \in Vertices /\ dfs[p] # u
  <2> SUFFICES ASSUME NEW p \in 1 .. Len(dfs) - 1
               PROVE  dfs[p] \in Vertices /\ dfs[p] # u
    OBVIOUS
  <2>1. \A q, r \in 1 .. Len(dfs) : dfs[q] = dfs[r] => q = r
    BY <1>3 DEF Colors
  <2>2. p \in 1 .. Len(dfs) /\ Len(dfs) \in 1 .. Len(dfs) /\ p # Len(dfs)
    BY <1>4
  <2>3. dfs[p] \in Vertices
    BY <1>2, <2>2
  <2> QED
    BY <1>4, <2>1, <2>2, <2>3
<1>12. Fresh' /\ AllSorted' /\ NeverNotADag'
  BY <1>8 DEF Fresh, AllSorted, NeverNotADag
<1>13. TargetsFirst'
  BY <1>1, <1>3 DEF TargetsFirst
<1>14. \A w \in Vertices : color[w] = "black" => color'[w] = "black"
  BY <1>1, <1>2, <1>5
<1>15. \A p \in 1 .. Len(dfs) : p \in 1 .. Len(dfs') /\ dfs'[p] = dfs[p]
  BY <1>1, <1>2, <1>4, <1>5
<1>16. color'[v] = "black" \/ (Len(dfs') = Len(dfs) + 1 /\ dfs'[Len(dfs) + 1] = v)
  <2>1. CASE color[v] = "white"
    BY <1>1, <1>2, <1>4, <1>5, <2>1
  <2>2. CASE color[v] = "black"
    BY <1>5, <1>14, <2>2
  <2> QED
    BY <1>7, <2>1, <2>2
<1>17. Settled'
  <2>1. ASSUME NEW w \in Vertices, NEW d \in 1 .. examined'[w]
        PROVE  \/ color'[out[w][d]] = "black"
               \/ \E p \in 1 .. Len(dfs') - 1 : dfs'[p] = w /\ dfs'[p + 1] = out[w][d]
    <3>1. CASE d \in 1 .. examined[w]
      <4>1. out[w][d] \in Vertices
        BY <1>2, <1>3, <3>1 DEF Settled
      <4>2. CASE color[out[w][d]] = "black"
        BY <1>14, <4>1, <4>2
      <4>3. CASE \E p \in 1 .. Len(dfs) - 1 : dfs[p] = w /\ dfs[p + 1] = out[w][d]
        <5>1. PICK p \in 1 .. Len(dfs) - 1 : dfs[p] = w /\ dfs[p + 1] = out[w][d]
          BY <4>3
        <5>2. p \in 1 .. Len(dfs) /\ p + 1 \in 1 .. Len(dfs)
          BY <1>4, <5>1
        <5>3. dfs'[p] = w /\ dfs'[p + 1] = out[w][d]
          BY <1>15, <5>1, <5>2
        <5>4. p \in 1 .. Len(dfs') - 1
          BY <1>15, <5>2
        <5> QED
          BY <5>3, <5>4
      <4> QED
        BY <1>3, <3>1, <4>2, <4>3 DEF Settled
    <3>2. CASE d \notin 1 .. examined[w]
      <4>1. w = u /\ d = e
        <5>1. w = u
          BY <1>10, <2>1, <3>2
        <5>2. examined[u] \in Nat /\ d \in 1 .. examined[u] + 1
          BY <1>2, <1>4, <1>5, <1>10, <2>1, <5>1
        <5> QED
          BY <1>5, <3>2, <5>1, <5>2
      <4>2. CASE color'[v] = "black"
        BY <4>1, <4>2
      <4>3. CASE Len(dfs') = Len(dfs) + 1 /\ dfs'[Len(dfs) + 1] = v
        <5>1. dfs'[Len(dfs)] = u /\ Len(dfs) \in 1 .. Len(dfs') - 1
          BY <1>4, <1>15, <4>3
        <5> QED
          BY <4>1, <4>3, <5>1
      <4> QED
        BY <1>16, <4>2, <4>3
    <3> QED
      BY <3>1, <3>2
  <2>2. \A w \in Vertices : examined'[w] <= Len(out[w])
    BY <1>3, <1>4, <1>5, <1>10 DEF Settled
  <2> SUFFICES ASSUME NEW w \in Vertices'
               PROVE  /\ examined'[w] <= Len(out'[w])
                      /\ \A d \in 1 .. examined'[w] :
                           \/ color'[out'[w][d]] = "black"
                           \/ \E p \in 1 .. Len(dfs') - 1 :
                                dfs'[p] = w /\ dfs'[p + 1] = out'[w][d]
    BY DEF Settled
  <2>3. w \in Vertices /\ out' = out
    BY ONLY <1>same, <1>9, w \in Vertices'
  <2> QED
    BY ONLY <2>1, <2>2, <2>3
<1>18. CASE color[v] = "white"
  <2>1. color' = [color EXCEPT ![v] = "gray"] /\ dfs' = Append(dfs, v)
    BY <1>1, <1>18
  <2>2. /\ Len(dfs') = Len(dfs) + 1 /\ dfs'[Len(dfs) + 1] = v
        /\ \A p \in 1 .. Len(dfs) : dfs'[p] = dfs[p]
    BY <1>2, <1>5, <2>1
  <2>3. color'[v] = "gray" /\ \A w \in Vertices : w # v => color'[w] = color[w]
    BY <1>2, <1>5, <2>1
  <2>4. Colors'
    <3>1. \A w \in Vertices : color'[w] = "gray" <=> \E p \in 1 .. Len(dfs') : dfs'[p] = w
      <4>1. ASSUME NEW w \in Vertices, w # v
            PROVE  (\E p \in 1 .. Len(dfs') : dfs'[p] = w) <=> \E p \in 1 .. Len(dfs) : dfs[p] = w
        BY <1>4, <2>2, <4>1
      <4>2. \E p \in 1 .. Len(dfs') : dfs'[p] = v
        BY <1>4, <2>2
      <4> QED
        BY <1>3, <2>3, <4>1, <4>2 DEF Colors
    <3>2. \A w \in Vertices : color'[w] = "black" <=> \E p \in 1 .. Len(sorted) : sorted[p] = w
      BY <1>3, <1>5, <1>18, <2>3 DEF Colors
    <3>3. \A p, q \in 1 .. Len(dfs') : dfs'[p] = dfs'[q] => p = q
      <4>1. \A p, q \in 1 .. Len(dfs) : dfs[p] = dfs[q] => p = q
        BY <1>3 DEF Colors
      <4> QED
        BY <1>4, <1>6, <2>2, <4>1
    <3>4. \A p, q \in 1 .. Len(sorted) : sorted[p] = sorted[q] => p = q
      BY <1>3 DEF Colors
    <3> QED
      BY <1>1, <1>9, <3>1, <3>2, <3>3, <3>4 DEF Colors
  <2>5. Chain'
    <3> SUFFICES ASSUME NEW p \in 1 .. Len(dfs') - 1
                 PROVE  /\ examined'[dfs'[p]] \in 1 .. Len(out[dfs'[p]])
                        /\ out[dfs'[p]][examined'[dfs'[p]]] = dfs'[p + 1]
      BY <1>1 DEF Chain
    <3>1. CASE p = Len(dfs)
      <4>1. dfs'[p] = u /\ dfs'[p + 1] = v
        BY <1>4, <2>2, <3>1
      <4> QED
        BY <1>5, <1>10, <4>1
    <3>2. CASE p # Len(dfs)
      <4>1. p \in 1 .. Len(dfs) - 1 /\ dfs'[p] = dfs[p] /\ dfs'[p + 1] = dfs[p + 1]
        BY <1>4, <2>2, <3>2
      <4>2. examined'[dfs[p]] = examined[dfs[p]]
        BY <1>10, <1>11, <4>1
      <4> QED
        BY <1>3, <4>1, <4>2 DEF Chain
    <3> QED
      BY <3>1, <3>2
  <2>6. RepsFirst'
    <3>1. IsRep(v)
      BY <1>3, <1>4, <1>5 DEF GraphInv, EdgesJoinReps
    <3>2. ASSUME NEW x \in Vertices, ~ IsRep(x), color'[x] # "white", NEW w \in 0 .. x - 1
          PROVE  color'[w] = "black"
      <4>1. w \in Vertices
        BY DEF Vertices
      <4>2. color[x] # "white"
        BY <2>3, <3>1, <3>2
      <4> QED
        BY <1>3, <1>14, <3>2, <4>1, <4>2 DEF RepsFirst
    <3> QED
      BY <1>1, <1>3, <1>9, <3>2 DEF RepsFirst
  <2> QED
    BY <1>12, <1>13, <1>17, <2>4, <2>5, <2>6 DEF SearchInv
<1>19. CASE color[v] = "black"
  <2>1. UNCHANGED <<color, dfs>>
    BY <1>1, <1>19
  <2>2. Colors'
    BY <1>1, <1>3, <1>9, <2>1 DEF Colors
  <2>3. Chain'
    <3>1. \A p \in 1 .. Len(dfs) - 1 : examined'[dfs[p]] = examined[dfs[p]]
      BY <1>10, <1>11
    <3> QED
      BY <1>same, <1>3, <2>1, <3>1 DEF Chain
  <2>4. RepsFirst'
    BY <1>1, <1>3, <1>9, <2>1 DEF RepsFirst
  <2> QED
    BY <1>12, <1>13, <1>17, <2>2, <2>3, <2>4 DEF SearchInv
<1> QED
  BY <1>7, <1>18, <1>19

\* The top of the stack has no edge left to examine: their targets are all
\* finished, and so is it now.
LEMMA SearchFinishes ==
  ASSUME TypeOK, IInv, FinishVertex
  PROVE  SearchInv' /\ NeverNotADag'
<1> SUFFICES ASSUME NEW u, NEW n, NEW m, u = Top, n = Len(dfs), m = Len(sorted)
             PROVE  SearchInv' /\ NeverNotADag'
  OBVIOUS
<1>1. /\ pc = "sort" /\ dfs # << >> /\ examined[u] = Len(out[u])
      /\ color' = [color EXCEPT ![u] = "black"]
      /\ sorted' = Append(sorted, u)
      /\ dfs' = SubSeq(dfs, 1, n - 1)
      /\ UNCHANGED <<list, out, examined, result, pc>>
  BY DEF FinishVertex, input
<1>2. /\ dfs \in Seq(Vertices) /\ sorted \in Seq(Vertices)
      /\ color \in [Vertices -> {"white", "gray", "black"}]
      /\ examined \in [Vertices -> Nat] /\ out \in [Vertices -> Seq(Vertices)]
  BY DEF TypeOK
<1>3. /\ GraphInv /\ Fresh /\ Colors /\ Chain /\ Settled /\ TargetsFirst /\ RepsFirst /\ AllSorted
  BY DEF IInv, SearchInv
<1>4. n \in Nat \ {0} /\ u = dfs[n] /\ u \in Vertices /\ m \in Nat
  BY <1>1, <1>2 DEF Top
<1>5. Len(dfs') = n - 1 /\ \A p \in 1 .. n - 1 : dfs'[p] = dfs[p]
  BY <1>1, <1>2, <1>4
<1>6. /\ Len(sorted') = m + 1 /\ sorted'[m + 1] = u
      /\ \A p \in 1 .. m : sorted'[p] = sorted[p]
  BY <1>1, <1>2, <1>4
<1>7. color'[u] = "black" /\ \A w \in Vertices : w # u => color'[w] = color[w]
  BY <1>1, <1>2, <1>4
<1>8. Vertices' = Vertices /\ \A w : IsRep(w)' <=> IsRep(w)
  BY <1>1 DEF Vertices, IsRep, TypeOf
<1>same. out' = out /\ examined' = examined
  BY <1>1
<1>9. /\ \A p, q \in 1 .. n : dfs[p] = dfs[q] => p = q
      /\ \A p, q \in 1 .. m : sorted[p] = sorted[q] => p = q
  BY <1>3 DEF Colors
<1>10. \A p \in 1 .. n - 1 : dfs[p] # u
  BY <1>4, <1>9
<1>11. color[u] = "gray"
  BY <1>3, <1>4 DEF Colors
<1>12. Fresh' /\ AllSorted' /\ NeverNotADag'
  BY <1>1 DEF Fresh, AllSorted, NeverNotADag
<1>13. Colors'
  <2>1. ASSUME NEW w \in Vertices
        PROVE  color'[w] = "gray" <=> \E p \in 1 .. n - 1 : dfs[p] = w
    <3>1. CASE w = u
      BY <1>7, <1>10, <3>1
    <3>2. CASE w # u
      <4>1. (\E p \in 1 .. n : dfs[p] = w) <=> \E p \in 1 .. n - 1 : dfs[p] = w
        BY <1>4, <3>2
      <4> QED
        BY <1>3, <1>7, <3>2, <4>1 DEF Colors
    <3> QED
      BY <3>1, <3>2
  <2>2. ASSUME NEW w \in Vertices
        PROVE  color'[w] = "black" <=> \E p \in 1 .. m + 1 : sorted'[p] = w
    <3>1. CASE w = u
      BY <1>4, <1>6, <1>7, <3>1
    <3>2. CASE w # u
      <4>1. (\E p \in 1 .. m + 1 : sorted'[p] = w) <=> \E p \in 1 .. m : sorted[p] = w
        BY <1>4, <1>6, <3>2
      <4> QED
        BY <1>3, <1>7, <3>2, <4>1 DEF Colors
    <3> QED
      BY <3>1, <3>2
  <2>3. \A p \in 1 .. m : sorted[p] # u
    <3>1. \A p \in 1 .. m : sorted[p] = u => color[u] = "black"
      BY <1>3, <1>4 DEF Colors
    <3> QED
      BY <1>11, <3>1
  <2>4. \A p, q \in 1 .. m + 1 : sorted'[p] = sorted'[q] => p = q
    BY <1>4, <1>6, <1>9, <2>3
  <2>5. \A p, q \in 1 .. n - 1 : dfs'[p] = dfs'[q] => p = q
    BY <1>4, <1>5, <1>9
  <2>6. \A w \in Vertices : color'[w] = "gray" <=> \E p \in 1 .. n - 1 : dfs'[p] = w
    BY <1>5, <2>1
  <2> QED
    BY <1>5, <1>6, <1>8, <2>2, <2>4, <2>5, <2>6 DEF Colors
<1>14. Chain'
  <2> SUFFICES ASSUME NEW p \in 1 .. n - 2
               PROVE  /\ examined[dfs'[p]] \in 1 .. Len(out[dfs'[p]])
                      /\ out[dfs'[p]][examined[dfs'[p]]] = dfs'[p + 1]
    <3>1. Len(dfs') - 1 = n - 2
      BY <1>4, <1>5
    <3> QED
      BY <1>same, <3>1 DEF Chain
  <2>1. p \in 1 .. Len(dfs) - 1 /\ dfs'[p] = dfs[p] /\ dfs'[p + 1] = dfs[p + 1]
    BY <1>4, <1>5
  <2> QED
    BY <1>3, <2>1 DEF Chain
<1>15. Settled'
  <2>1. ASSUME NEW w \in Vertices, NEW d \in 1 .. examined[w]
        PROVE  \/ color'[out[w][d]] = "black"
               \/ \E p \in 1 .. n - 2 : dfs'[p] = w /\ dfs'[p + 1] = out[w][d]
    <3>1. out[w][d] \in Vertices
      BY <1>2, <1>3 DEF Settled
    <3>2. CASE color[out[w][d]] = "black"
      BY <1>7, <3>1, <3>2
    <3>3. CASE \E p \in 1 .. n - 1 : dfs[p] = w /\ dfs[p + 1] = out[w][d]
      <4>1. PICK p \in 1 .. n - 1 : dfs[p] = w /\ dfs[p + 1] = out[w][d]
        BY <3>3
      <4>2. CASE p = n - 1
        BY <1>4, <1>7, <4>1, <4>2
      <4>3. CASE p # n - 1
        <5>1. p \in 1 .. n - 2 /\ dfs'[p] = dfs[p] /\ dfs'[p + 1] = dfs[p + 1]
          BY <1>4, <1>5, <4>1, <4>3
        <5> QED
          BY <4>1, <5>1
      <4> QED
        BY <4>2, <4>3
    <3> QED
      BY <1>3, <3>2, <3>3 DEF Settled
  <2>2. Len(dfs') - 1 = n - 2
    BY <1>4, <1>5
  <2>3. \A w \in Vertices : examined[w] <= Len(out[w])
    BY <1>3 DEF Settled
  <2> QED
    BY <1>same, <1>8, <2>1, <2>2, <2>3 DEF Settled
<1>16. \A d \in 1 .. Len(out[u]) : \E b \in 1 .. m : sorted[b] = out[u][d]
  <2> SUFFICES ASSUME NEW d \in 1 .. Len(out[u])
               PROVE  \E b \in 1 .. m : sorted[b] = out[u][d]
    OBVIOUS
  <2>1. out[u][d] \in Vertices
    BY <1>2, <1>4
  <2>2. color[out[u][d]] = "black"
    <3>1. ~ \E p \in 1 .. Len(dfs) - 1 : dfs[p] = u /\ dfs[p + 1] = out[u][d]
      BY <1>10
    <3>2. d \in 1 .. examined[u]
      BY <1>1
    <3> QED
      BY <1>3, <1>4, <3>1, <3>2 DEF Settled
  <2> QED
    BY <1>3, <2>1, <2>2 DEF Colors
<1>17. TargetsFirst'
  <2> SUFFICES ASSUME NEW a \in 1 .. m + 1, NEW d \in 1 .. Len(out[sorted'[a]])
               PROVE  \E b \in 1 .. a - 1 : sorted'[b] = out[sorted'[a]][d]
    BY <1>same, <1>6 DEF TargetsFirst
  <2>1. CASE a = m + 1
    <3>1. PICK b \in 1 .. m : sorted[b] = out[u][d]
      BY <1>6, <1>16, <2>1
    <3> QED
      BY <1>4, <1>6, <2>1, <3>1
  <2>2. CASE a # m + 1
    <3>1. a \in 1 .. m /\ sorted'[a] = sorted[a]
      BY <1>4, <1>6, <2>2
    <3>2. PICK b \in 1 .. a - 1 : sorted[b] = out[sorted[a]][d]
      BY <1>3, <3>1 DEF TargetsFirst
    <3>3. b \in 1 .. m
      BY <1>4, <3>1
    <3> QED
      BY <1>6, <3>1, <3>2, <3>3
  <2> QED
    BY <2>1, <2>2
<1>18. RepsFirst'
  <2>1. ASSUME NEW x \in Vertices, ~ IsRep(x), color'[x] # "white", NEW w \in 0 .. x - 1
        PROVE  color'[w] = "black"
    <3>1. w \in Vertices /\ color[x] # "white"
      BY <1>7, <1>11, <2>1 DEF Vertices
    <3>2. color[w] = "black"
      BY <1>3, <2>1, <3>1 DEF RepsFirst
    <3> QED
      BY <1>7, <3>1, <3>2
  <2>2. ASSUME NEW a \in 1 .. m + 1, ~ IsRep(sorted'[a]), NEW w \in 0 .. sorted'[a] - 1
        PROVE  \E b \in 1 .. a - 1 : sorted'[b] = w
    <3>1. CASE a = m + 1
      <4>1. w \in 0 .. u - 1 /\ ~ IsRep(u)
        BY <1>6, <2>2, <3>1
      <4>2. w \in Vertices
        BY <1>4, <4>1 DEF Vertices
      <4>3. color[w] = "black"
        BY <1>3, <1>4, <1>11, <4>1 DEF RepsFirst
      <4>4. PICK b \in 1 .. m : sorted[b] = w
        BY <1>3, <4>2, <4>3 DEF Colors
      <4> QED
        BY <1>4, <1>6, <3>1, <4>4
    <3>2. CASE a # m + 1
      <4>1. a \in 1 .. m /\ sorted'[a] = sorted[a]
        BY <1>4, <1>6, <3>2
      <4>2. PICK b \in 1 .. a - 1 : sorted[b] = w
        BY <1>3, <2>2, <4>1 DEF RepsFirst
      <4>3. b \in 1 .. m
        BY <1>4, <4>1
      <4> QED
        BY <1>6, <4>2, <4>3
    <3> QED
      BY <3>1, <3>2
  <2> QED
    BY <1>6, <1>8, <2>1, <2>2 DEF RepsFirst
<1> QED
  BY <1>12, <1>13, <1>14, <1>15, <1>17, <1>18 DEF SearchInv

\* Nothing is on the stack and no vertex is white: they are all sorted.
LEMMA SearchFills ==
  ASSUME TypeOK, IInv, FillResult
  PROVE  SearchInv' /\ NeverNotADag'
<1>1. /\ dfs = << >> /\ \A v \in Vertices : color[v] # "white"
      /\ result' = [p \in 1 .. Len(sorted) |-> TypeOf(sorted[p])]
      /\ pc' = "sorted"
      /\ UNCHANGED <<list, out, color, dfs, examined, sorted>>
  BY DEF FillResult, input, search
<1>2. Vertices' = Vertices /\ \A w : IsRep(w)' <=> IsRep(w) /\ TypeOf(w)' = TypeOf(w)
  BY <1>1 DEF Vertices, IsRep, TypeOf
<1>3. Colors /\ Chain /\ Settled /\ TargetsFirst /\ RepsFirst
  BY DEF IInv, SearchInv
<1>4. \A v \in Vertices : color[v] = "black"
  <2>1. \A v \in Vertices : color[v] # "gray"
    BY <1>1, <1>3 DEF Colors
  <2>2. color \in [Vertices -> {"white", "gray", "black"}]
    BY DEF TypeOK
  <2> QED
    BY <1>1, <2>1, <2>2
<1>5. Colors' /\ Chain' /\ Settled'
  BY <1>1, <1>2, <1>3 DEF Colors, Chain, Settled
<1>6. TargetsFirst' /\ RepsFirst'
  <2>1. TargetsFirst'
    BY <1>1, <1>3 DEF TargetsFirst
  <2>2. RepsFirst'
    BY <1>1, <1>2, <1>3 DEF RepsFirst, IsRep, TypeOf
  <2> QED
    BY <2>1, <2>2
<1>7. AllSorted'
  BY <1>1, <1>2, <1>4 DEF AllSorted, TypeOf
<1>8. Fresh' /\ NeverNotADag'
  BY <1>1 DEF Fresh, NeverNotADag
<1> QED
  BY <1>5, <1>6, <1>7, <1>8 DEF SearchInv

LEMMA SearchUnchanged ==
  ASSUME IInv, UNCHANGED vars
  PROVE  SearchInv' /\ NeverNotADag'
<1>1. Vertices' = Vertices /\ \A w : IsRep(w)' <=> IsRep(w) /\ TypeOf(w)' = TypeOf(w)
  BY DEF Vertices, IsRep, TypeOf, vars
<1>2. UNCHANGED <<list, out, color, dfs, examined, sorted, result, pc>>
  BY DEF vars
<1>3. /\ Fresh /\ Colors /\ Chain /\ Settled /\ TargetsFirst /\ RepsFirst /\ AllSorted
      /\ NeverNotADag
  BY DEF IInv, SearchInv
<1>4. Fresh' /\ NeverNotADag'
  BY <1>1, <1>2, <1>3 DEF Fresh, NeverNotADag
<1>5. Colors'
  BY <1>1, <1>2, <1>3 DEF Colors
<1>6. Chain' /\ TargetsFirst'
  BY <1>2, <1>3 DEF Chain, TargetsFirst
<1>7. Settled'
  BY <1>1, <1>2, <1>3 DEF Settled
<1>8. RepsFirst'
  BY <1>1, <1>2, <1>3 DEF RepsFirst, IsRep, TypeOf
<1>9. AllSorted'
  BY <1>1, <1>2, <1>3 DEF AllSorted, TypeOf
<1> QED
  BY <1>4, <1>5, <1>6, <1>7, <1>8, <1>9 DEF SearchInv

-------------------------------------------------------------------------------
(* The theorems.                                                             *)

LEMMA InvStep == IInv /\ [Next]_vars => IInv'
<1> SUFFICES ASSUME IInv, [Next]_vars PROVE IInv'
  OBVIOUS
<1>1. TypeOK /\ GraphInv
  BY DEF IInv
<1>2. TypeOK' /\ GraphInv'
  BY <1>1, TypeStep, GraphStep
<1>3. SearchInv' /\ NeverNotADag'
  <2>1. CASE Call \/ VisitDependency \/ NextType \/ BeginSort
    BY <1>1, <1>2, <2>1, SearchBegins
  <2>2. ASSUME NEW v \in Vertices, DiscoverRoot(v) PROVE SearchInv' /\ NeverNotADag'
    BY <1>1, <2>2, SearchDiscoversRoot
  <2>3. CASE ExamineEdge
    BY <1>1, <2>3, SearchExamines
  <2>4. CASE FinishVertex
    BY <1>1, <2>4, SearchFinishes
  <2>5. CASE FillResult
    BY <1>1, <2>5, SearchFills
  <2>6. CASE Returned \/ UNCHANGED vars
    BY <2>6, SearchUnchanged DEF Returned
  <2> QED
    BY <2>1, <2>2, <2>3, <2>4, <2>5, <2>6 DEF Next, Step
<1> QED
  BY <1>2, <1>3 DEF IInv

LEMMA InvHolds == Spec => []IInv
<1>1. Init => IInv
  BY TypeInit, GraphInit, SearchInit DEF IInv
<1> QED
  BY <1>1, InvStep, PTL DEF Spec

\* topological_sort never throws not_a_dag, whatever the types depend on:
\* addDependency keeps the graph free of cycles (src/TypeSorter.cpp:27-31).
THEOREM Acyclic == Spec => []NeverNotADag
<1>1. IInv => NeverNotADag
  BY DEF IInv
<1> QED
  BY <1>1, InvHolds, PTL

\* What the invariant says of a finished sort: the first occurrence of a type
\* is behind the first occurrences of the types it has an edge to.
LEMMA EdgeOrder ==
  ASSUME IInv, pc = "sorted", NEW u \in Vertices, NEW v \in Vertices, Edge(out, u, v)
  PROVE  Before(TypeOf(v), TypeOf(u))
<1>1. /\ sorted \in Seq(Vertices) /\ Len(sorted) \in Nat
      /\ GraphInv /\ Colors /\ TargetsFirst /\ RepsFirst /\ AllSorted
  BY DEF IInv, SearchInv, TypeOK
<1>2. /\ Len(result) = Len(sorted)
      /\ \A p \in 1 .. Len(sorted) : result[p] = TypeOf(sorted[p])
  BY <1>1 DEF AllSorted
<1>3. PICK e \in 1 .. Len(out[u]) : out[u][e] = v
  BY DEF Edge
<1>4. IsRep(u)
  BY <1>1, <1>3 DEF GraphInv, EdgesJoinReps
<1>5. PICK a \in 1 .. Len(sorted) : sorted[a] = u
  BY <1>1 DEF AllSorted, Colors
<1>6. PICK b \in 1 .. a - 1 : sorted[b] = v
  BY <1>1, <1>3, <1>5 DEF TargetsFirst
<1>7. ASSUME NEW q \in 1 .. b PROVE result[q] # TypeOf(u)
  <2> SUFFICES ASSUME result[q] = TypeOf(u) PROVE FALSE
    OBVIOUS
  <2>1. q \in 1 .. Len(sorted) /\ q < a
    BY <1>1, <1>5, <1>6
  <2>2. sorted[q] \in Vertices /\ TypeOf(sorted[q]) = TypeOf(u) /\ sorted[q] # u
    <3>1. sorted[q] # sorted[a]
      BY <1>1, <1>5, <2>1 DEF Colors
    <3> QED
      BY <1>1, <1>2, <1>5, <2>1, <3>1
  <2>3. u \in Nat /\ sorted[q] \in Nat
    BY <2>2 DEF Vertices
  <2>4. ~ (sorted[q] < u)
    BY <1>4, <2>2, <2>3 DEF IsRep
  <2>5. u \in 0 .. sorted[q] - 1
    BY <2>2, <2>3, <2>4
  <2>6. ~ IsRep(sorted[q])
    BY <2>2, <2>5 DEF IsRep
  <2>7. PICK c \in 1 .. q - 1 : sorted[c] = u
    BY <1>1, <2>1, <2>5, <2>6 DEF RepsFirst
  <2>8. c \in 1 .. Len(sorted) /\ c # a
    BY <1>1, <2>1, <2>7
  <2> QED
    BY <1>1, <1>5, <2>7, <2>8 DEF Colors
<1>8. b \in 1 .. Len(result) /\ result[b] = TypeOf(v)
  BY <1>1, <1>2, <1>5, <1>6
<1> QED
  BY <1>7, <1>8 DEF Before

\* In the sorted types, whatever the list and its dependencies, the first
\* occurrence of a type comes after the types it has a kept dependency on: the
\* order the writer and the readers of the document rely on.
THEOREM SortedKeepsOrder == Spec => []KeptOrder
<1>1. IInv => KeptOrder
  BY EdgeOrder DEF KeptOrder
<1> QED
  BY <1>1, InvHolds, PTL

-------------------------------------------------------------------------------
(* Vertices, edges and cycles.                                               *)

LEMMA TypesOfVertices ==
  ASSUME list \in Seq(Types), NEW v \in Vertices
  PROVE  TypeOf(v) \in Listed /\ TypeOf(v) \in Types
<1>1. v + 1 \in 1 .. Len(list)
  BY DEF Vertices
<1> QED
  BY <1>1 DEF TypeOf, Listed

\* A type has one first vertex.
LEMMA OneRep ==
  ASSUME NEW u \in Vertices, NEW v \in Vertices, IsRep(u), IsRep(v), TypeOf(u) = TypeOf(v)
  PROVE  u = v
<1>1. u \in Nat /\ v \in Nat
  BY DEF Vertices
<1>2. ~ (u < v) /\ ~ (v < u)
  BY <1>1 DEF IsRep
<1> QED
  BY <1>1, <1>2

LEMMA EdgeOfInsert ==
  ASSUME NEW o \in [Vertices -> Seq(Vertices)], NEW u \in Vertices, NEW v \in Vertices,
         NEW x \in Vertices, NEW y
  PROVE  Edge(Insert(o, u, v), x, y) <=> Edge(o, x, y) \/ (x = u /\ y = v)
<1>1. CASE x = u
  <2>1. o[x] \in Seq(Vertices) /\ Insert(o, u, v)[x] = Append(o[x], v)
    BY <1>1 DEF Insert
  <2>2. /\ Len(o[x]) \in Nat /\ Len(Append(o[x], v)) = Len(o[x]) + 1
        /\ \A k \in 1 .. Len(o[x]) : Append(o[x], v)[k] = o[x][k]
        /\ Append(o[x], v)[Len(o[x]) + 1] = v
    BY <2>1
  <2> QED
    BY <1>1, <2>1, <2>2 DEF Edge
<1>2. CASE x # u
  BY <1>2 DEF Insert, Edge
<1> QED
  BY <1>1, <1>2

\* More edges, more cycles.
LEMMA CyclesStay ==
  ASSUME NEW o, NEW p, \A x, y \in Vertices : Edge(o, x, y) => Edge(p, x, y), has_cycles(o)
  PROVE  has_cycles(p)
BY DEF has_cycles

LEMMA VertexUnchanged ==
  ASSUME list \in Seq(Types), list' = list, NEW t
  PROVE  getVertex(t)' = getVertex(t)
<1>1. Listed' = Listed /\ Vertices' = Vertices /\ \A v : TypeOf(v)' = TypeOf(v)
  BY DEF Listed, Vertices, TypeOf
<1>2. CASE t \notin Listed
  BY <1>1, <1>2 DEF getVertex
<1>3. CASE t \in Listed
  BY <1>1, <1>3 DEF getVertex
<1> QED
  BY <1>2, <1>3

-------------------------------------------------------------------------------
(* The dependencies.                                                         *)

\* A dependency has its edge, or the edge would close a cycle.
Handled(t, d) ==
  \/ Edge(out, getVertex(t), getVertex(d))
  \/ has_cycles(Insert(out, getVertex(t), getVertex(d)))

\* The loops have handled all dependencies before the cursors.
HandledSoFar ==
  \A a \in 1 .. Len(list) : \A k \in 1 .. Len(deps[list[a]]) :
    a < i \/ (a = i /\ k < j) => Handled(list[a], deps[list[a]][k])

\* An edge stands for a dependency of the type it leaves.
EdgesAreDeps ==
  \A u, v \in Vertices : Edge(out, u, v) =>
    \E k \in 1 .. Len(deps[TypeOf(u)]) : v = getVertex(deps[TypeOf(u)][k])

\* The sort begins behind the end of the list.
LoopsEnded ==
  /\ pc \notin {"new", "edges"} => i > Len(list)
  /\ pc = "new" => list = << >>

DepInv == HandledSoFar /\ EdgesAreDeps /\ LoopsEnded

LEMMA DepInit == Init => DepInv
<1> SUFFICES ASSUME Init PROVE DepInv
  OBVIOUS
<1>1. Len(list) = 0 /\ Vertices = {}
  BY DEF Init, Vertices
<1> QED
  BY <1>1 DEF Init, DepInv, HandledSoFar, EdgesAreDeps, LoopsEnded

\* Handled after a step, said of the graph after it.
LEMMA HandledNext ==
  ASSUME TypeOK, list' = list, NEW t, NEW d,
         \/ Edge(out', getVertex(t), getVertex(d))
         \/ has_cycles(Insert(out', getVertex(t), getVertex(d)))
  PROVE  Handled(t, d)'
<1>1. Vertices' = Vertices /\ getVertex(t)' = getVertex(t) /\ getVertex(d)' = getVertex(d)
  BY VertexUnchanged DEF TypeOK, Vertices
<1>2. Edge(out, getVertex(t), getVertex(d))' = Edge(out', getVertex(t), getVertex(d))
  BY <1>1 DEF Edge
<1>3. ASSUME has_cycles(Insert(out', getVertex(t), getVertex(d)))
      PROVE  has_cycles(Insert(out, getVertex(t), getVertex(d)))'
  <2> DEFINE o == Insert(out, getVertex(t), getVertex(d))
             p == Insert(out', getVertex(t), getVertex(d))
  <2>1. PICK S \in SUBSET Vertices : S # {} /\ \A x \in S : \E y \in S : Edge(p, x, y)
    BY <1>3 DEF has_cycles
  <2>2. o' = p
    BY <1>1 DEF Insert
  <2>3. \A x, y : Edge(o, x, y)' <=> Edge(p, x, y)
    <3> HIDE DEF o, p
    <3> QED
      BY <2>2 DEF Edge
  <2>4. (\E T \in SUBSET Vertices : T # {} /\ \A x \in T : \E y \in T : Edge(o, x, y))'
    <3> HIDE DEF o, p
    <3> QED
      BY <1>1, <2>1, <2>3
  <2> QED
    BY <2>4 DEF has_cycles
<1> QED
  BY <1>2, <1>3 DEF Handled

\* An edge more leaves what is handled handled.
LEMMA HandledStays ==
  ASSUME TypeOK, list' = list, NEW t \in Listed, NEW d, Handled(t, d),
         NEW u \in Vertices, NEW v \in Vertices, out' = out \/ out' = Insert(out, u, v)
  PROVE  Handled(t, d)'
<1> DEFINE x == getVertex(t)
           y == getVertex(d)
<1>1. /\ list \in Seq(Types) /\ Len(list) > 0
      /\ out \in [Vertices -> Seq(Vertices)] /\ Insert(out, u, v) \in [Vertices -> Seq(Vertices)]
  BY DEF TypeOK, Listed, Insert
<1>2. x \in Vertices /\ y \in Vertices
  BY <1>1, VertexIsRep
<1>3. CASE out' = out
  BY <1>3, HandledNext DEF Handled
<1>4. CASE out' = Insert(out, u, v)
  <2> HIDE DEF x, y
  <2>1. ASSUME Edge(out, x, y) PROVE Edge(out', x, y)
    BY <1>1, <1>2, <1>4, <2>1, EdgeOfInsert
  <2>2. ASSUME NEW a \in Vertices, NEW b \in Vertices, Edge(Insert(out, x, y), a, b)
        PROVE  Edge(Insert(out', x, y), a, b)
    <3>1. Edge(out, a, b) \/ (a = x /\ b = y)
      BY <1>1, <1>2, <2>2, EdgeOfInsert
    <3>2. out' \in [Vertices -> Seq(Vertices)]
      BY <1>1, <1>4
    <3>3. Edge(out', a, b) \/ (a = x /\ b = y)
      BY <1>1, <1>4, <3>1, EdgeOfInsert
    <3> QED
      BY <1>2, <3>2, <3>3, EdgeOfInsert
  <2>3. ASSUME has_cycles(Insert(out, x, y)) PROVE has_cycles(Insert(out', x, y))
    BY <2>2, <2>3, CyclesStay
  <2> QED
    BY <2>1, <2>3, HandledNext DEF Handled, x, y
<1> QED
  BY <1>3, <1>4

LEMMA EdgesUnchanged ==
  ASSUME TypeOK, EdgesAreDeps, UNCHANGED <<list, deps, out>>
  PROVE  EdgesAreDeps'
<1>1. Vertices' = Vertices /\ \A v : TypeOf(v)' = TypeOf(v)
  BY DEF Vertices, TypeOf
<1>2. \A t : getVertex(t)' = getVertex(t)
  BY VertexUnchanged DEF TypeOK
<1> QED
  BY <1>1, <1>2 DEF EdgesAreDeps, Edge

LEMMA DepCall == ASSUME TypeOK, DepInv, Call PROVE DepInv'
<1>1. PICK in \in Inputs : Construct(in.list, in.deps)
  BY DEF Call
<1>2. i' = 1 /\ j' = 1 /\ pc' = "edges" /\ TypeOK'
  BY <1>1, TypeStep DEF Construct, Next
<1>3. HandledSoFar'
  BY <1>2 DEF HandledSoFar, TypeOK
<1>4. \A u \in Vertices' : out'[u] = << >>
  BY <1>1 DEF Construct, Vertices
<1>5. EdgesAreDeps'
  BY <1>4 DEF EdgesAreDeps, Edge
<1> QED
  BY <1>2, <1>3, <1>5 DEF DepInv, LoopsEnded

LEMMA DepVisit == ASSUME TypeOK, DepInv, VisitDependency PROVE DepInv'
<1>0. PICK t, d, u, v :
        t = list[i] /\ d = deps[t][j] /\ u = getVertex(t) /\ v = getVertex(d)
  OBVIOUS
<1>1. /\ list' = list /\ deps' = deps /\ i' = i /\ pc' = pc /\ pc = "edges" /\ j' = j + 1
      /\ i \in 1 .. Len(list) /\ j \in 1 .. Len(deps[t]) /\ Len(list) \in Nat
      /\ addDependency(u, v)
  BY <1>0 DEF VisitDependency, input, TypeOK
<1>2. /\ t \in Listed /\ u \in Vertices /\ TypeOf(u) = t /\ v \in Vertices
      /\ list \in Seq(Types) /\ out \in [Vertices -> Seq(Vertices)]
  BY <1>0, <1>1, VertexIsRep, FirstPosition DEF TypeOK, Listed
<1>3. /\ Vertices' = Vertices /\ \A w : TypeOf(w)' = TypeOf(w)
      /\ \A w : getVertex(w)' = getVertex(w)
  BY <1>1, <1>2, VertexUnchanged DEF Vertices, TypeOf
<1>4. \/ out' = out /\ Handled(t, d)
      \/ out' = Insert(out, u, v)
  BY <1>0, <1>1 DEF addDependency, Handled
<1>5. Handled(t, d)'
  <2>1. CASE out' = Insert(out, u, v)
    <3>1. Edge(out', u, v)
      BY <1>2, <2>1, EdgeOfInsert
    <3> QED
      BY <1>0, <1>1, <3>1, HandledNext
  <2> QED
    BY <1>1, <1>2, <1>4, <2>1, HandledStays
<1>6. ASSUME NEW a \in 1 .. Len(list), NEW k \in 1 .. Len(deps[list[a]]),
             a < i \/ (a = i /\ k < j'), NEW s, s = list[a], NEW e, e = deps[s][k]
      PROVE  Handled(s, e)'
  <2>1. CASE a = i /\ k = j
    BY <1>0, <1>5, <1>6, <2>1
  <2>2. CASE ~ (a = i /\ k = j)
    <3>1. a < i \/ (a = i /\ k < j)
      BY <1>1, <1>6, <2>2
    <3>2. Handled(s, e)
      BY <1>6, <3>1 DEF DepInv, HandledSoFar
    <3>3. s \in Listed
      BY <1>6 DEF Listed
    <3> QED
      BY <1>1, <1>2, <1>4, <3>2, <3>3, HandledStays
  <2> QED
    BY <2>1, <2>2
<1>7. ASSUME NEW x \in Vertices, NEW y \in Vertices, Edge(out', x, y)
      PROVE  \E k \in 1 .. Len(deps[TypeOf(x)]) : y = getVertex(deps[TypeOf(x)][k])
  <2>1. CASE Edge(out, x, y)
    BY <2>1 DEF DepInv, EdgesAreDeps
  <2>2. CASE x = u /\ y = v
    BY <1>0, <1>1, <1>2, <2>2
  <2>3. Edge(out, x, y) \/ (x = u /\ y = v)
    <3>1. CASE out' = out
      BY <1>7, <3>1
    <3>2. CASE out' = Insert(out, u, v)
      <4>1. Edge(Insert(out, u, v), x, y)
        BY <1>7, <3>2
      <4> QED
        BY <1>2, <4>1, EdgeOfInsert
    <3> QED
      BY <1>4, <3>1, <3>2
  <2> QED
    BY <2>1, <2>2, <2>3
<1>8. HandledSoFar'
  BY <1>1, <1>6 DEF HandledSoFar
<1>9. EdgesAreDeps'
  <2>1. \A x, y : Edge(out, x, y)' <=> Edge(out', x, y)
    BY DEF Edge
  <2> QED
    BY <1>1, <1>3, <1>7, <2>1 DEF EdgesAreDeps
<1> QED
  BY <1>1, <1>8, <1>9 DEF DepInv, LoopsEnded

LEMMA DepNextType == ASSUME TypeOK, DepInv, NextType PROVE DepInv'
<1>1. /\ list' = list /\ deps' = deps /\ out' = out /\ pc' = pc /\ i' = i + 1 /\ j' = 1
      /\ pc = "edges" /\ i \in 1 .. Len(list) /\ j > Len(deps[list[i]]) /\ j \in Nat
  BY DEF NextType, input, TypeOK
<1>2. ASSUME NEW a \in 1 .. Len(list), NEW k \in 1 .. Len(deps[list[a]]),
             a < i' \/ (a = i' /\ k < j'), NEW s, s = list[a], NEW e, e = deps[s][k]
      PROVE  Handled(s, e)'
  <2>1. a <= i
    BY <1>1, <1>2
  <2>2. a = i => k < j
    BY <1>1, <2>1 DEF TypeOK
  <2>3. Handled(s, e)
    BY <1>1, <1>2, <2>1, <2>2 DEF DepInv, HandledSoFar
  <2> QED
    BY <1>1, <2>3, HandledNext DEF Handled
<1>3. HandledSoFar'
  BY <1>1, <1>2 DEF HandledSoFar
<1> QED
  BY <1>1, <1>3, EdgesUnchanged DEF DepInv, LoopsEnded

\* The steps that leave the list, the dependencies, the edges and the loops alone.
LEMMA DepUnchanged ==
  ASSUME TypeOK, DepInv, UNCHANGED <<list, deps, out, i, j>>, LoopsEnded'
  PROVE  DepInv'
<1>1. ASSUME NEW a \in 1 .. Len(list), NEW k \in 1 .. Len(deps[list[a]]),
             a < i \/ (a = i /\ k < j), NEW s, s = list[a], NEW e, e = deps[s][k]
      PROVE  Handled(s, e)'
  <2>1. Handled(s, e)
    BY <1>1 DEF DepInv, HandledSoFar
  <2> QED
    BY <2>1, HandledNext DEF Handled
<1>2. HandledSoFar'
  BY <1>1 DEF HandledSoFar
<1> QED
  BY <1>2, EdgesUnchanged DEF DepInv

LEMMA DepStep == ASSUME TypeOK, DepInv, [Next]_vars PROVE DepInv'
<1>1. CASE BeginSort
  <2>1. LoopsEnded'
    BY <1>1 DEF BeginSort, LoopsEnded, DepInv, input
  <2> QED
    BY <1>1, <2>1, DepUnchanged DEF BeginSort, input
<1>2. ASSUME NEW v \in Vertices, DiscoverRoot(v) PROVE DepInv'
  <2>1. LoopsEnded'
    BY <1>2 DEF DiscoverRoot, LoopsEnded, DepInv, input
  <2> QED
    BY <1>2, <2>1, DepUnchanged DEF DiscoverRoot, input
<1>3. CASE ExamineEdge
  <2>1. LoopsEnded'
    BY <1>3 DEF ExamineEdge, LoopsEnded, DepInv, input
  <2> QED
    BY <1>3, <2>1, DepUnchanged DEF ExamineEdge, input
<1>4. CASE FinishVertex \/ FillResult
  <2>1. LoopsEnded'
    BY <1>4 DEF FinishVertex, FillResult, LoopsEnded, DepInv, input
  <2> QED
    BY <1>4, <2>1, DepUnchanged DEF FinishVertex, FillResult, input
<1>5. CASE Returned \/ UNCHANGED vars
  <2>1. LoopsEnded'
    BY <1>5 DEF Returned, vars, LoopsEnded, DepInv
  <2> QED
    BY <1>5, <2>1, DepUnchanged DEF Returned, vars
<1> QED
  BY <1>1, <1>2, <1>3, <1>4, <1>5, DepCall, DepVisit, DepNextType DEF Next, Step

LEMMA DepHolds == Spec => [](IInv /\ DepInv)
<1>1. Spec => []DepInv
  BY DepInit, DepStep, TypeCorrect, PTL DEF Spec
<1> QED
  BY <1>1, InvHolds, PTL

-------------------------------------------------------------------------------
(* The theorems.                                                             *)

LEMMA AllHandled ==
  ASSUME TypeOK, DepInv, pc \notin {"new", "edges"}, NEW t \in Listed, NEW k \in 1 .. Len(deps[t])
  PROVE  Handled(t, deps[t][k])
<1>1. PICK a \in 1 .. Len(list) : t = list[a]
  BY DEF Listed
<1> QED
  BY <1>1 DEF TypeOK, DepInv, HandledSoFar, LoopsEnded

\* For any list and any dependencies, addDependency gives up no dependency but
\* the ones that would close a cycle (TypeSorter.cpp:27).
THEOREM OnlyHopelessDropped == Spec => []OnlyCyclesDropped
<1>1. IInv /\ DepInv => OnlyCyclesDropped
  BY AllHandled DEF IInv, OnlyCyclesDropped, Handled
<1> QED
  BY <1>1, DepHolds, PTL

\* A cycle that a dependency would close is one of the dependencies.
LEMMA CycleOfTypes ==
  ASSUME TypeOK, DepInv, Closed, NEW t \in Listed, NEW k \in 1 .. Len(deps[t]),
         has_cycles(Insert(out, getVertex(t), getVertex(deps[t][k])))
  PROVE  ~ AcyclicTypes
<1>1. list \in Seq(Types) /\ out \in [Vertices -> Seq(Vertices)]
  BY DEF TypeOK
<1>2. PICK u, v : u = getVertex(t) /\ v = getVertex(deps[t][k])
  OBVIOUS
<1>3. /\ u \in Vertices /\ TypeOf(u) = t
      /\ v \in Vertices /\ TypeOf(v) = deps[t][k]
  BY <1>1, <1>2, FirstPosition DEF Closed
<1>4. PICK S \in SUBSET Vertices :
        S # {} /\ \A x \in S : \E y \in S : Edge(Insert(out, u, v), x, y)
  BY <1>2 DEF has_cycles
<1> DEFINE T == {TypeOf(x) : x \in S}
<1>5. T \in SUBSET Listed /\ T # {}
  BY <1>1, <1>4, TypesOfVertices
<1>6. ASSUME NEW x \in S PROVE \E m \in 1 .. Len(deps[TypeOf(x)]) : deps[TypeOf(x)][m] \in T
  <2>1. PICK y \in S : Edge(Insert(out, u, v), x, y)
    BY <1>4
  <2>2. x \in Vertices /\ y \in Vertices /\ TypeOf(x) \in Listed
    BY <1>1, <1>4, TypesOfVertices
  <2>3. CASE x = u /\ y = v
    BY <1>3, <2>3
  <2>4. CASE Edge(out, x, y)
    <3>1. PICK m \in 1 .. Len(deps[TypeOf(x)]) : y = getVertex(deps[TypeOf(x)][m])
      BY <2>2, <2>4 DEF DepInv, EdgesAreDeps
    <3>2. deps[TypeOf(x)][m] = TypeOf(y)
      BY <1>1, <2>2, <3>1, FirstPosition DEF Closed
    <3> QED
      BY <3>2
  <2>5. Edge(out, x, y) \/ (x = u /\ y = v)
    BY <1>1, <1>3, <2>1, <2>2, EdgeOfInsert
  <2> QED
    BY <2>3, <2>4, <2>5
<1>7. \A s \in T : \E m \in 1 .. Len(deps[s]) : deps[s][m] \in T
  BY <1>6
<1> QED
  <2> HIDE DEF T
  <2> QED
    BY <1>5, <1>7 DEF AcyclicTypes

\* "the types are topologically sorted" (src/clang.cpp:661), for any list that
\* holds the dependencies of its types and any dependencies without a cycle:
\* every type comes after all the types it depends on.
THEOREM DependenciesFirst == Spec => []TopologicallySorted
<1>1. IInv /\ DepInv => TopologicallySorted
  <2>1. SUFFICES ASSUME IInv, DepInv, pc = "sorted", Closed, AcyclicTypes,
                        NEW t \in Listed, NEW k \in 1 .. Len(deps[t])
                 PROVE  Before(deps[t][k], t)
    BY DEF TopologicallySorted
  <2>2. TypeOK /\ list \in Seq(Types)
    BY <2>1 DEF IInv, TypeOK
  <2>3. Edge(out, getVertex(t), getVertex(deps[t][k]))
    BY <2>1, <2>2, AllHandled, CycleOfTypes DEF Handled
  <2>4. deps[t][k] \in Listed
    BY <2>1 DEF Closed
  <2>5. /\ getVertex(t) \in Vertices /\ TypeOf(getVertex(t)) = t
        /\ getVertex(deps[t][k]) \in Vertices /\ TypeOf(getVertex(deps[t][k])) = deps[t][k]
    BY <2>2, <2>4, FirstPosition
  <2>6. Before(TypeOf(getVertex(deps[t][k])), TypeOf(getVertex(t)))
    BY <2>1, <2>3, <2>5, EdgeOrder
  <2> QED
    BY <2>5, <2>6
<1> QED
  BY <1>1, DepHolds, PTL

\* For any list, repetitions included, the result holds every type as many
\* times as the list: the vertices are sorted each of them once.
THEOREM NothingLost == Spec => []SameTypes
<1>1. IInv => SameTypes
  <2>1. SUFFICES ASSUME IInv, pc = "sorted", NEW t \in Types
                 PROVE  Cardinality({k \in 1 .. Len(result) : result[k] = t})
                          = Cardinality({k \in 1 .. Len(list) : list[k] = t})
    BY DEF SameTypes
  <2> DEFINE A == {k \in 1 .. Len(result) : result[k] = t}
             B == {k \in 1 .. Len(list) : list[k] = t}
             f == [k \in A |-> sorted[k] + 1]
  <2>2. /\ list \in Seq(Types) /\ sorted \in Seq(Vertices)
        /\ Len(list) \in Nat /\ Len(sorted) \in Nat
    BY <2>1 DEF IInv, TypeOK
  <2>3. /\ Len(result) = Len(sorted)
        /\ \A k \in 1 .. Len(sorted) : result[k] = list[sorted[k] + 1]
        /\ \A v \in Vertices : \E k \in 1 .. Len(sorted) : sorted[k] = v
        /\ \A p, q \in 1 .. Len(sorted) : sorted[p] = sorted[q] => p = q
    BY <2>1, <2>2 DEF IInv, SearchInv, AllSorted, Colors, TypeOf
  <2>4. \A k \in 1 .. Len(sorted) : sorted[k] \in Vertices
    BY <2>2
  <2>5. \A k \in A : f[k] \in B
    BY <2>2, <2>3, <2>4 DEF Vertices
  <2>6. \A k, m \in A : f[k] = f[m] => k = m
    <3>1. \A k, m \in A : sorted[k] \in Nat /\ sorted[m] \in Nat
      BY <2>3, <2>4 DEF Vertices
    <3> QED
      BY <2>3, <3>1
  <2>7. ASSUME NEW b \in B PROVE \E k \in A : f[k] = b
    <3>1. b - 1 \in Vertices
      BY <2>2 DEF Vertices
    <3>2. PICK k \in 1 .. Len(sorted) : sorted[k] = b - 1
      BY <2>3, <3>1
    <3>3. k \in A /\ f[k] = b
      BY <2>2, <2>3, <3>2
    <3> QED
      BY <3>3
  <2>8. f \in Bijection(A, B)
    <3>1. f \in [A -> B]
      BY <2>5
    <3> HIDE DEF f, A, B
    <3>2. f \in Injection(A, B)
      BY <2>6, <3>1 DEF Injection, IsInjective
    <3>3. f \in Surjection(A, B)
      BY <2>7, <3>1 DEF Surjection
    <3> QED
      BY <3>2, <3>3 DEF Bijection
  <2>9. IsFiniteSet(A)
    <3>1. IsFiniteSet(1 .. Len(result))
      BY <2>2, <2>3, FS_Interval
    <3> QED
      BY <3>1, FS_Subset
  <2>10. ExistsBijection(A, B)
    BY <2>8 DEF ExistsBijection
  <2> HIDE DEF A, B
  <2>11. Cardinality(A) = Cardinality(B)
    BY <2>9, <2>10, FS_Bijection
  <2> QED
    BY <2>11 DEF A, B
<1> QED
  BY <1>1, InvHolds, PTL

-------------------------------------------------------------------------------
(* What a caller of the constructor may rely on.                             *)

\* A sorter that is constructed fits, whatever it was before.
LEMMA ConstructFits ==
  ASSUME NEW l \in Seq(Types), NEW d \in [Types -> Seq(Types)], Construct(l, d)
  PROVE  IInv' /\ DepInv'
<1>1. /\ list' = l /\ deps' = d /\ i' = 1 /\ j' = 1 /\ pc' = "edges"
      /\ dfs' = << >> /\ sorted' = << >> /\ result' = << >>
      /\ Vertices' = 0 .. Len(l) - 1 /\ Len(l) \in Nat
  BY DEF Construct, Vertices
<1>2. /\ out' = [v \in Vertices' |-> << >>]
      /\ color' = [v \in Vertices' |-> "white"] /\ examined' = [v \in Vertices' |-> 0]
  BY <1>1 DEF Construct
<1>3. \A T : << >> \in Seq(T)
  OBVIOUS
<1>4. TypeOK'
  <2>1. out' \in [Vertices' -> Seq(Vertices')] /\ dfs' \in Seq(Vertices') /\ sorted' \in Seq(Vertices') /\ result' \in Seq(Types)
    BY <1>1, <1>2, <1>3
  <2>2. color' \in [Vertices' -> {"white", "gray", "black"}] /\ examined' \in [Vertices' -> Nat]
    BY <1>2
  <2> QED
    BY <1>1, <2>1, <2>2 DEF TypeOK
<1>5. \A u \in Vertices' : out'[u] = << >> /\ \A v : ~ Edge(out', u, v)
  BY <1>2 DEF Edge
<1>6. EdgesJoinReps' /\ ~ has_cycles(out)' /\ EdgesAreDeps'
  BY <1>5 DEF EdgesJoinReps, has_cycles, EdgesAreDeps, Edge
<1>7. \A v \in Vertices' : color'[v] = "white" /\ examined'[v] = 0
  BY <1>2
<1>8. Fresh' /\ Colors' /\ Chain' /\ TargetsFirst' /\ RepsFirst' /\ AllSorted' /\ NeverNotADag'
  BY <1>1, <1>7 DEF Fresh, Colors, Chain, TargetsFirst, RepsFirst, AllSorted, NeverNotADag
<1>9. Settled'
  BY <1>5, <1>7 DEF Settled
<1>10. HandledSoFar' /\ LoopsEnded'
  BY <1>1, <1>4 DEF HandledSoFar, LoopsEnded, TypeOK
<1> QED
  BY <1>4, <1>6, <1>8, <1>9, <1>10 DEF IInv, GraphInv, SearchInv, DepInv

\* The result holds what the list holds.
LEMMA ResultIsListed ==
  ASSUME IInv, pc = "sorted"
  PROVE  result \in Seq(Types) /\ Listed = {result[k] : k \in 1 .. Len(result)}
<1>1. /\ list \in Seq(Types) /\ sorted \in Seq(Vertices) /\ result \in Seq(Types)
      /\ Len(list) \in Nat /\ Len(sorted) \in Nat
  BY DEF IInv, TypeOK
<1>2. /\ Len(result) = Len(sorted)
      /\ \A k \in 1 .. Len(sorted) : result[k] = list[sorted[k] + 1]
      /\ \A v \in Vertices : \E k \in 1 .. Len(sorted) : sorted[k] = v
  BY <1>1 DEF IInv, SearchInv, AllSorted, Colors, TypeOf
<1>3. ASSUME NEW k \in 1 .. Len(result) PROVE result[k] \in Listed
  <2>1. sorted[k] \in Vertices
    BY <1>1, <1>2
  <2>2. sorted[k] + 1 \in 1 .. Len(list)
    BY <1>1, <2>1 DEF Vertices
  <2> QED
    BY <1>2, <2>2 DEF Listed
<1>4. ASSUME NEW a \in 1 .. Len(list) PROVE \E k \in 1 .. Len(result) : result[k] = list[a]
  <2>1. a - 1 \in Vertices
    BY <1>1 DEF Vertices
  <2>2. PICK k \in 1 .. Len(sorted) : sorted[k] = a - 1
    BY <1>2, <2>1
  <2> QED
    BY <1>2, <2>2
<1> QED
  BY <1>1, <1>3, <1>4 DEF Listed

\* A dependency that a closed list gives up leads back to its type: whatever
\* holds the dependency, and with a type all it depends on, holds the type.
LEMMA GivenUpLeadsBack ==
  ASSUME TypeOK, GraphInv, DepInv, Closed, NEW t \in Listed, NEW k \in 1 .. Len(deps[t]),
         has_cycles(Insert(out, getVertex(t), getVertex(deps[t][k]))),
         NEW O, deps[t][k] \in O, \A s \in O : s \in Listed => \A m \in 1 .. Len(deps[s]) : deps[s][m] \in O
  PROVE  t \in O
<1> SUFFICES ASSUME t \notin O PROVE FALSE
  OBVIOUS
<1>1. list \in Seq(Types) /\ out \in [Vertices -> Seq(Vertices)]
  BY DEF TypeOK
<1>2. PICK u, v : u = getVertex(t) /\ v = getVertex(deps[t][k])
  OBVIOUS
<1>3. /\ u \in Vertices /\ TypeOf(u) = t
      /\ v \in Vertices /\ TypeOf(v) = deps[t][k]
  BY <1>1, <1>2, FirstPosition DEF Closed
<1>4. PICK S \in SUBSET Vertices :
        S # {} /\ \A x \in S : \E y \in S : Edge(Insert(out, u, v), x, y)
  BY <1>2 DEF has_cycles
<1>5. PICK I : I = {x \in S : TypeOf(x) \in O}
  OBVIOUS
<1>6. ASSUME NEW x \in S, ~ (x = u /\ v \in S) PROVE \E y \in S : Edge(out, x, y)
  <2>1. PICK y \in S : Edge(Insert(out, u, v), x, y)
    BY <1>4
  <2>2. Edge(out, x, y) \/ (x = u /\ y = v)
    BY <1>1, <1>3, <1>4, <2>1, EdgeOfInsert
  <2> QED
    BY <1>6, <2>1, <2>2
<1>7. CASE I = {}
  <2>1. v \notin S
    BY <1>3, <1>5, <1>7
  <2>2. \A x \in S : \E y \in S : Edge(out, x, y)
    BY <1>6, <2>1
  <2> QED
    BY <1>4, <2>2 DEF GraphInv, has_cycles
<1>8. CASE I # {}
  <2>1. ASSUME NEW x \in I PROVE \E y \in I : Edge(out, x, y)
    <3>1. x \in S /\ x \in Vertices /\ TypeOf(x) \in O /\ x # u
      BY <1>3, <1>4, <1>5
    <3>2. PICK y \in S : Edge(out, x, y)
      BY <1>6, <3>1
    <3>3. TypeOf(x) \in Listed /\ y \in Vertices
      BY <1>1, <1>4, <3>1, TypesOfVertices
    <3>4. PICK m \in 1 .. Len(deps[TypeOf(x)]) : y = getVertex(deps[TypeOf(x)][m])
      BY <3>1, <3>2, <3>3 DEF DepInv, EdgesAreDeps
    <3>5. deps[TypeOf(x)][m] = TypeOf(y)
      BY <1>1, <3>3, <3>4, FirstPosition DEF Closed
    <3>6. TypeOf(y) \in O
      BY <3>1, <3>3, <3>5
    <3> QED
      BY <1>5, <3>2, <3>6
  <2>2. I \in SUBSET Vertices
    BY <1>4, <1>5
  <2> QED
    BY <1>8, <2>1, <2>2 DEF GraphInv, has_cycles
<1> QED
  BY <1>7, <1>8

\* So a type of a closed list comes after what it depends on, or the two are of
\* one recursive group.
LEMMA AfterOrTogether ==
  ASSUME IInv, DepInv, pc = "sorted", Closed, NEW t \in Listed, NEW k \in 1 .. Len(deps[t]),
         NEW O, deps[t][k] \in O, \A s \in O : s \in Listed => \A m \in 1 .. Len(deps[s]) : deps[s][m] \in O
  PROVE  Before(deps[t][k], t) \/ t \in O
<1>1. TypeOK /\ GraphInv /\ list \in Seq(Types)
  BY DEF IInv, TypeOK
<1>2. Handled(t, deps[t][k])
  BY <1>1, AllHandled
<1>3. CASE Edge(out, getVertex(t), getVertex(deps[t][k]))
  <2>1. /\ getVertex(t) \in Vertices /\ TypeOf(getVertex(t)) = t
        /\ getVertex(deps[t][k]) \in Vertices /\ TypeOf(getVertex(deps[t][k])) = deps[t][k]
    BY <1>1, FirstPosition DEF Closed
  <2>2. Before(TypeOf(getVertex(deps[t][k])), TypeOf(getVertex(t)))
    BY <1>3, <2>1, EdgeOrder
  <2> QED
    BY <2>1, <2>2
<1>4. CASE has_cycles(Insert(out, getVertex(t), getVertex(deps[t][k])))
  BY <1>1, <1>4, GivenUpLeadsBack
<1> QED
  BY <1>2, <1>3, <1>4 DEF Handled

-------------------------------------------------------------------------------
(* The refinement: what the variables of TypeOrder stand for.                *)

Depends == UNION {{<<t, TypeOf(getVertex(deps[t][k]))>> : k \in 1 .. Len(deps[t])} : t \in Listed}
Kept == {<<TypeOf(p[1]), TypeOf(p[2])>> : p \in {q \in Vertices \X Vertices : Edge(out, q[1], q[2])}}
Emitted == {TypeOf(sorted[k]) : k \in 1 .. Len(sorted)}

LEMMA InDepends ==
  ASSUME NEW t, NEW d
  PROVE  <<t, d>> \in Depends <=>
           t \in Listed /\ \E k \in 1 .. Len(deps[t]) : d = TypeOf(getVertex(deps[t][k]))
<1> DEFINE D(s) == {<<s, TypeOf(getVertex(deps[s][k]))>> : k \in 1 .. Len(deps[s])}
<1>1. <<t, d>> \in Depends <=> \E s \in Listed : <<t, d>> \in D(s)
  BY DEF Depends
<1>2. \A s : <<t, d>> \in D(s) <=> s = t /\ \E k \in 1 .. Len(deps[s]) : d = TypeOf(getVertex(deps[s][k]))
  OBVIOUS
<1> QED
  BY <1>1, <1>2

LEMMA InKept ==
  ASSUME NEW t, NEW d
  PROVE  <<t, d>> \in Kept <=>
           \E u, v \in Vertices : Edge(out, u, v) /\ t = TypeOf(u) /\ d = TypeOf(v)
<1> DEFINE E == {q \in Vertices \X Vertices : Edge(out, q[1], q[2])}
<1>1. <<t, d>> \in Kept <=> \E q \in E : <<t, d>> = <<TypeOf(q[1]), TypeOf(q[2])>>
  BY DEF Kept
<1>2. ASSUME <<t, d>> \in Kept
      PROVE  \E u, v \in Vertices : Edge(out, u, v) /\ t = TypeOf(u) /\ d = TypeOf(v)
  <2>1. PICK q \in E : <<t, d>> = <<TypeOf(q[1]), TypeOf(q[2])>>
    BY <1>1, <1>2
  <2>2. q[1] \in Vertices /\ q[2] \in Vertices /\ Edge(out, q[1], q[2])
    OBVIOUS
  <2> QED
    BY <2>1, <2>2
<1>3. ASSUME NEW u \in Vertices, NEW v \in Vertices, Edge(out, u, v), t = TypeOf(u), d = TypeOf(v)
      PROVE  <<t, d>> \in Kept
  <2>1. <<u, v>> \in E
    BY <1>3
  <2> QED
    BY <1>1, <1>3, <2>1
<1> QED
  BY <1>2, <1>3

LEMMA InEmitted ==
  ASSUME NEW t PROVE t \in Emitted <=> \E k \in 1 .. Len(sorted) : t = TypeOf(sorted[k])
BY DEF Emitted

LEMMA InitRefines == Init => Order!Init
<1> SUFFICES ASSUME Init PROVE Order!Init
  OBVIOUS
<1>1. Vertices = {} /\ Listed = {} /\ Len(sorted) = 0
  BY DEF Init, Vertices, Listed
<1>2. Depends = {} /\ Kept = {} /\ Emitted = {}
  BY <1>1 DEF Depends, Kept, Emitted
<1> QED
  BY <1>1, <1>2 DEF Order!Init, Depends, Kept, Emitted

LEMMA SameInput ==
  ASSUME TypeOK, list' = list, deps' = deps PROVE Listed' = Listed /\ Depends' = Depends
<1>1. Listed' = Listed /\ \A v : TypeOf(v)' = TypeOf(v)
  BY DEF Listed, TypeOf
<1>2. \A t : getVertex(t)' = getVertex(t)
  BY VertexUnchanged DEF TypeOK
<1> QED
  BY <1>1, <1>2 DEF Depends, TypeOf

LEMMA SameKept == ASSUME list' = list, out' = out PROVE Kept' = Kept
<1>1. Vertices' = Vertices
  BY DEF Vertices
<1> QED
  BY <1>1 DEF Kept, Edge, TypeOf

LEMMA SameEmitted == ASSUME list' = list, sorted' = sorted PROVE Emitted' = Emitted
BY DEF Emitted, TypeOf

\* A cycle of types is one of their first vertices.
LEMMA NoCycleOfTypes ==
  ASSUME TypeOK, EdgesJoinReps, NEW u \in Vertices, IsRep(u), NEW v \in Vertices, IsRep(v),
         ~ has_cycles(Insert(out, u, v))
  PROVE  Order!Acyclic(Kept \union {<<TypeOf(u), TypeOf(v)>>})
<1>1. out \in [Vertices -> Seq(Vertices)]
  BY DEF TypeOK
<1>2. SUFFICES ASSUME NEW S \in SUBSET Types, S # {},
                      \A t \in S : \E d \in S : <<t, d>> \in Kept \union {<<TypeOf(u), TypeOf(v)>>}
               PROVE  FALSE
  BY DEF Order!Acyclic
<1> DEFINE R == {x \in Vertices : IsRep(x) /\ TypeOf(x) \in S}
<1>3. ASSUME NEW t \in S
      PROVE  \E x, y \in R : Edge(Insert(out, u, v), x, y) /\ TypeOf(x) = t
  <2>1. PICK d \in S : <<t, d>> \in Kept \union {<<TypeOf(u), TypeOf(v)>>}
    BY <1>2
  <2>2. CASE <<t, d>> \in Kept
    <3>1. PICK x, y \in Vertices : Edge(out, x, y) /\ t = TypeOf(x) /\ d = TypeOf(y)
      BY <2>2, InKept
    <3>2. IsRep(x) /\ IsRep(y)
      BY <3>1 DEF Edge, EdgesJoinReps
    <3>3. Edge(Insert(out, u, v), x, y)
      BY <1>1, <3>1, EdgeOfInsert
    <3> QED
      BY <3>1, <3>2, <3>3
  <2>3. CASE t = TypeOf(u) /\ d = TypeOf(v)
    <3>1. Edge(Insert(out, u, v), u, v)
      BY <1>1, EdgeOfInsert
    <3> QED
      BY <2>3, <3>1
  <2> QED
    BY <2>1, <2>2, <2>3
<1>4. ASSUME NEW x \in R PROVE \E y \in R : Edge(Insert(out, u, v), x, y)
  <2>1. PICK z, y \in R : Edge(Insert(out, u, v), z, y) /\ TypeOf(z) = TypeOf(x)
    BY <1>3
  <2>2. z = x
    BY <2>1, OneRep
  <2> QED
    BY <2>1, <2>2
<1>5. R # {} /\ R \in SUBSET Vertices
  BY <1>2, <1>3
<1> QED
  <2> HIDE DEF R
  <2> QED
    BY <1>4, <1>5 DEF has_cycles

LEMMA CycleIsOfTypes ==
  ASSUME TypeOK, NEW u \in Vertices, NEW v \in Vertices, has_cycles(Insert(out, u, v))
  PROVE  ~ Order!Acyclic(Kept \union {<<TypeOf(u), TypeOf(v)>>})
<1>1. out \in [Vertices -> Seq(Vertices)] /\ list \in Seq(Types)
  BY DEF TypeOK
<1>2. PICK S \in SUBSET Vertices :
        S # {} /\ \A x \in S : \E y \in S : Edge(Insert(out, u, v), x, y)
  BY DEF has_cycles
<1> DEFINE T == {TypeOf(x) : x \in S}
<1>3. T \in SUBSET Types /\ T # {}
  BY <1>1, <1>2, TypesOfVertices
<1>4. ASSUME NEW x \in S
      PROVE  \E d \in T : <<TypeOf(x), d>> \in Kept \union {<<TypeOf(u), TypeOf(v)>>}
  <2>1. PICK y \in S : Edge(Insert(out, u, v), x, y)
    BY <1>2
  <2>2. Edge(out, x, y) \/ (x = u /\ y = v)
    BY <1>1, <2>1, EdgeOfInsert
  <2>3. <<TypeOf(x), TypeOf(y)>> \in Kept \union {<<TypeOf(u), TypeOf(v)>>}
    BY <2>2, InKept
  <2> QED
    BY <2>3
<1>5. \A t \in T : \E d \in T : <<t, d>> \in Kept \union {<<TypeOf(u), TypeOf(v)>>}
  BY <1>4
<1> QED
  <2> HIDE DEF T
  <2> QED
    BY <1>3, <1>5 DEF Order!Acyclic

LEMMA DependsTyped == TypeOK => Depends \subseteq Listed \X Listed
<1> SUFFICES ASSUME TypeOK, NEW t \in Listed, NEW k \in 1 .. Len(deps[t])
             PROVE  TypeOf(getVertex(deps[t][k])) \in Listed
  BY DEF Depends
<1>1. list \in Seq(Types) /\ Len(list) > 0
  BY DEF TypeOK, Listed
<1> QED
  BY <1>1, VertexIsRep, TypesOfVertices

LEMMA DependsTypedNext == TypeOK' => (Depends \subseteq Listed \X Listed)'
BY DependsTyped, PTL

\* The constructor is called: the types are given.
LEMMA CallRefines == ASSUME IInv, DepInv, Call PROVE Order!Give
<1>1. PICK in \in Inputs : Construct(in.list, in.deps)
  BY DEF Call
<1>2. TypeOK'
  BY TypeStep DEF IInv, Next
<1>3. list = << >> /\ sorted = << >>
  BY DEF Call, DepInv, LoopsEnded, IInv, SearchInv, Fresh
<1>4. Listed = {} /\ Kept = {} /\ Emitted = {}
  BY <1>3 DEF Listed, Kept, Vertices, Emitted
<1>5. Kept' = {} /\ Emitted' = {}
  <2>1. \A u \in Vertices' : out'[u] = << >>
    BY <1>1 DEF Construct, Vertices
  <2>2. sorted' = << >>
    BY <1>1 DEF Construct
  <2> QED
    BY <2>1, <2>2 DEF Kept, Edge, Emitted
<1>6. Listed' \in SUBSET Types
  BY <1>2 DEF TypeOK, Listed
<1>7. Depends' \in SUBSET (Listed' \X Listed')
  BY <1>2, DependsTypedNext
<1> QED
  BY <1>4, <1>5, <1>6, <1>7 DEF Order!Give, Depends, Kept, Emitted

LEMMA KeptInsert ==
  ASSUME TypeOK, NEW u \in Vertices, NEW v \in Vertices, list' = list, out' = Insert(out, u, v)
  PROVE  Kept' = Kept \union {<<TypeOf(u), TypeOf(v)>>}
<1>1. out \in [Vertices -> Seq(Vertices)] /\ Vertices' = Vertices
  BY DEF TypeOK, Vertices
<1> DEFINE E(o) == {q \in Vertices \X Vertices : Edge(o, q[1], q[2])}
<1>2. Kept' = {<<TypeOf(q[1]), TypeOf(q[2])>> : q \in E(out')}
  BY <1>1 DEF Kept, Edge, TypeOf
<1>3. Kept = {<<TypeOf(q[1]), TypeOf(q[2])>> : q \in E(out)}
  BY DEF Kept
<1>4. E(out') = E(out) \union {<<u, v>>}
  <2>1. \A x, y \in Vertices : Edge(out', x, y) <=> Edge(out, x, y) \/ (x = u /\ y = v)
    BY <1>1, EdgeOfInsert
  <2> QED
    BY <2>1
<1>5. ASSUME NEW p
      PROVE  p \in Kept' <=> p \in Kept \union {<<TypeOf(u), TypeOf(v)>>}
  <2> HIDE DEF E
  <2>1. p \in Kept' <=> \E q \in E(out') : p = <<TypeOf(q[1]), TypeOf(q[2])>>
    BY <1>2
  <2>2. p \in Kept <=> \E q \in E(out) : p = <<TypeOf(q[1]), TypeOf(q[2])>>
    BY <1>3
  <2>3. p \in Kept' <=> p \in Kept \/ p = <<TypeOf(<<u, v>>[1]), TypeOf(<<u, v>>[2])>>
    BY <1>4, <2>1, <2>2
  <2> QED
    BY <2>3
<1> QED
  BY <1>5

\* addDependency: a dependency is kept, or nothing changes.
LEMMA VisitRefines ==
  ASSUME IInv, DepInv, VisitDependency PROVE Order!Next \/ UNCHANGED Order!vars
<1>1. PICK t, u, v :
        t = list[i] /\ u = getVertex(t) /\ v = getVertex(deps[t][j])
  OBVIOUS
<1>2. /\ list' = list /\ deps' = deps /\ sorted' = sorted /\ pc = "edges"
      /\ i \in 1 .. Len(list) /\ j \in 1 .. Len(deps[t]) /\ addDependency(u, v) /\ TypeOK
  BY <1>1 DEF VisitDependency, input, search, IInv, TypeOK
<1>3. /\ t \in Listed /\ u \in Vertices /\ TypeOf(u) = t /\ IsRep(u) /\ v \in Vertices /\ IsRep(v)
      /\ TypeOf(v) \in Listed
  <2>1. list \in Seq(Types) /\ Len(list) > 0 /\ t \in Listed
    BY <1>1, <1>2 DEF TypeOK, Listed
  <2>2. u \in Vertices /\ TypeOf(u) = t /\ IsRep(u)
    BY <1>1, <2>1, VertexIsRep, FirstPosition
  <2>3. v \in Vertices /\ IsRep(v)
    BY <1>1, <2>1, VertexIsRep
  <2> QED
    BY <2>1, <2>2, <2>3, TypesOfVertices
<1>4. Listed' = Listed /\ Depends' = Depends /\ Emitted' = Emitted
  BY <1>2, SameInput, SameEmitted
<1>5. CASE out' = out
  <2>1. Kept' = Kept
    BY <1>2, <1>5, SameKept
  <2> QED
    BY <1>4, <2>1 DEF Order!vars, Depends, Kept, Emitted
<1>6. CASE out' = Insert(out, u, v) /\ ~ has_cycles(Insert(out, u, v))
  <2>1. Emitted = {}
    BY <1>2 DEF IInv, SearchInv, Fresh, Emitted
  <2>2. <<t, TypeOf(v)>> \in Depends
    BY <1>1, <1>2, <1>3, InDepends
  <2>3. Order!Acyclic(Kept \union {<<t, TypeOf(v)>>})
    BY <1>2, <1>3, <1>6, NoCycleOfTypes DEF IInv, GraphInv
  <2>4. Kept' = Kept \union {<<t, TypeOf(v)>>}
    BY <1>2, <1>3, <1>6, KeptInsert
  <2>5. Order!Keep(t, TypeOf(v))
    BY <1>4, <2>1, <2>2, <2>3, <2>4 DEF Order!Keep, Depends, Kept, Emitted
  <2> QED
    BY <1>3, <2>5 DEF Order!Next
<1> QED
  BY <1>2, <1>5, <1>6 DEF addDependency

\* A vertex is finished: its type is emitted, if no other vertex had it.
LEMMA FinishRefines ==
  ASSUME IInv, DepInv, FinishVertex PROVE Order!Next \/ UNCHANGED Order!vars
<1>1. /\ list' = list /\ deps' = deps /\ out' = out /\ sorted' = Append(sorted, Top) /\ pc = "sort"
      /\ dfs # << >> /\ examined[Top] = Len(out[Top]) /\ TypeOK
      /\ GraphInv /\ Colors /\ Settled /\ RepsFirst
  BY DEF FinishVertex, input, IInv, SearchInv
<1>2. PICK u, t : u = Top /\ t = TypeOf(u)
  OBVIOUS
<1>3. /\ u \in Vertices /\ color[u] = "gray" /\ Len(dfs) \in 1 .. Len(dfs) /\ dfs[Len(dfs)] = u
      /\ sorted \in Seq(Vertices) /\ Len(sorted) \in Nat /\ list \in Seq(Types)
  BY <1>1, <1>2 DEF TypeOK, Top, Colors
<1>4. Listed' = Listed /\ Depends' = Depends /\ Kept' = Kept
  BY <1>1, SameInput, SameKept
<1>5. Emitted' = Emitted \union {t}
  <2>1. Len(sorted') = Len(sorted) + 1 /\ sorted'[Len(sorted) + 1] = u
        /\ \A k \in 1 .. Len(sorted) : sorted'[k] = sorted[k]
    BY <1>1, <1>2, <1>3
  <2>2. Emitted' = {TypeOf(sorted'[k]) : k \in 1 .. Len(sorted) + 1}
    BY <1>1, <2>1 DEF Emitted, TypeOf
  <2>3. \A x : x \in Emitted' <=> \E k \in 1 .. Len(sorted) + 1 : x = TypeOf(sorted'[k])
    BY <2>2
  <2>4. \A x : x \in Emitted <=> \E k \in 1 .. Len(sorted) : x = TypeOf(sorted[k])
    BY DEF Emitted
  <2>5. \A k : k \in 1 .. Len(sorted) + 1 <=> k \in 1 .. Len(sorted) \/ k = Len(sorted) + 1
    BY <1>3
  <2>6. \A x : x \in Emitted' <=> x \in Emitted \/ x = t
    BY <1>2, <2>1, <2>3, <2>4, <2>5
  <2> QED
    BY <2>6
<1>6. CASE t \in Emitted
  BY <1>4, <1>5, <1>6 DEF Order!vars, Depends, Kept, Emitted
<1>7. CASE t \notin Emitted
  <2>1. ASSUME NEW p \in Depends \ Kept PROVE ~ Order!Acyclic(Kept \union {p})
    <3>0. PICK s \in Listed : \E k \in 1 .. Len(deps[s]) : p = <<s, TypeOf(getVertex(deps[s][k]))>>
      BY DEF Depends
    <3>1. PICK k \in 1 .. Len(deps[s]) : p = <<s, TypeOf(getVertex(deps[s][k]))>>
      BY <3>0
    <3>2. PICK x, y : x = getVertex(s) /\ y = getVertex(deps[s][k])
      OBVIOUS
    <3>3. x \in Vertices /\ TypeOf(x) = s /\ y \in Vertices
      <4>1. Len(list) > 0
        BY <1>3 DEF Listed
      <4> QED
        BY <1>3, <3>2, <4>1, FirstPosition, VertexIsRep
    <3>4. p = <<TypeOf(x), TypeOf(y)>>
      BY <3>1, <3>2, <3>3
    <3>5. Edge(out, x, y) \/ has_cycles(Insert(out, x, y))
      BY <1>1, <3>2, AllHandled DEF Handled
    <3>6. ~ Edge(out, x, y)
      BY <3>3, <3>4, InKept
    <3> QED
      BY <1>1, <3>3, <3>4, <3>5, <3>6, CycleIsOfTypes
  <2>2. ASSUME NEW d \in Listed, <<t, d>> \in Kept PROVE d \in Emitted
    <3>1. PICK x, y \in Vertices : Edge(out, x, y) /\ t = TypeOf(x) /\ d = TypeOf(y)
      BY <2>2, InKept
    <3>2. PICK e \in 1 .. Len(out[x]) : out[x][e] = y
      BY <3>1 DEF Edge
    <3>3. IsRep(x)
      BY <1>1, <3>2 DEF GraphInv, EdgesJoinReps
    <3>4. x = u
      <4>1. IsRep(u)
        <5>1. SUFFICES ASSUME ~ IsRep(u) PROVE FALSE
          OBVIOUS
        <5>2. x \in 0 .. u - 1
          <6>1. x \in Nat /\ u \in Nat /\ x # u
            BY <1>3, <3>3, <5>1 DEF Vertices
          <6>2. ~ (u < x)
            <7>1. SUFFICES ASSUME u < x PROVE FALSE
              OBVIOUS
            <7>2. u \in 0 .. x - 1
              BY <6>1, <7>1
            <7>3. TypeOf(u) # TypeOf(x)
              BY <3>3, <7>2 DEF IsRep
            <7> QED
              BY <1>2, <3>1, <7>3
          <6> QED
            BY <6>1, <6>2
        <5>3. color[x] = "black"
          BY <1>1, <1>3, <5>1, <5>2 DEF RepsFirst
        <5>4. \E k \in 1 .. Len(sorted) : sorted[k] = x
          BY <1>1, <5>3 DEF Colors
        <5> QED
          BY <1>7, <3>1, <5>4, InEmitted
      <4> QED
        BY <1>2, <1>3, <3>1, <3>3, <4>1, OneRep
    <3>5. color[y] = "black"
      <4>1. \A p \in 1 .. Len(dfs) - 1 : dfs[p] # u
        <5>1. \A p \in 1 .. Len(dfs) - 1 : p \in 1 .. Len(dfs) /\ p # Len(dfs)
          BY <1>3
        <5> QED
          BY <1>1, <1>3, <5>1 DEF Colors
      <4>2. e \in 1 .. examined[u]
        BY <1>1, <1>2, <3>2, <3>4
      <4>3. \/ color[out[u][e]] = "black"
            \/ \E p \in 1 .. Len(dfs) - 1 : dfs[p] = u /\ dfs[p + 1] = out[u][e]
        BY <1>1, <1>3, <4>2 DEF Settled
      <4> QED
        BY <3>2, <3>4, <4>1, <4>3
    <3>6. \E k \in 1 .. Len(sorted) : sorted[k] = y
      BY <1>1, <3>5 DEF Colors
    <3> QED
      BY <3>1, <3>6, InEmitted
  <2>3. t \in Listed
    BY <1>2, <1>3, TypesOfVertices
  <2>4. Order!Emit(t)
    BY <1>4, <1>5, <1>7, <2>1, <2>2, <2>3 DEF Order!Emit, Depends, Kept, Emitted
  <2> QED
    BY <2>3, <2>4 DEF Order!Next
<1> QED
  BY <1>6, <1>7

LEMMA StepRefines ==
  ASSUME IInv, DepInv, [Next]_vars PROVE Order!Next \/ UNCHANGED Order!vars
<1>1. CASE UNCHANGED <<list, deps, out, sorted>>
  <2>1. Listed' = Listed /\ Depends' = Depends /\ Kept' = Kept /\ Emitted' = Emitted
    BY <1>1, SameInput, SameKept, SameEmitted DEF IInv
  <2> QED
    BY <2>1 DEF Order!vars, Depends, Kept, Emitted
<1>2. CASE Call
  BY <1>2, CallRefines DEF Order!Next
<1>3. CASE NextType \/ BeginSort \/ FillResult \/ Returned \/ UNCHANGED vars
  BY <1>1, <1>3 DEF NextType, BeginSort, FillResult, Returned, vars, input, search
<1>4. CASE ExamineEdge \/ \E v \in Vertices : DiscoverRoot(v)
  BY <1>1, <1>4 DEF ExamineEdge, DiscoverRoot, input
<1> QED
  BY <1>2, <1>3, <1>4, VisitRefines, FinishRefines DEF Next, Step

\* The sorter, with its graph, its repetitions and its search, does what
\* TypeOrder promises, for any list and any dependencies.
THEOREM RefinesTypeOrder == Spec => ImplementsTypeOrder
<1>1. Spec => Order!Spec
  BY InitRefines, StepRefines, DepHolds, PTL DEF Spec, Order!Spec
<1> QED
  BY <1>1 DEF ImplementsTypeOrder
===============================================================================
