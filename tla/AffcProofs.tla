------------------------------ MODULE AffcProofs ------------------------------
(*****************************************************************************)
(* What TLAPS proves of affc as a whole, for any translation units, any      *)
(* filter and any number of jobs, from what it proves of the parts.          *)
(*****************************************************************************)
EXTENDS Affc, FiniteSetTheorems, SequenceTheorems, WellFoundedInduction, TLAPS

\* The collector and the sorter of affc, with their theorems.
CollP == INSTANCE ExportCollectorProofs WITH ASTs <- Units

SortP == INSTANCE TypeSorterProofs WITH Types <- ObjectIds, Inputs <- {}, pc <- spc

LEMMA SameStep == CollP!CollStep <=> Coll!CollStep
<1> USE DEF
      CollP!Null, Coll!Null, CollP!Leaves, Coll!Leaves, CollP!Records, Coll!Records, CollP!Composites, Coll!Composites,
      CollP!KindOf, Coll!KindOf, CollP!PartsOf, Coll!PartsOf, CollP!Known, Coll!Known, CollP!find, Coll!find,
      CollP!TypeRepr, Coll!TypeRepr, CollP!push_back, Coll!push_back, CollP!VisitQualType, Coll!VisitQualType,
      CollP!Visit, Coll!Visit, CollP!Frame, Coll!Frame, CollP!Type, Coll!Type, CollP!Popped, Coll!Popped,
      CollP!WithTop, Coll!WithTop, CollP!Entered, Coll!Entered, CollP!Resumed, Coll!Resumed,
      CollP!Memoised, Coll!Memoised, CollP!Return, Coll!Return, CollP!NewKids, Coll!NewKids, CollP!Looping, Coll!Looping,
      CollP!Key, Coll!Key, CollP!hasLocalQualifiers, Coll!hasLocalQualifiers
<1>1. CollP!Found <=> Coll!Found
  BY DEF CollP!Found, Coll!Found
<1>2. CollP!EnterQualified <=> Coll!EnterQualified
  BY DEF CollP!EnterQualified, Coll!EnterQualified
<1>3. CollP!EnterUnqualified <=> Coll!EnterUnqualified
  BY DEF CollP!EnterUnqualified, Coll!EnterUnqualified
<1>4. CollP!ResumeQualified <=> Coll!ResumeQualified
  BY DEF CollP!ResumeQualified, Coll!ResumeQualified
<1>5. CollP!ResumeUnqualified <=> Coll!ResumeUnqualified
  BY DEF CollP!ResumeUnqualified, Coll!ResumeUnqualified
<1>6. CollP!VisitSugar <=> Coll!VisitSugar
  BY DEF CollP!VisitSugar, Coll!VisitSugar
<1>7. CollP!ResumeSugar <=> Coll!ResumeSugar
  BY DEF CollP!ResumeSugar, Coll!ResumeSugar
<1>8. CollP!VisitLeaf <=> Coll!VisitLeaf
  BY DEF CollP!VisitLeaf, Coll!VisitLeaf
<1>9. CollP!VisitComposite <=> Coll!VisitComposite
  BY DEF CollP!VisitComposite, Coll!VisitComposite
<1>10. CollP!VisitPart <=> Coll!VisitPart
  BY DEF CollP!VisitPart, Coll!VisitPart
<1>11. CollP!ResumePart <=> Coll!ResumePart
  BY DEF CollP!ResumePart, Coll!ResumePart
<1>12. CollP!ReturnComposite <=> Coll!ReturnComposite
  BY DEF CollP!ReturnComposite, Coll!ReturnComposite
<1>13. CollP!Unconvertible <=> Coll!Unconvertible
  BY DEF CollP!Unconvertible, Coll!Unconvertible
<1>14. CollP!ConvStep <=> Coll!ConvStep
  BY <1>1, <1>2, <1>3, <1>4, <1>5, <1>6, <1>7, <1>8, <1>9, <1>10, <1>11, <1>12, <1>13 DEF CollP!ConvStep, Coll!ConvStep
<1>15. ASSUME NEW d PROVE CollP!SkipAlias(d) <=> Coll!SkipAlias(d)
  BY DEF CollP!SkipAlias, Coll!SkipAlias, CollP!convVars, Coll!convVars
<1>16. ASSUME NEW d PROVE CollP!VisitDecl(d) <=> Coll!VisitDecl(d)
  BY DEF CollP!VisitDecl, Coll!VisitDecl
<1>17. ASSUME NEW d PROVE CollP!PushExport(d) <=> Coll!PushExport(d)
  BY DEF CollP!PushExport, Coll!PushExport, CollP!Converted, Coll!Converted, CollP!Redeclares, Coll!Redeclares
<1>18. ASSUME NEW d PROVE CollP!VisitPreviousDecl(d) <=> Coll!VisitPreviousDecl(d)
  BY DEF CollP!VisitPreviousDecl, Coll!VisitPreviousDecl, CollP!Converted, Coll!Converted, CollP!Redeclares, Coll!Redeclares, CollP!PreviousType, Coll!PreviousType
<1>19. ASSUME NEW d PROVE CollP!ReplacePrevious(d) <=> Coll!ReplacePrevious(d)
  BY DEF CollP!ReplacePrevious, Coll!ReplacePrevious, CollP!Converted, Coll!Converted, CollP!replaceReprs, Coll!replaceReprs, CollP!ReplaceAll, Coll!ReplaceAll
<1> QED
  BY <1>14, <1>15, <1>16, <1>17, <1>18, <1>19 DEF CollP!CollStep, Coll!CollStep

LEMMA UnitsFit == (\A u \in Units : CollP!Convertible(u)) /\ (\A u \in Units : CollP!Declared(u))
BY UnitsAssumption DEF CollP!Convertible, Coll!Convertible, CollP!Declared, Coll!Declared, CollP!Kinds, Coll!Kinds,
   CollP!QualTypes, Coll!QualTypes, CollP!Quals, Coll!Quals, CollP!Leaves, Coll!Leaves, CollP!Composites, Coll!Composites,
   CollP!Records, Coll!Records, CollP!DeclKinds, Coll!DeclKinds

\* What the collector is about, and what it changes.
collects == <<ast, types, objs, stack, ret, failed, decls, cur, latest, exports>>

LEMMA CollectorSteps ==
  ASSUME CollP!CollectorInv, CollP!CollStep
  PROVE  CollP!CollectorInv' /\ ast' = ast
<1>1. CollP!CollectorInv'
  BY UnitsFit, CollP!InvStep DEF CollP!Next
<1>2. ast' = ast
  BY UnitsFit, CollP!EffectOfStep
<1> QED
  BY <1>1, <1>2

LEMMA CollectorSince ==
  ASSUME CollP!CollectorInv, CollP!CollStep, NEW b \in Nat, CollP!Since(b)
  PROVE  CollP!Since(b)' /\ Len(objs) <= Len(objs') /\ \A o \in 1 .. b : objs'[o] = objs[o]
BY UnitsFit, CollP!SinceStep

LEMMA CollectorStays ==
  ASSUME CollP!CollectorInv, UNCHANGED collects
  PROVE  CollP!CollectorInv' /\ \A b : CollP!Since(b) => CollP!Since(b)'
<1>1. CollP!CollectorInv'
  BY UnitsFit, CollP!InvStep DEF CollP!collVars, CollP!convVars, collects
<1>2. ASSUME NEW b, CollP!Since(b) PROVE CollP!Since(b)'
  <2>1. ast' = ast /\ types' = types /\ objs' = objs /\ stack' = stack
    BY DEF collects
  <2>2. \A key : CollP!Own(key)' <=> CollP!Own(key)
    BY <2>1 DEF CollP!Own, CollP!Plain, CollP!Blurred, CollP!KindOf
  <2>3. ASSUME NEW o, CollP!EnteredFirst(o) PROVE CollP!EnteredFirst(o)'
    <3>1. PICK x \in 1 .. Len(types) : /\ types[x].autoffi = o /\ CollP!Own(types[x].clang)
                                      /\ \A m \in 1 .. Len(types) : types[m].autoffi = o => x <= m
      BY <2>3 DEF CollP!EnteredFirst
    <3>2. PICK key : key = types[x].clang
      OBVIOUS
    <3>3. CollP!Own(key)'
      BY <2>2, <3>1, <3>2
    <3>4. CollP!Own(types[x].clang)'
      BY <2>1, <3>2, <3>3 DEF CollP!Own, CollP!Plain, CollP!Blurred
    <3> QED
      BY <2>1, <3>1, <3>4 DEF CollP!EnteredFirst
  <2>4. \A o : CollP!Filled(o)' <=> CollP!Filled(o)
    BY <2>1 DEF CollP!Filled, CollP!HasEntry, CollP!ActiveAt
  <2> QED
    BY <1>2, <2>1, <2>3, <2>4 DEF CollP!Since, CollP!EnteredSince
<1> QED
  BY <1>1, <1>2

-------------------------------------------------------------------------------
(* Where the program is.                                                     *)

\* The unit the collector works on is that of the job, with the declarations
\* that the filter lets through.
OfUnit == ast = [kind |-> Unit.kind, parts |-> Unit.parts, decls |-> Decls(filter, Unit)]

Collecting == n <= Len(jobs) /\ CollP!CollectorInv /\ OfUnit

Running ==
  /\ jobs \in JobLists /\ n \in Nat \ {0}
  /\ objs \in Seq(CollP!ObjectSet(Len(objs))) /\ failed \in BOOLEAN
  /\ pc \in {"collect", "sort"} => Collecting
  /\ pc = "sort" => CollP!Collected
  /\ pc = "types" => n <= Len(jobs)
  /\ pc \in {"write", "written"} => n > Len(jobs)

LEMMA JobIsUnit ==
  ASSUME Running, NEW m \in 1 .. Len(jobs)
  PROVE  jobs[m] \in Units /\ CollP!Convertible(jobs[m]) /\ CollP!Declared(jobs[m])
<1>1. jobs \in Seq(Units)
  BY UnitsAssumption DEF Running
<1>2. jobs[m] \in Units
  BY <1>1
<1> QED
  BY <1>2, UnitsFit

LEMMA RunningInit == Init => Running
<1> SUFFICES ASSUME Init PROVE Running
  OBVIOUS
<1>1. objs = << >> /\ failed = FALSE /\ n = 1 /\ pc = "job" /\ jobs \in JobLists
  BY DEF Init
<1>2. objs \in Seq(CollP!ObjectSet(Len(objs))) /\ failed \in BOOLEAN /\ n \in Nat \ {0}
  <2>1. ASSUME NEW T PROVE << >> \in Seq(T)
    OBVIOUS
  <2>2. objs \in Seq(CollP!ObjectSet(Len(objs)))
    BY <1>1, <2>1
  <2>3. failed \in BOOLEAN
    BY <1>1, Zenon
  <2>4. n \in Nat \ {0}
    BY <1>1
  <2> QED
    BY <2>2, <2>3, <2>4
<1> QED
  BY <1>1, <1>2 DEF Running

LEMMA RunningGathers == ASSUME Running, GatherDecls PROVE Running' /\ \A b : b = Len(objs) => CollP!Since(b)'
<1>1. /\ pc = "job" /\ n <= Len(jobs) /\ pc' = "collect" /\ UNCHANGED <<jobs, filter, n, k, objs, failed>>
      /\ ast' = [kind |-> Unit.kind, parts |-> Unit.parts, decls |-> Decls(filter, Unit)]
      /\ decls' = Decls(filter, Unit)
      /\ types' = << >> /\ stack' = << >> /\ ret' = 0 /\ cur' = {} /\ latest' = 0 /\ exports' = << >>
  BY DEF GatherDecls, Coll!Begin, Coll!Null
<1>2. n \in 1 .. Len(jobs)
  BY <1>1 DEF Running
<1>3. CollP!Convertible(Unit) /\ CollP!Declared(Unit)
  BY <1>2, JobIsUnit DEF Unit
<1>4. CollP!Convertible(ast')
  BY <1>1, <1>3 DEF CollP!Convertible
<1>5. CollP!Declared(ast')
  <2>1. Decls(filter, Unit) \subseteq Unit.decls
    BY DEF Decls
  <2> QED
    BY <1>1, <1>3, <2>1 DEF CollP!Declared
<1>6. CollP!Typed'
  <2>1. objs' \in Seq(CollP!ObjectSet(Len(objs'))) /\ Len(objs') \in Nat /\ failed' \in BOOLEAN
    BY <1>1 DEF Running
  <2>2. ret' \in 0 .. Len(objs') /\ latest' \in 0 .. Len(objs')
    BY <1>1, <2>1
  <2>3. /\ types' \in Seq(CollP!ReprSet(Len(objs'))) /\ stack' \in Seq(CollP!FrameSet(Len(objs')))
        /\ (exports \in Seq(CollP!ExportSet(Len(objs))))'
    BY <1>1
  <2>4. decls' \subseteq ast'.decls /\ cur' \subseteq ast'.decls \ decls'
    BY <1>1
  <2>5. CollP!Convertible(ast)' /\ CollP!Declared(ast)'
    BY <1>4, <1>5
  <2> QED
    BY <2>1, <2>2, <2>3, <2>4, <2>5 DEF CollP!Typed
<1>7. /\ CollP!Chained' /\ CollP!Recorded' /\ CollP!Indexed' /\ CollP!Shaped'
      /\ CollP!Visited' /\ CollP!Exported' /\ CollP!OneDangling'
  BY <1>1 DEF CollP!Chained, CollP!Recorded, CollP!Indexed, CollP!KeysUnique, CollP!OwnFirst, CollP!Shaped,
     CollP!Visited, CollP!Exported, CollP!OneDangling, CollP!Null
<1>8. Running'
  BY <1>1, <1>6, <1>7 DEF Running, Collecting, OfUnit, Unit, CollP!CollectorInv, CollP!Typed
<1>9. ASSUME NEW b, b = Len(objs) PROVE CollP!Since(b)'
  <2>1. b \in 0 .. Len(objs') /\ \A o \in b + 1 .. Len(objs') : FALSE
    BY <1>1, <1>9 DEF Running
  <2> QED
    BY <1>1, <2>1 DEF CollP!Since, CollP!EnteredSince
<1> QED
  BY <1>8, <1>9

LEMMA RunningStep == ASSUME Running, [Next]_vars PROVE Running'
<1> USE DEF collector, collects
<1>1. CASE GatherDecls
  BY <1>1, RunningGathers
<1>2. CASE GatherFails
  BY <1>2 DEF GatherFails, Running
<1>3. CASE Collect
  <2>1. pc = "collect" /\ CollP!CollStep /\ UNCHANGED <<jobs, filter, n, pc>>
    BY <1>3, SameStep DEF Collect
  <2>2. Collecting
    BY <2>1 DEF Running
  <2>3. CollP!CollectorInv' /\ ast' = ast
    BY <2>1, <2>2, CollectorSteps DEF Collecting
  <2>4. objs' \in Seq(CollP!ObjectSet(Len(objs'))) /\ failed' \in BOOLEAN
    BY <2>3 DEF CollP!CollectorInv, CollP!Typed
  <2> QED
    BY <2>1, <2>2, <2>3, <2>4 DEF Running, Collecting, OfUnit, Unit
<1>4. CASE CollectFails
  BY <1>4 DEF CollectFails, Running
<1>5. CASE StartSort
  <2>1. pc = "collect" /\ CollP!Collected /\ pc' = "sort" /\ UNCHANGED <<jobs, filter, n, objs, collector>>
    BY <1>5 DEF StartSort, Coll!Collected, CollP!Collected
  <2>2. Collecting
    BY <2>1 DEF Running
  <2>3. CollP!CollectorInv'
    BY <2>1, <2>2, CollectorStays DEF Collecting
  <2> QED
    BY <2>1, <2>2, <2>3 DEF Running, Collecting, OfUnit, Unit, CollP!Collected
<1>6. CASE SortTypes
  <2>1. pc = "sort" /\ UNCHANGED <<jobs, filter, n, pc, objs, collector>>
    BY <1>6 DEF SortTypes
  <2>2. Collecting
    BY <2>1 DEF Running
  <2>3. CollP!CollectorInv'
    BY <2>1, <2>2, CollectorStays DEF Collecting
  <2> QED
    BY <2>1, <2>2, <2>3 DEF Running, Collecting, OfUnit, Unit, CollP!Collected
<1>7. CASE AddExports
  <2>1. pc = "sort" /\ pc' = "types" /\ UNCHANGED <<jobs, n, objs, collector>>
    BY <1>7 DEF AddExports
  <2> QED
    BY <2>1 DEF Running, Collecting
<1>8. CASE AddType
  BY <1>8 DEF AddType, Running
<1>9. CASE NextJob
  <2>1. pc' = "job" /\ n' = n + 1 /\ UNCHANGED <<jobs, objs, collector>>
    BY <1>9 DEF NextJob
  <2> QED
    BY <2>1 DEF Running
<1>10. CASE Write
  BY <1>10 DEF Write, Running
<1>11. CASE WriteStep
  <2>1. pc = "write" /\ UNCHANGED <<jobs, n, collector>>
    BY <1>11 DEF WriteStep
  <2>2. objs' = objs
    BY <1>11 DEF WriteStep, Writer!Step, Writer!Start, Writer!WriteType, Writer!TypeMissing, Writer!WriteExport,
       Writer!ExportMissing, Writer!PrintCatalog, Writer!input
  <2>3. pc' \in {"write", "written", "error", "overflow"}
    BY <1>11, <2>1 DEF WriteStep
  <2> QED
    BY <2>1, <2>2, <2>3 DEF Running
<1>12. CASE Gone \/ UNCHANGED vars
  <2>1. UNCHANGED <<jobs, filter, n, pc, objs, collector>>
    BY <1>12 DEF Gone, vars
  <2>2. pc \in {"collect", "sort"} => CollP!CollectorInv'
    BY <2>1, CollectorStays DEF Running, Collecting
  <2> QED
    BY <2>1, <2>2 DEF Running, Collecting, OfUnit, Unit, CollP!Collected
<1> QED
  BY <1>1, <1>2, <1>3, <1>4, <1>5, <1>6, <1>7, <1>8, <1>9, <1>10, <1>11, <1>12 DEF Next, Step

-------------------------------------------------------------------------------
(* What the jobs leave behind.                                               *)

\* T is a table <<qualified clang type, object>> of a unit u: whether an object
\* has the shape of a type.
QualifiedIn(T, t, o) ==
  /\ objs[o].kind = "qualified"
  /\ Len(objs[o].kids) = 1
  /\ <<<<t, "none">>, objs[o].kids[1]>> \in T

PlainIn(u, T, t, o) ==
  IF u.kind[t] = "sugar" THEN <<u.parts[t][1], o>> \in T
  ELSE /\ objs[o].kind = u.kind[t]
       /\ Len(objs[o].kids) = Len(u.parts[t])
       /\ \A m \in 1 .. Len(objs[o].kids) : <<u.parts[t][m], objs[o].kids[m]>> \in T

ShapeIn(u, T, q, o) ==
  IF q[2] = "fast" THEN QualifiedIn(T, q[1], o)
  ELSE PlainIn(u, T, q[1], o) \/ (Coll!Mixed(u, q[1]) /\ QualifiedIn(T, q[1], o))

\* T is right about the first b objects and about the exports of the job m.
Translation(m, T, b) ==
  /\ T \subseteq CollP!QualTypes \X (1 .. b)
  /\ \A q \in CollP!QualTypes : \A o \in 1 .. b : <<q, o>> \in T => ShapeIn(jobs[m], T, q, o)
  /\ \A e \in catExports :
       e.job = m => e.decl \in Wanted(jobs[m]) /\ <<e.decl.type, e.type>> \in T
  /\ \A d \in Wanted(jobs[m]) : \E e \in catExports : e.job = m /\ e.decl = d

Translated(m, b) == \E T : Translation(m, T, b)

\* A job exports a declaration once, and only the jobs so far have exports.
ExportsOnce ==
  /\ \A e, f \in catExports : e.job = f.job /\ e.decl = f.decl => e = f
  /\ \A e \in catExports : e.job \in 1 .. Len(jobs) /\ e.job <= n /\ (e.job = n => pc = "types")

\* The first b objects are those of the jobs before the one that is going on.
Remembered ==
  /\ pc \in {"job", "write", "written"} => \A m \in 1 .. Len(jobs) : m < n => Translated(m, Len(objs))
  /\ pc = "types" => \A m \in 1 .. Len(jobs) : m <= n => Translated(m, Len(objs))
  /\ pc \in {"collect", "sort"} =>
       \E b \in Nat : CollP!Since(b) /\ \A m \in 1 .. Len(jobs) : m < n => Translated(m, b)

\* Old objects and old exports stay: what is right about them stays so.
LEMMA TranslatedStays ==
  ASSUME jobs' = jobs, filter' = filter, NEW m, NEW b \in Nat, NEW c \in Nat, b <= c,
         \A o \in 1 .. b : objs'[o] = objs[o],
         \A e : e.job = m => (e \in catExports' <=> e \in catExports),
         Translated(m, b)
  PROVE  Translated(m, c)'
<1>1. PICK T : Translation(m, T, b)
  BY DEF Translated
<1>2. PICK u : u = jobs[m]
  OBVIOUS
<1>3. T \subseteq CollP!QualTypes \X (1 .. b)
  BY <1>1 DEF Translation
<1>4. T \subseteq CollP!QualTypes \X (1 .. c)
  <2>1. 1 .. b \subseteq 1 .. c
    OBVIOUS
  <2> QED
    BY <1>3, <2>1
<1>5. ASSUME NEW q \in CollP!QualTypes, NEW o \in 1 .. c, <<q, o>> \in T PROVE ShapeIn(u, T, q, o)'
  <2>1. o \in 1 .. b
    BY <1>3, <1>5
  <2>2. ShapeIn(u, T, q, o) /\ objs'[o] = objs[o]
    BY <1>1, <1>2, <1>5, <2>1 DEF Translation
  <2> QED
    BY <2>2 DEF ShapeIn, PlainIn, QualifiedIn
<1>6. (Wanted(u) = Wanted(u)') /\ jobs'[m] = u
  BY <1>2 DEF Wanted
<1>7. \A e \in catExports' : e.job = m => e.decl \in Wanted(u) /\ <<e.decl.type, e.type>> \in T
  BY <1>1, <1>2 DEF Translation
<1>8. \A d \in Wanted(u) : \E e \in catExports' : e.job = m /\ e.decl = d
  BY <1>1, <1>2 DEF Translation
<1>9. Translation(m, T, c)'
  <2>1. \A q \in CollP!QualTypes : \A o \in 1 .. c : <<q, o>> \in T => ShapeIn(jobs[m], T, q, o)'
    <3>1. \A q, o : ShapeIn(jobs[m], T, q, o)' <=> ShapeIn(u, T, q, o)'
      BY <1>6 DEF ShapeIn, PlainIn
    <3> QED
      BY <1>5, <3>1
  <2>2. \A e \in catExports' : e.job = m => e.decl \in Wanted(jobs[m])' /\ <<e.decl.type, e.type>> \in T
    BY <1>2, <1>6, <1>7 DEF Wanted
  <2>3. \A d \in Wanted(jobs[m])' : \E e \in catExports' : e.job = m /\ e.decl = d
    BY <1>2, <1>6, <1>8 DEF Wanted
  <2> QED
    BY <1>4, <2>1, <2>2, <2>3 DEF Translation
<1> QED
  BY <1>9 DEF Translated

\* Fewer declarations have fewer types with extended qualifiers.
LEMMA MixedOfUnit ==
  ASSUME OfUnit, NEW t, CollP!Mixed(ast, t)
  PROVE  Coll!Mixed(Unit, t)
<1>1. ast.parts = Unit.parts /\ ast.decls \subseteq Unit.decls
  BY DEF OfUnit, Decls
<1> QED
  BY <1>1 DEF CollP!Mixed, Coll!Mixed

\* What the objects stand for is the table of the job.
LEMMA CollectedTranslates ==
  ASSUME CollP!CollectorInv, CollP!Collected, OfUnit, ExportsOnce, pc = "sort",
         NEW m, m = n, m \in 1 .. Len(jobs), jobs' = jobs, filter' = filter, objs' = objs,
         NEW X, X = {[job |-> n, decl |-> exports[x].decl, type |-> exports[x].type] : x \in 1 .. Len(exports)},
         catExports' = catExports \union X
  PROVE  Translated(m, Len(objs))'
<1>1. PICK u, b, T : /\ u = jobs[m] /\ b = Len(objs)
                     /\ T = {p \in CollP!QualTypes \X (1 .. b) : CollP!Stands(p[1], p[2])}
  OBVIOUS
<1>2. /\ CollP!Typed /\ CollP!Exported /\ CollP!Visited /\ stack = << >> /\ decls = {} /\ cur = {} /\ b \in Nat
  <2>1. stack = << >> /\ decls = {} /\ cur = {}
    BY DEF CollP!CollectorInv, CollP!Collected, CollP!Visited
  <2> QED
    BY <1>1, <2>1, UnitsFit, CollP!Resting
<1>3. \A q \in CollP!QualTypes : \A o : CollP!Stands(q, o) => <<q, o>> \in T
  <2>1. \A q \in CollP!QualTypes : \A o : CollP!Stands(q, o) => o \in 1 .. b
    BY <1>1, <1>2, UnitsFit, CollP!StandsShape
  <2> QED
    BY <1>1, <2>1
<1>4. T \subseteq CollP!QualTypes \X (1 .. b)
  BY <1>1
<1>5. /\ u = Unit /\ ast.kind = u.kind /\ ast.parts = u.parts /\ ast.decls = Decls(filter, u)
      /\ \A t : CollP!KindOf(t) = u.kind[t] /\ CollP!PartsOf(t) = u.parts[t]
  BY <1>1 DEF OfUnit, Unit, CollP!KindOf, CollP!PartsOf
<1>6. ASSUME NEW t \in ClangTypes, NEW o, CollP!Wraps(t, o) PROVE QualifiedIn(T, t, o)
  <2>1. <<t, "none">> \in CollP!QualTypes
    BY DEF CollP!QualTypes, CollP!Quals
  <2> QED
    BY <1>3, <1>6, <2>1 DEF CollP!Wraps, QualifiedIn
<1>7. ASSUME NEW t \in ClangTypes, NEW o, CollP!Unwrapped(t, o) PROVE PlainIn(u, T, t, o)
  <2>1. /\ CollP!PartsOf(t) \in Seq(CollP!QualTypes) /\ Len(CollP!PartsOf(t)) \in Nat
        /\ CollP!KindOf(t) = "sugar" => Len(CollP!PartsOf(t)) = 1
    BY <1>2, UnitsFit, CollP!PartsTyped
  <2>2. \A r \in 1 .. Len(u.parts[t]) : u.parts[t][r] \in CollP!QualTypes
    BY <1>5, <2>1
  <2>3. CASE u.kind[t] = "sugar"
    <3>1. CollP!Stands(u.parts[t][1], o) /\ 1 \in 1 .. Len(u.parts[t])
      BY <1>5, <1>7, <2>1, <2>3 DEF CollP!Unwrapped
    <3> QED
      BY <1>3, <2>2, <2>3, <3>1 DEF PlainIn
  <2>4. CASE u.kind[t] # "sugar"
    <3>1. /\ objs[o].kind = u.kind[t] /\ Len(objs[o].kids) = Len(u.parts[t])
          /\ \A r \in 1 .. Len(objs[o].kids) : CollP!Stands(u.parts[t][r], objs[o].kids[r])
      BY <1>5, <1>7, <2>4 DEF CollP!Unwrapped
    <3>2. \A r \in 1 .. Len(objs[o].kids) : <<u.parts[t][r], objs[o].kids[r]>> \in T
      BY <1>3, <2>2, <3>1
    <3> QED
      BY <2>4, <3>1, <3>2 DEF PlainIn
  <2> QED
    BY <2>3, <2>4
<1>8. ASSUME NEW q, NEW o, <<q, o>> \in T PROVE ShapeIn(u, T, q, o)
  <2>1. q \in CollP!QualTypes /\ CollP!Stands(q, o) /\ q[1] \in ClangTypes
    BY <1>1, <1>8 DEF CollP!QualTypes
  <2>2. IF q[2] = "fast" THEN CollP!Wraps(q[1], o)
        ELSE CollP!Unwrapped(q[1], o) \/ (CollP!Mixed(ast, q[1]) /\ CollP!Wraps(q[1], o))
    BY <1>2, <2>1, UnitsFit, CollP!StandsShape
  <2>3. CollP!Mixed(ast, q[1]) => Coll!Mixed(u, q[1])
    BY <1>5, MixedOfUnit
  <2> QED
    BY <1>6, <1>7, <2>1, <2>2, <2>3 DEF ShapeIn
<1>9. ASSUME NEW d \in ast.decls, NEW o, CollP!DeclaredAs(d, o) PROVE <<d.type, o>> \in T
  <2>1. d.type \in CollP!QualTypes /\ (d.kind \in {"record", "enum"} => d.type[2] = "none")
    BY <1>2 DEF CollP!Typed, CollP!Declared
  <2>2. CollP!Stands(d.type, o)
    <3>1. CASE d.kind \in {"record", "enum"}
      <4>1. CollP!Converts(d.type[1], o) /\ d.type[1] \in ClangTypes /\ d.type = <<d.type[1], "none">>
        BY <1>9, <2>1, <3>1 DEF CollP!DeclaredAs, CollP!QualTypes
      <4>2. CollP!Stands(<<d.type[1], "none">>, o)
        BY <4>1, UnitsFit, CollP!ConvertsStands
      <4> QED
        BY <4>1, <4>2
    <3>2. CASE d.kind \notin {"record", "enum"}
      BY <1>9, <3>2 DEF CollP!DeclaredAs
    <3> QED
      BY <3>1, <3>2
  <2> QED
    BY <1>3, <2>1, <2>2
<1>10. \A e \in catExports' : e.job = m <=> e \in X
  BY DEF ExportsOnce
<1>11. ASSUME NEW e \in X PROVE e.decl \in Wanted(u) /\ <<e.decl.type, e.type>> \in T
  <2>1. PICK x \in 1 .. Len(exports) : e.decl = exports[x].decl /\ e.type = exports[x].type
    OBVIOUS
  <2>2. exports[x].decl \in ast.decls /\ exports[x].decl.kind # "alias" /\ CollP!DeclaredAs(exports[x].decl, exports[x].type)
    BY <1>2 DEF CollP!Exported
  <2> QED
    BY <1>5, <1>9, <2>1, <2>2 DEF Wanted, WantedBy
<1>12. ASSUME NEW d \in Wanted(u) PROVE \E e \in X : e.job = m /\ e.decl = d
  <2>1. d \in ast.decls /\ d.kind # "alias"
    BY <1>5 DEF Wanted, WantedBy
  <2>2. PICK x \in 1 .. Len(exports) : exports[x].decl = d
    BY <1>2, <2>1 DEF CollP!Exported
  <2>3. PICK e : e = [job |-> n, decl |-> exports[x].decl, type |-> exports[x].type]
    OBVIOUS
  <2>4. e \in X
    BY <2>3
  <2> QED
    BY <2>2, <2>3, <2>4
<1>13. Translation(m, T, b)'
  <2>1. jobs'[m] = u /\ Wanted(u)' = Wanted(u)
    BY <1>1 DEF Wanted
  <2>2. \A q, o : ShapeIn(jobs[m], T, q, o)' <=> ShapeIn(u, T, q, o)
    BY <2>1 DEF ShapeIn, PlainIn, QualifiedIn
  <2>4. Wanted(jobs[m])' = Wanted(u)
    BY <2>1 DEF Wanted
  <2>5. \A e \in catExports' : e.job = m => e.decl \in Wanted(jobs[m])' /\ <<e.decl.type, e.type>> \in T
    BY <1>10, <1>11, <2>4
  <2>6. \A d \in Wanted(jobs[m])' : \E e \in catExports' : e.job = m /\ e.decl = d
    BY <1>10, <1>12, <2>4
  <2>7. \A q \in CollP!QualTypes : \A o \in 1 .. b : <<q, o>> \in T => ShapeIn(jobs[m], T, q, o)'
    BY <1>8, <2>2
  <2> QED
    BY <1>4, <2>5, <2>6, <2>7 DEF Translation
<1> QED
  BY <1>1, <1>13 DEF Translated

LEMMA RememberedInit == Init => ExportsOnce /\ Remembered
<1> SUFFICES ASSUME Init PROVE ExportsOnce /\ Remembered
  OBVIOUS
<1>1. catExports = {} /\ n = 1 /\ pc = "job"
  BY DEF Init, Cat!CatalogInit
<1>2. \A m \in 1 .. Len(jobs) : ~ (m < n)
  BY <1>1
<1> QED
  BY <1>1, <1>2 DEF ExportsOnce, Remembered

LEMMA ExportsStay ==
  ASSUME ExportsOnce, n \in Nat, jobs' = jobs, catExports' = catExports, n' = n \/ n' = n + 1,
         n' = n => (pc = "types" => pc' = "types")
  PROVE  ExportsOnce'
<1>1. \A e \in catExports : e.job \in 1 .. Len(jobs) /\ e.job <= n' /\ (e.job = n' => pc' = "types")
  BY DEF ExportsOnce
<1> QED
  BY <1>1 DEF ExportsOnce

LEMMA OnceStep == ASSUME Running, ExportsOnce, [Next]_vars PROVE ExportsOnce'
<1>1. n \in Nat
  BY DEF Running
<1>2. CASE AddExports
  <2>1. PICK X : X = {[job |-> n, decl |-> exports[m].decl, type |-> exports[m].type] : m \in 1 .. Len(exports)}
    OBVIOUS
  <2>2. catExports' = catExports \union X /\ UNCHANGED <<jobs, n>> /\ pc = "sort" /\ pc' = "types"
    BY <1>2, <2>1 DEF AddExports
  <2>3. n \in 1 .. Len(jobs) /\ CollP!Exported
    BY <1>1, <2>2 DEF Running, Collecting, CollP!CollectorInv
  <2>4. \A e \in X : e.job = n
    BY <2>1
  <2>5. \A e \in catExports : e.job \in 1 .. Len(jobs) /\ e.job <= n /\ e.job # n
    BY <2>2 DEF ExportsOnce
  <2>6. ASSUME NEW e \in X, NEW f \in X, e.decl = f.decl PROVE e = f
    <3>1. PICK x \in 1 .. Len(exports) : e = [job |-> n, decl |-> exports[x].decl, type |-> exports[x].type]
      BY <2>1
    <3>2. PICK y \in 1 .. Len(exports) : f = [job |-> n, decl |-> exports[y].decl, type |-> exports[y].type]
      BY <2>1
    <3>3. x = y
      BY <2>3, <2>6, <3>1, <3>2 DEF CollP!Exported
    <3> QED
      BY <3>1, <3>2, <3>3
  <2>7. \A e, f \in catExports' : e.job = f.job /\ e.decl = f.decl => e = f
    BY <2>2, <2>4, <2>5, <2>6 DEF ExportsOnce
  <2>8. \A e \in catExports' : e.job \in 1 .. Len(jobs') /\ e.job <= n' /\ (e.job = n' => pc' = "types")
    BY <1>1, <2>2, <2>3, <2>4, <2>5
  <2> QED
    BY <2>7, <2>8 DEF ExportsOnce
<1>3. CASE GatherDecls \/ GatherFails \/ Collect \/ CollectFails \/ StartSort \/ SortTypes \/ AddType \/ Write
  <2>1. UNCHANGED <<jobs, n, catExports>> /\ (pc = "types" => pc' = "types")
    BY <1>3 DEF GatherDecls, GatherFails, Collect, CollectFails, StartSort, SortTypes, AddType, Write, catalog,
       Cat!addType
  <2> QED
    BY <1>1, <2>1, ExportsStay
<1>4. CASE NextJob
  <2>1. UNCHANGED <<jobs, catExports>> /\ n' = n + 1
    BY <1>4 DEF NextJob, catalog
  <2> QED
    BY <1>1, <2>1, ExportsStay
<1>5. CASE WriteStep
  <2>1. pc = "write" /\ UNCHANGED <<jobs, n>>
    BY <1>5 DEF WriteStep
  <2>2. catExports' = catExports
    BY <1>5 DEF WriteStep, Writer!Step, Writer!Start, Writer!WriteType, Writer!TypeMissing, Writer!WriteExport,
       Writer!ExportMissing, Writer!PrintCatalog, Writer!input
  <2> QED
    BY <1>1, <2>1, <2>2, ExportsStay
<1>6. CASE Gone \/ UNCHANGED vars
  <2>1. UNCHANGED <<jobs, n, pc, catExports>>
    BY <1>6 DEF Gone, vars, catalog
  <2> QED
    BY <1>1, <2>1, ExportsStay
<1> QED
  BY <1>2, <1>3, <1>4, <1>5, <1>6 DEF Next, Step

\* Nothing that the table of a job is about has changed.
LEMMA AllStay ==
  ASSUME jobs' = jobs, filter' = filter, objs' = objs, catExports' = catExports
  PROVE  \A m : \A b \in Nat : Translated(m, b) => Translated(m, b)'
<1> SUFFICES ASSUME NEW m, NEW b \in Nat, Translated(m, b) PROVE Translated(m, b)'
  OBVIOUS
<1> QED
  BY TranslatedStays

LEMMA RememberedStep ==
  ASSUME Running, ExportsOnce, Remembered, [Next]_vars PROVE Remembered'
<1> USE DEF collector, collects, catalog
<1>1. Len(objs) \in Nat /\ n \in Nat
  BY DEF Running
<1>2. ASSUME UNCHANGED <<jobs, filter, objs, catExports>> PROVE \A m : \A b \in Nat : Translated(m, b) => Translated(m, b)'
  BY <1>2, AllStay
<1>3. CASE GatherDecls
  <2>1. pc = "job" /\ pc' = "collect" /\ UNCHANGED <<jobs, filter, n, objs, catExports>>
    BY <1>3 DEF GatherDecls, Coll!Begin
  <2>2. PICK b \in Nat : b = Len(objs)
    BY <1>1
  <2>3. CollP!Since(b)'
    BY <1>3, <2>2, RunningGathers
  <2>4. \A m \in 1 .. Len(jobs) : m < n => Translated(m, b)'
    BY <1>2, <2>1, <2>2 DEF Remembered
  <2> QED
    BY <2>1, <2>3, <2>4 DEF Remembered
<1>4. CASE GatherFails \/ CollectFails
  BY <1>4 DEF GatherFails, CollectFails, Remembered
<1>5. CASE Collect
  <2>1. pc = "collect" /\ pc' = "collect" /\ CollP!CollStep /\ UNCHANGED <<jobs, filter, n, catExports>>
    BY <1>5, SameStep DEF Collect
  <2>2. PICK b \in Nat : CollP!Since(b) /\ \A m \in 1 .. Len(jobs) : m < n => Translated(m, b)
    BY <2>1 DEF Remembered
  <2>3. CollP!Since(b)' /\ \A o \in 1 .. b : objs'[o] = objs[o]
    BY <2>1, <2>2, CollectorSince DEF Running, Collecting
  <2>4. \A m \in 1 .. Len(jobs) : m < n => Translated(m, b)'
    BY <2>1, <2>2, <2>3, TranslatedStays
  <2> QED
    BY <2>1, <2>3, <2>4 DEF Remembered
<1>6. CASE StartSort \/ SortTypes
  <2>1. pc \in {"collect", "sort"} /\ pc' = "sort" /\ UNCHANGED <<jobs, filter, n, objs, catExports, collects>>
    BY <1>6 DEF StartSort, SortTypes
  <2>2. PICK b \in Nat : CollP!Since(b) /\ \A m \in 1 .. Len(jobs) : m < n => Translated(m, b)
    BY <2>1 DEF Remembered
  <2>3. CollP!Since(b)'
    BY <2>1, <2>2, CollectorStays DEF Running, Collecting
  <2>4. \A m \in 1 .. Len(jobs) : m < n => Translated(m, b)'
    BY <1>2, <2>1, <2>2
  <2> QED
    BY <2>1, <2>3, <2>4 DEF Remembered
<1>7. CASE AddExports
  <2>1. PICK X : X = {[job |-> n, decl |-> exports[x].decl, type |-> exports[x].type] : x \in 1 .. Len(exports)}
    OBVIOUS
  <2>2. /\ pc = "sort" /\ pc' = "types" /\ UNCHANGED <<jobs, filter, n, objs>>
        /\ catExports' = catExports \union X
    BY <1>7, <2>1 DEF AddExports
  <2>3. CollP!CollectorInv /\ CollP!Collected /\ OfUnit /\ n \in 1 .. Len(jobs)
    BY <1>1, <2>2 DEF Running, Collecting
  <2>4. Translated(n, Len(objs))'
    <3>1. PICK m : m = n
      OBVIOUS
    <3>2. Translated(m, Len(objs))'
      BY <2>1, <2>2, <2>3, <3>1, CollectedTranslates
    <3> QED
      BY <2>2, <3>1, <3>2
  <2>5. PICK b \in Nat : CollP!Since(b) /\ \A m \in 1 .. Len(jobs) : m < n => Translated(m, b)
    BY <2>2 DEF Remembered
  <2>6. PICK c \in Nat : c = Len(objs) /\ b <= c
    BY <1>1, <2>5 DEF CollP!Since, CollP!EnteredSince
  <2>7. ASSUME NEW m \in 1 .. Len(jobs), m < n PROVE Translated(m, c)'
    <3>1. \A e : e.job = m => (e \in catExports' <=> e \in catExports)
      BY <1>1, <2>1, <2>2, <2>7
    <3>2. Translated(m, b)
      BY <2>5, <2>7
    <3> QED
      BY <2>2, <2>6, <3>1, <3>2, TranslatedStays
  <2>8. \A m \in 1 .. Len(jobs) : m < n => Translated(m, Len(objs))'
    BY <2>2, <2>6, <2>7
  <2>9. \A m \in 1 .. Len(jobs) : m <= n => m < n \/ m = n
    BY <1>1
  <2> QED
    BY <2>2, <2>4, <2>8, <2>9 DEF Remembered
<1>8. CASE AddType
  <2>1. pc = "types" /\ pc' = "types" /\ UNCHANGED <<jobs, filter, n, objs, catExports>>
    BY <1>8 DEF AddType, Cat!addType
  <2>2. \A m \in 1 .. Len(jobs) : m <= n => Translated(m, Len(objs))'
    BY <1>1, <1>2, <2>1 DEF Remembered
  <2> QED
    BY <2>1, <2>2 DEF Remembered
<1>9. CASE NextJob
  <2>1. pc = "types" /\ pc' = "job" /\ n' = n + 1 /\ UNCHANGED <<jobs, filter, objs, catExports>>
    BY <1>9 DEF NextJob
  <2>2. \A m \in 1 .. Len(jobs) : m < n' => Translated(m, Len(objs))'
    BY <1>1, <1>2, <2>1 DEF Remembered
  <2> QED
    BY <2>1, <2>2 DEF Remembered
<1>10. CASE Write \/ WriteStep \/ Gone \/ UNCHANGED vars
  <2>1. UNCHANGED <<jobs, filter, n, objs, catExports>>
    <3>1. CASE WriteStep
      BY <3>1 DEF WriteStep, Writer!Step, Writer!Start, Writer!WriteType, Writer!TypeMissing, Writer!WriteExport,
         Writer!ExportMissing, Writer!PrintCatalog, Writer!input
    <3>2. CASE Write \/ Gone \/ UNCHANGED vars
      BY <3>2 DEF Write, Gone, vars
    <3> QED
      BY <1>10, <3>1, <3>2
  <2>2. CASE Write \/ WriteStep
    <3>1. pc \in {"job", "write"} /\ pc' \in {"write", "written", "error", "overflow"}
      BY <2>2 DEF Write, WriteStep
    <3>2. \A m \in 1 .. Len(jobs) : m < n => Translated(m, Len(objs))'
      BY <1>1, <1>2, <2>1, <3>1 DEF Remembered
    <3> QED
      BY <2>1, <3>1, <3>2 DEF Remembered
  <2>3. CASE Gone \/ UNCHANGED vars
    <3>1. UNCHANGED pc /\ UNCHANGED collects
      BY <2>3 DEF Gone, vars
    <3>2. \A m : Translated(m, Len(objs)) => Translated(m, Len(objs))'
      BY <1>1, <1>2, <2>1
    <3>3. CASE pc \in {"collect", "sort"}
      <4>1. PICK b \in Nat : CollP!Since(b) /\ \A m \in 1 .. Len(jobs) : m < n => Translated(m, b)
        BY <3>3 DEF Remembered
      <4>2. CollP!Since(b)'
        BY <3>1, <3>3, <4>1, CollectorStays DEF Running, Collecting
      <4>3. \A m \in 1 .. Len(jobs) : m < n => Translated(m, b)'
        BY <1>2, <2>1, <4>1
      <4> QED
        BY <2>1, <3>1, <3>3, <4>2, <4>3 DEF Remembered
    <3> QED
      BY <2>1, <3>1, <3>2, <3>3 DEF Remembered
  <2> QED
    BY <1>10, <2>2, <2>3
<1> QED
  BY <1>3, <1>4, <1>5, <1>6, <1>7, <1>8, <1>9, <1>10 DEF Next, Step

-------------------------------------------------------------------------------
(* What is written.                                                          *)

\* A sequence, of whatever.
IsSeq(s) == \E V : s \in Seq(V)

\* A message says of its type what the object says, by numbers; an export is
\* written once, with the number of its type.
MessageFits(m) ==
  LET o == typeSeq[m] IN
    /\ messages[m].kind = objs[o].kind
    /\ messages[m].refs = [r \in 1 .. Len(objs[o].kids) |-> index[objs[o].kids[r]]]
    /\ \A r \in 1 .. Len(objs[o].kids) : objs[o].kids[r] \in DOMAIN index

WriterInv ==
  /\ IsSeq(typeSeq) /\ IsSeq(messages)
  /\ pc \notin {"write", "written", "error", "overflow"} => wpc = "new"
  /\ pc = "written" => wpc = "written"
  /\ wpc \in {"types", "written"} =>
       /\ index = Writer!CountMap(typeSeq)
       /\ \A m \in 1 .. Len(messages) : MessageFits(m)
       /\ Len(messages) <= Len(typeSeq)
       /\ \A x \in exported : x.export \in catExports /\ x.export.type \in DOMAIN index /\ x.type = index[x.export.type]
       /\ \A x, y \in exported : x.export = y.export => x = y
  /\ wpc = "written" =>
       /\ Len(messages) = Len(typeSeq)
       /\ \A e \in catExports : \E x \in exported : x.export = e

LEMMA SeqAppend ==
  ASSUME NEW s, IsSeq(s), NEW e
  PROVE  /\ IsSeq(Append(s, e)) /\ Len(s) \in Nat /\ Len(Append(s, e)) = Len(s) + 1
         /\ \A m \in 1 .. Len(s) : Append(s, e)[m] = s[m]
         /\ Append(s, e)[Len(s) + 1] = e
<1>1. PICK V : s \in Seq(V)
  BY DEF IsSeq
<1>2. PICK W : W = V \union {e}
  OBVIOUS
<1>3. s \in Seq(W) /\ e \in W
  <2>1. \A A, B : A \subseteq B => Seq(A) \subseteq Seq(B)
    OBVIOUS
  <2> QED
    BY <1>1, <1>2, <2>1
<1> QED
  BY <1>3 DEF IsSeq

\* The number of a type is one of its positions.
LEMMA NumbersPoint ==
  ASSUME NEW s, NEW f, IsSeq(s), f = Writer!CountMap(s)
  PROVE  \A t \in DOMAIN f : f[t] \in 1 .. Len(s) /\ s[f[t]] = t
<1>1. DOMAIN f = {s[m] : m \in 1 .. Len(s)} /\ \A t \in DOMAIN f : f[t] = CHOOSE m \in 1 .. Len(s) : Writer!First(s, t, m)
  BY DEF Writer!CountMap
<1>2. Len(s) \in Nat
  BY DEF IsSeq
<1>3. ASSUME NEW t \in DOMAIN f PROVE \E m \in 1 .. Len(s) : Writer!First(s, t, m)
  <2>1. PICK T : T = {m \in 1 .. Len(s) : s[m] = t}
    OBVIOUS
  <2>2. T # {} /\ T \in SUBSET Nat
    BY <1>1, <1>3, <2>1
  <2>3. PICK x \in T : \A y \in T : x <= y
    BY <2>2, SortP!LeastMember
  <2>4. ASSUME NEW y \in 1 .. x - 1 PROVE s[y] # t
    <3>1. y \in 1 .. Len(s) /\ ~ (x <= y)
      BY <1>2, <2>1, <2>3
    <3> QED
      BY <2>1, <2>3, <3>1
  <2> QED
    BY <2>1, <2>3, <2>4 DEF Writer!First
<1>4. ASSUME NEW t \in DOMAIN f PROVE f[t] \in 1 .. Len(s) /\ s[f[t]] = t
  <2>1. PICK x : x = CHOOSE m \in 1 .. Len(s) : Writer!First(s, t, m)
    OBVIOUS
  <2>2. x \in 1 .. Len(s) /\ Writer!First(s, t, x)
    BY <1>3, <2>1
  <2> QED
    BY <1>1, <2>1, <2>2 DEF Writer!First
<1> QED
  BY <1>1, <1>4

LEMMA NumbersLead ==
  ASSUME WriterInv, wpc = "written"
  PROVE  \A t \in DOMAIN index : index[t] \in 1 .. Len(messages) /\ typeSeq[index[t]] = t
<1>1. IsSeq(typeSeq) /\ index = Writer!CountMap(typeSeq) /\ Len(messages) = Len(typeSeq)
  BY DEF WriterInv
<1>2. PICK s : s = typeSeq
  OBVIOUS
<1>3. PICK f : f = index
  OBVIOUS
<1>4. IsSeq(s) /\ f = Writer!CountMap(s)
  BY <1>1, <1>2, <1>3, Zenon
<1>5. \A t \in DOMAIN f : f[t] \in 1 .. Len(s) /\ s[f[t]] = t
  BY ONLY <1>4, NumbersPoint
<1> QED
  BY <1>1, <1>2, <1>3, <1>5

LEMMA WriterInit == Init => WriterInv
<1> SUFFICES ASSUME Init PROVE WriterInv
  OBVIOUS
<1>1. typeSeq = << >> /\ messages = << >> /\ wpc = "new" /\ pc = "job"
  BY DEF Init, Cat!CatalogInit
<1>2. IsSeq(<< >>)
  <2>1. << >> \in Seq({})
    OBVIOUS
  <2> QED
    BY <2>1 DEF IsSeq
<1> QED
  BY <1>1, <1>2 DEF WriterInv

LEMMA MessagesStay ==
  ASSUME WriterInv, UNCHANGED <<typeSeq, objs, messages, index>>, NEW m, MessageFits(m)
  PROVE  MessageFits(m)'
BY DEF MessageFits

LEMMA WriterSame ==
  ASSUME WriterInv, UNCHANGED <<typeSeq, objs, messages, index, catExports, exported, wpc, pc>>
  PROVE  WriterInv'
<1>1. \A m : MessageFits(m) => MessageFits(m)'
  BY MessagesStay
<1> QED
  BY <1>1 DEF WriterInv

LEMMA WriterWrites == ASSUME WriterInv, WriteStep PROVE WriterInv'
<1>1. /\ pc = "write" /\ Writer!Step /\ pc' = IF wpc' \in {"written", "error", "overflow"} THEN wpc' ELSE pc
      /\ UNCHANGED <<objs, typeSeq, catExports>>
  BY DEF WriteStep, Writer!Step, Writer!Start, Writer!WriteType, Writer!TypeMissing, Writer!WriteExport,
     Writer!ExportMissing, Writer!PrintCatalog, Writer!input
<1>2. IsSeq(typeSeq) /\ IsSeq(messages) /\ Len(typeSeq) \in Nat
  BY DEF WriterInv, IsSeq
<1>3. CASE Writer!Start
  <2>1. index' = Writer!CountMap(typeSeq) /\ messages' = << >> /\ exported' = {} /\ wpc' = "types"
    BY <1>3 DEF Writer!Start
  <2>2. IsSeq(messages')
    <3>1. << >> \in Seq({})
      OBVIOUS
    <3> QED
      BY <2>1, <3>1 DEF IsSeq
  <2>3. pc' = "write"
    BY <1>1, <2>1
  <2>4. Len(messages') = 0 /\ Writer!CountMap(typeSeq)' = Writer!CountMap(typeSeq)
    BY <1>1, <2>1 DEF Writer!CountMap, Writer!First
  <2> QED
    BY <1>1, <1>2, <2>1, <2>2, <2>3, <2>4 DEF WriterInv
<1>4. CASE Writer!WriteType
  <2>1. PICK a : a = Len(messages)
    OBVIOUS
  <2>2. PICK o : o = typeSeq[a + 1]
    OBVIOUS
  <2>3. /\ wpc = "types" /\ a < Len(typeSeq) /\ UNCHANGED <<index, exported, wpc>>
        /\ \A r \in 1 .. Len(objs[o].kids) : objs[o].kids[r] \in DOMAIN index
    BY <1>4, <2>1, <2>2 DEF Writer!WriteType, Writer!Current, Writer!Refs, Writer!HasID
  <2>4. PICK e, f : /\ messages' = Append(messages, e) /\ e.kind = objs[o].kind /\ e.refs = f
                    /\ f = [r \in 1 .. Len(objs[o].kids) |-> index[objs[o].kids[r]]]
    <3>1. PICK f : f = [r \in 1 .. Len(objs[o].kids) |-> index[objs[o].kids[r]]]
      OBVIOUS
    <3>2. PICK e : e = [id |-> index[o], kind |-> objs[o].kind, refs |-> f]
      OBVIOUS
    <3>3. messages' = Append(messages, e)
      BY <1>4, <2>1, <2>2, <3>1, <3>2 DEF Writer!WriteType, Writer!Current, Writer!Refs, Writer!getID
    <3>4. e.kind = objs[o].kind /\ e.refs = f
      BY <3>2
    <3> QED
      BY <3>1, <3>3, <3>4
  <2>5. /\ IsSeq(messages') /\ a \in Nat /\ Len(messages') = a + 1 /\ messages'[a + 1] = e
        /\ \A m \in 1 .. a : messages'[m] = messages[m]
    BY <1>2, <2>1, <2>4, SeqAppend
  <2>6. ASSUME NEW m \in 1 .. a + 1 PROVE MessageFits(m)'
    <3>1. CASE m = a + 1
      BY <1>1, <2>2, <2>3, <2>4, <2>5, <3>1 DEF MessageFits
    <3>2. CASE m # a + 1
      <4>1. m \in 1 .. a
        BY <2>5, <3>2
      <4>2. MessageFits(m)
        BY <2>1, <2>3, <4>1 DEF WriterInv
      <4> QED
        BY <1>1, <2>3, <2>5, <4>1, <4>2 DEF MessageFits
    <3> QED
      BY <3>1, <3>2
  <2>7. pc' = "write" /\ a + 1 <= Len(typeSeq)
    BY <1>1, <1>2, <2>3, <2>5
  <2>8. index' = Writer!CountMap(typeSeq)'
    BY <1>1, <2>3 DEF WriterInv, Writer!CountMap, Writer!First
  <2> QED
    BY <1>1, <1>2, <2>3, <2>5, <2>6, <2>7, <2>8 DEF WriterInv
<1>5. ASSUME NEW e \in Writer!Remaining, Writer!WriteExport(e) PROVE WriterInv'
  <2>1. PICK x : x.export = e /\ x.type = index[e.type] /\ exported' = exported \union {x}
    <3>1. PICK x : x = [export |-> e, type |-> index[e.type]]
      OBVIOUS
    <3> QED
      BY <1>5, <3>1 DEF Writer!WriteExport, Writer!getID
  <2>2. wpc = "types" /\ e.type \in DOMAIN index /\ UNCHANGED <<index, messages, wpc>>
    BY <1>5 DEF Writer!WriteExport, Writer!HasID
  <2>3. e \in catExports /\ \A y \in exported : y.export # e
    BY DEF Writer!Remaining
  <2>4. pc' = "write"
    BY <1>1, <2>2
  <2>5. \A m \in 1 .. Len(messages') : MessageFits(m)'
    BY <1>1, <2>2, MessagesStay DEF WriterInv
  <2>6. index' = Writer!CountMap(typeSeq)'
    BY <1>1, <2>2 DEF WriterInv, Writer!CountMap, Writer!First
  <2>7. \A y \in exported' : y.export \in catExports' /\ y.export.type \in DOMAIN index' /\ y.type = index'[y.export.type]
    BY <1>1, <2>1, <2>2, <2>3 DEF WriterInv
  <2>8. \A y, z \in exported' : y.export = z.export => y = z
    BY <2>1, <2>2, <2>3 DEF WriterInv
  <2> QED
    BY <1>1, <1>2, <2>2, <2>4, <2>5, <2>6, <2>7, <2>8 DEF WriterInv
<1>6. CASE Writer!PrintCatalog
  <2>1. /\ wpc = "types" /\ Len(messages) = Len(typeSeq) /\ Writer!Remaining = {} /\ wpc' = "written"
        /\ UNCHANGED <<index, messages, exported>>
    BY <1>6 DEF Writer!PrintCatalog
  <2>2. pc' = "written"
    BY <1>1, <2>1
  <2>3. \A m \in 1 .. Len(messages') : MessageFits(m)'
    BY <1>1, <2>1, MessagesStay DEF WriterInv
  <2>4. index' = Writer!CountMap(typeSeq)'
    BY <1>1, <2>1 DEF WriterInv, Writer!CountMap, Writer!First
  <2>5. \A e \in catExports' : \E x \in exported' : x.export = e
    BY <1>1, <2>1 DEF Writer!Remaining
  <2> QED
    BY <1>1, <1>2, <2>1, <2>2, <2>3, <2>4, <2>5 DEF WriterInv
<1>7. CASE Writer!TypeMissing \/ \E e \in Writer!Remaining : Writer!ExportMissing(e)
  <2>1. wpc' \in {"error", "overflow"} /\ UNCHANGED messages
    BY <1>7 DEF Writer!TypeMissing, Writer!ExportMissing, Writer!NoID
  <2>2. pc' \in {"error", "overflow"}
    BY <1>1, <2>1
  <2> QED
    BY <1>1, <1>2, <2>1, <2>2 DEF WriterInv
<1> QED
  BY <1>1, <1>3, <1>4, <1>5, <1>6, <1>7 DEF Writer!Step

LEMMA WriterStep == ASSUME WriterInv, [Next]_vars PROVE WriterInv'
<1> USE DEF catalog, writer
<1>1. CASE GatherDecls \/ GatherFails \/ Collect \/ CollectFails \/ StartSort \/ SortTypes \/ AddExports \/ NextJob \/ Write
  <2>1. /\ pc \notin {"write", "written", "error", "overflow"} /\ pc' # "written"
        /\ UNCHANGED <<typeSeq, messages, wpc>>
    BY <1>1 DEF GatherDecls, GatherFails, Collect, CollectFails, StartSort, SortTypes, AddExports, NextJob, Write
  <2> QED
    BY <2>1 DEF WriterInv
<1>2. CASE AddType
  <2>1. pc = "types" /\ UNCHANGED <<pc, messages, wpc>>
    BY <1>2 DEF AddType
  <2>2. typeSeq' = typeSeq \/ typeSeq' = Append(typeSeq, result[k])
    BY <1>2 DEF AddType, Cat!addType
  <2>3. IsSeq(typeSeq')
    <3>1. IsSeq(typeSeq)
      BY DEF WriterInv
    <3>2. \A t : IsSeq(Append(typeSeq, t))
      BY <3>1, SeqAppend
    <3> QED
      BY <2>2, <3>1, <3>2
  <2> QED
    BY <2>1, <2>3 DEF WriterInv
<1>3. CASE WriteStep
  BY <1>3, WriterWrites
<1>4. CASE Gone \/ UNCHANGED vars
  <2>1. UNCHANGED <<typeSeq, objs, messages, index, catExports, exported, wpc, pc>>
    BY <1>4 DEF Gone, vars
  <2> QED
    BY <2>1, WriterSame
<1> QED
  BY <1>1, <1>2, <1>3, <1>4 DEF Next, Step

-------------------------------------------------------------------------------
(* What the output describes.                                                *)

\* What holds at 0, and with every number at the next, holds of every number.
LEMMA Upwards ==
  ASSUME NEW G, 0 \in G, \A m \in Nat : m > 0 /\ m - 1 \in G => m \in G
  PROVE  \A m \in Nat : m \in G
<1> SUFFICES ASSUME NEW T, T = {m \in Nat : m \notin G}, T # {} PROVE FALSE
  OBVIOUS
<1>1. T \in SUBSET Nat
  OBVIOUS
<1>2. PICK x \in T : \A y \in T : x <= y
  BY <1>1, SortP!LeastMember
<1>3. x \in Nat /\ x > 0 /\ x - 1 \in Nat /\ x - 1 \notin T
  BY <1>2
<1>4. x - 1 \in G
  BY <1>3
<1> QED
  BY <1>2, <1>3, <1>4

\* A value and a function that leads from each to the next make a sequence.
Iterates(f, N, V, z, g) ==
  f \in [0 .. N -> V] /\ f[0] = z /\ \A m \in 1 .. N : f[m] = g[<<m, f[m - 1]>>]

LEMMA SequenceExists ==
  ASSUME NEW N, NEW V, NEW z, NEW g, N \in Nat, z \in V, g \in [(1 .. N) \X V -> V]
  PROVE  \E f : Iterates(f, N, V, z, g)
<1> DEFINE Part(f, x) == f \in [0 .. N -> V] /\ f[0] = z /\ \A m \in 1 .. x : f[m] = g[<<m, f[m - 1]>>]
           G == {x \in Nat : x <= N => \E f : Part(f, x)}
<1>1. 0 \in G
  <2>1. PICK f : f = [m \in 0 .. N |-> z]
    OBVIOUS
  <2>2. Part(f, 0)
    BY <2>1
  <2> QED
    BY <2>2
<1>2. ASSUME NEW x \in Nat, x > 0, x - 1 \in G PROVE x \in G
  <2> SUFFICES ASSUME x <= N PROVE \E f : Part(f, x)
    OBVIOUS
  <2>1. x \in 1 .. N /\ x - 1 \in 0 .. N /\ x - 1 \in Nat
    BY <1>2
  <2>2. PICK f : Part(f, x - 1)
    BY <1>2, <2>1
  <2>3. f[x - 1] \in V /\ g[<<x, f[x - 1]>>] \in V
    BY <2>1, <2>2
  <2>4. PICK h : h = [f EXCEPT ![x] = g[<<x, f[x - 1]>>]]
    OBVIOUS
  <2>5. /\ h \in [0 .. N -> V] /\ h[x] = g[<<x, f[x - 1]>>]
        /\ \A m \in 0 .. x - 1 : h[m] = f[m]
    BY <2>1, <2>2, <2>3, <2>4
  <2>6. ASSUME NEW m \in 1 .. x PROVE h[m] = g[<<m, h[m - 1]>>]
    <3>1. m - 1 \in 0 .. x - 1 /\ h[m - 1] = f[m - 1]
      BY <2>5
    <3>2. CASE m = x
      BY <2>5, <3>1, <3>2
    <3>3. CASE m # x
      <4>1. m \in 1 .. x - 1 /\ m \in 0 .. x - 1
        BY <3>3
      <4> QED
        BY <2>2, <2>5, <3>1, <4>1
    <3> QED
      BY <3>2, <3>3
  <2>7. h[0] = z
    <3>1. 0 \in 0 .. x - 1
      BY <2>1
    <3> QED
      BY <2>2, <2>5, <3>1
  <2>8. Part(h, x)
    BY <2>5, <2>6, <2>7
  <2> QED
    BY <2>8
<1>3. \A x \in Nat : x \in G
  <2> HIDE DEF G
  <2> QED
    BY <1>1, <1>2, Upwards
<1>4. \E f : Part(f, N)
  <2>1. N \in G
    <3> HIDE DEF G
    <3> QED
      BY <1>3
  <2>2. N <= N
    OBVIOUS
  <2> QED
    BY <2>1, <2>2
<1> QED
  BY <1>4 DEF Iterates

\* The pairs that are described down to one depth more than those in B.
Pairs == Coll!QualTypes \X (1 .. Len(messages))

Deeper(u, B) ==
  {p \in Pairs :
     LET t == p[1][1]
         refs == messages[p[2]].refs
         asQualified == /\ messages[p[2]].kind = "qualified"
                        /\ Len(refs) = 1
                        /\ <<<<t, "none">>, refs[1]>> \in B
         asPlain == IF u.kind[t] = "sugar"
                    THEN <<u.parts[t][1], p[2]>> \in B
                    ELSE /\ messages[p[2]].kind = u.kind[t]
                         /\ Len(refs) = Len(u.parts[t])
                         /\ \A r \in 1 .. Len(refs) : <<u.parts[t][r], refs[r]>> \in B
     IN IF p[1][2] = "fast" THEN asQualified ELSE asPlain \/ (Coll!Mixed(u, t) /\ asQualified)}

LEMMA DescribedIs ==
  ASSUME NEW u, NEW N \in Nat
  PROVE  \E f : /\ f[0] = Pairs /\ \A m \in 1 .. N : f[m] = Deeper(u, f[m - 1])
                /\ Described(u, N) = f[N]
<1> DEFINE Below(f) == f = [m \in 0 .. N |-> IF m = 0 THEN Pairs ELSE Deeper(u, f[m - 1])]
<1>0. N \in Nat
  OBVIOUS
<1>1. \E f : Below(f)
  <2>1. PICK V : V = SUBSET Pairs
    OBVIOUS
  <2>2. Pairs \in V /\ \A B : Deeper(u, B) \in V
    BY <2>1 DEF Deeper
  <2>3. PICK g : g = [x \in (1 .. N) \X V |-> Deeper(u, x[2])]
    OBVIOUS
  <2>4. g \in [(1 .. N) \X V -> V] /\ \A m \in 1 .. N : \A B \in V : g[<<m, B>>] = Deeper(u, B)
    BY <2>2, <2>3
  <2>5. PICK f \in [0 .. N -> V] : f[0] = Pairs /\ \A m \in 1 .. N : f[m] = g[<<m, f[m - 1]>>]
    <3>1. PICK z : z = Pairs
      OBVIOUS
    <3>2. z \in V /\ g \in [(1 .. N) \X V -> V]
      BY <2>2, <2>4, <3>1
    <3>3. \E f : Iterates(f, N, V, z, g)
      BY ONLY <1>0, <3>2, SequenceExists
    <3> QED
      BY <3>1, <3>3 DEF Iterates
  <2>6. ASSUME NEW m \in 0 .. N PROVE f[m] = IF m = 0 THEN Pairs ELSE Deeper(u, f[m - 1])
    <3>1. CASE m = 0
      BY <2>5, <3>1
    <3>2. CASE m # 0
      <4>1. m \in 1 .. N /\ m - 1 \in 0 .. N
        BY <3>2
      <4>2. f[m] = g[<<m, f[m - 1]>>] /\ f[m - 1] \in V
        BY <2>5, <4>1
      <4> QED
        BY <2>4, <3>2, <4>1, <4>2
    <3> QED
      BY <3>1, <3>2
  <2>7. Below(f)
    BY <2>5, <2>6
  <2> QED
    BY <2>7
<1>2. PICK f : f = CHOOSE h : Below(h)
  OBVIOUS
<1>3. Below(f)
  BY <1>1, <1>2
<1>4. Described(u, N) = f[N]
  BY <1>2 DEF Described, Pairs, Deeper
<1>5. f[0] = Pairs /\ \A m \in 1 .. N : f[m] = Deeper(u, f[m - 1])
  <2>1. 0 \in 0 .. N /\ \A m \in 1 .. N : m \in 0 .. N /\ m # 0
    OBVIOUS
  <2> QED
    BY <1>3, <2>1
<1> QED
  BY <1>4, <1>5

LEMMA QualParts ==
  /\ Coll!QualTypes = CollP!QualTypes
  /\ \A q \in CollP!QualTypes : q[1] \in ClangTypes /\ <<q[1], "none">> \in CollP!QualTypes
BY DEF Coll!QualTypes, CollP!QualTypes, Coll!Quals, CollP!Quals

\* What the table of a job says of the type of a message, the message says.
LEMMA ImagesDescribed ==
  ASSUME Running, WriterInv, wpc = "written", NEW u, CollP!Convertible(u), NEW T, NEW b, b = Len(objs),
         T \subseteq CollP!QualTypes \X (1 .. b),
         \A q \in CollP!QualTypes : \A o \in 1 .. b : <<q, o>> \in T => ShapeIn(u, T, q, o),
         NEW B, \A q \in CollP!QualTypes : \A a \in 1 .. Len(messages) : <<q, typeSeq[a]>> \in T => <<q, a>> \in B,
         NEW q \in CollP!QualTypes, NEW a \in 1 .. Len(messages), <<q, typeSeq[a]>> \in T
  PROVE  <<q, a>> \in Deeper(u, B)
<1>1. PICK t, o, refs : t = q[1] /\ o = typeSeq[a] /\ refs = messages[a].refs
  OBVIOUS
<1>2. t \in ClangTypes /\ <<t, "none">> \in CollP!QualTypes /\ o \in 1 .. b
  BY <1>1, QualParts
<1>3. ShapeIn(u, T, q, o)
  BY <1>1, <1>2
<1>4. /\ messages[a].kind = objs[o].kind
      /\ refs = [r \in 1 .. Len(objs[o].kids) |-> index[objs[o].kids[r]]]
      /\ \A r \in 1 .. Len(objs[o].kids) : objs[o].kids[r] \in DOMAIN index
  BY <1>1 DEF WriterInv, MessageFits
<1>5. \A s \in DOMAIN index : index[s] \in 1 .. Len(messages) /\ typeSeq[index[s]] = s
  BY NumbersLead
<1>6. /\ Len(refs) = Len(objs[o].kids) /\ Len(refs) \in Nat
      /\ \A r \in 1 .. Len(refs) : refs[r] \in 1 .. Len(messages) /\ typeSeq[refs[r]] = objs[o].kids[r]
  <2>1. objs[o].kids \in Seq(0 .. b)
    <3>1. objs[o] \in CollP!ObjectSet(b)
      BY <1>1, <1>2 DEF Running
    <3> QED
      BY <3>1 DEF CollP!ObjectSet
  <2>2. Len(refs) = Len(objs[o].kids) /\ Len(refs) \in Nat
    BY <1>4, <2>1
  <2>3. ASSUME NEW r \in 1 .. Len(refs) PROVE refs[r] \in 1 .. Len(messages) /\ typeSeq[refs[r]] = objs[o].kids[r]
    <3>1. refs[r] = index[objs[o].kids[r]] /\ objs[o].kids[r] \in DOMAIN index
      BY <1>4, <2>2
    <3> QED
      BY <1>5, <3>1
  <2> QED
    BY <2>2, <2>3
<1>7. <<q, a>> \in Pairs
  BY QualParts DEF Pairs
<1>8. ASSUME QualifiedIn(T, t, o)
      PROVE  messages[a].kind = "qualified" /\ Len(refs) = 1 /\ <<<<t, "none">>, refs[1]>> \in B
  <2>1. objs[o].kind = "qualified" /\ Len(objs[o].kids) = 1 /\ <<<<t, "none">>, objs[o].kids[1]>> \in T
    BY <1>8 DEF QualifiedIn
  <2>2. Len(refs) = 1 /\ refs[1] \in 1 .. Len(messages) /\ typeSeq[refs[1]] = objs[o].kids[1]
    BY <1>6, <2>1
  <2>3. <<<<t, "none">>, refs[1]>> \in B
    BY <1>2, <2>1, <2>2
  <2> QED
    BY <1>4, <2>1, <2>2, <2>3
<1>9. ASSUME PlainIn(u, T, t, o)
      PROVE  IF u.kind[t] = "sugar" THEN <<u.parts[t][1], a>> \in B
             ELSE /\ messages[a].kind = u.kind[t] /\ Len(refs) = Len(u.parts[t])
                  /\ \A r \in 1 .. Len(refs) : <<u.parts[t][r], refs[r]>> \in B
  <2>1. u.parts[t] \in Seq(CollP!QualTypes) /\ (u.kind[t] = "sugar" => Len(u.parts[t]) = 1)
    BY <1>2 DEF CollP!Convertible
  <2>2. CASE u.kind[t] = "sugar"
    <3>1. u.parts[t][1] \in CollP!QualTypes /\ <<u.parts[t][1], typeSeq[a]>> \in T
      BY <1>1, <1>9, <2>1, <2>2 DEF PlainIn
    <3> QED
      BY <2>2, <3>1
  <2>3. CASE u.kind[t] # "sugar"
    <3>1. /\ objs[o].kind = u.kind[t] /\ Len(objs[o].kids) = Len(u.parts[t])
          /\ \A r \in 1 .. Len(objs[o].kids) : <<u.parts[t][r], objs[o].kids[r]>> \in T
      BY <1>9, <2>3 DEF PlainIn
    <3>2. ASSUME NEW r \in 1 .. Len(refs) PROVE <<u.parts[t][r], refs[r]>> \in B
      <4>1. refs[r] \in 1 .. Len(messages) /\ typeSeq[refs[r]] = objs[o].kids[r] /\ Len(refs) = Len(objs[o].kids)
        BY <1>6
      <4>2. u.parts[t][r] \in CollP!QualTypes
        BY <2>1, <3>1, <4>1
      <4> QED
        BY <3>1, <4>1, <4>2
    <3>3. messages[a].kind = u.kind[t] /\ Len(refs) = Len(u.parts[t])
      BY <1>4, <1>6, <3>1
    <3> QED
      BY <2>3, <3>2, <3>3
  <2> QED
    BY <2>2, <2>3
<1>10. CASE q[2] = "fast"
  <2>1. QualifiedIn(T, t, o)
    BY <1>1, <1>3, <1>10 DEF ShapeIn
  <2> QED
    BY <1>1, <1>7, <1>8, <1>10, <2>1 DEF Deeper
<1>11. CASE q[2] # "fast"
  <2>1. PlainIn(u, T, t, o) \/ (Coll!Mixed(u, t) /\ QualifiedIn(T, t, o))
    BY <1>1, <1>3, <1>11 DEF ShapeIn
  <2>2. CASE PlainIn(u, T, t, o)
    BY <1>1, <1>7, <1>9, <1>11, <2>2 DEF Deeper
  <2>3. CASE Coll!Mixed(u, t) /\ QualifiedIn(T, t, o)
    BY <1>1, <1>7, <1>8, <1>11, <2>3 DEF Deeper
  <2> QED
    BY <2>1, <2>2, <2>3
<1> QED
  BY <1>10, <1>11

LEMMA TableDescribed ==
  ASSUME Running, WriterInv, wpc = "written", NEW m \in 1 .. Len(jobs), NEW T, Translation(m, T, Len(objs)),
         NEW N \in Nat, NEW q \in CollP!QualTypes, NEW a \in 1 .. Len(messages), <<q, typeSeq[a]>> \in T
  PROVE  <<q, a>> \in Described(jobs[m], N)
<1>1. PICK u, b : u = jobs[m] /\ b = Len(objs)
  OBVIOUS
<1>2. /\ CollP!Convertible(u)
      /\ T \subseteq CollP!QualTypes \X (1 .. b)
      /\ \A x \in CollP!QualTypes : \A o \in 1 .. b : <<x, o>> \in T => ShapeIn(u, T, x, o)
  BY <1>1, JobIsUnit DEF Translation
<1>3. PICK f : /\ f[0] = Pairs /\ \A x \in 1 .. N : f[x] = Deeper(u, f[x - 1])
               /\ Described(u, N) = f[N]
  BY DescribedIs
<1> DEFINE All(B) == \A x \in CollP!QualTypes : \A c \in 1 .. Len(messages) : <<x, typeSeq[c]>> \in T => <<x, c>> \in B
           G == {x \in Nat : x <= N => All(f[x])}
<1>4. 0 \in G
  BY <1>3, QualParts DEF Pairs
<1>5. ASSUME NEW x \in Nat, x > 0, x - 1 \in G PROVE x \in G
  <2> SUFFICES ASSUME x <= N PROVE All(f[x])
    OBVIOUS
  <2>1. x \in 1 .. N /\ x - 1 \in Nat /\ x - 1 <= N
    BY <1>5
  <2>2. All(f[x - 1])
    BY <1>5, <2>1
  <2>3. PICK B : B = f[x - 1] /\ f[x] = Deeper(u, B)
    BY <1>3, <2>1
  <2>4. All(Deeper(u, B))
    BY <1>1, <1>2, <2>2, <2>3, ImagesDescribed
  <2> QED
    BY <2>3, <2>4
<1> HIDE DEF G
<1>6. \A x \in Nat : x \in G
  BY <1>4, <1>5, Upwards
<1>7. All(f[N])
  BY <1>6 DEF G
<1> QED
  BY <1>1, <1>3, <1>7

\* What main prints, after any number of jobs, is what was asked for: every
\* collected declaration of every job once, with messages that describe its
\* type to any depth, and nothing else; a type that the unit also has with
\* extended qualifiers only is described with or without a layer of qualifiers,
\* because the container cannot tell the two apart. It takes all the parts: what a
\* collector made is not disturbed by the jobs that follow, nothing that is
\* needed is missing from the catalog, and the numbers lead to the right types.
THEOREM OutputIsFaithful == Spec => []OutputFaithful
<1>1. Spec => [](Running /\ ExportsOnce /\ Remembered /\ WriterInv)
  <2>1. Init => Running /\ ExportsOnce /\ Remembered /\ WriterInv
    BY RunningInit, RememberedInit, WriterInit
  <2>2. Running /\ ExportsOnce /\ Remembered /\ WriterInv /\ [Next]_vars
          => (Running /\ ExportsOnce /\ Remembered /\ WriterInv)'
    BY RunningStep, OnceStep, RememberedStep, WriterStep
  <2> QED
    BY <2>1, <2>2, PTL DEF Spec
<1>2. Running /\ ExportsOnce /\ Remembered /\ WriterInv => OutputFaithful
  <2> SUFFICES ASSUME Running, ExportsOnce, Remembered, WriterInv, pc = "written"
               PROVE  /\ \A e \in exported : e.export.decl \in Wanted(jobs[e.export.job])
                      /\ \A m \in 1 .. Len(jobs) :
                           \A d \in Wanted(jobs[m]) :
                             \A its : its = {e \in exported : e.export.job = m /\ e.export.decl = d} =>
                               /\ Cardinality(its) = 1
                               /\ \A e \in its : <<d.type, e.type>> \in Described(jobs[m], Depth)
    BY DEF OutputFaithful
  <2>1. wpc = "written" /\ n > Len(jobs) /\ n \in Nat /\ \A m \in 1 .. Len(jobs) : Translated(m, Len(objs))
    <3>1. n > Len(jobs) /\ n \in Nat /\ jobs \in Seq(Units)
      BY UnitsAssumption DEF Running
    <3>2. \A m \in 1 .. Len(jobs) : m < n
      BY <3>1
    <3> QED
      BY <3>1, <3>2 DEF Remembered, WriterInv
  <2>2. /\ \A e \in exported : e.export \in catExports /\ e.export.type \in DOMAIN index /\ e.type = index[e.export.type]
        /\ \A e, f \in exported : e.export = f.export => e = f
        /\ \A x \in catExports : \E e \in exported : e.export = x
        /\ Len(messages) = Len(typeSeq)
    BY <2>1 DEF WriterInv
  <2>3. ASSUME NEW e \in exported PROVE e.export.decl \in Wanted(jobs[e.export.job])
    <3>1. e.export \in catExports /\ e.export.job \in 1 .. Len(jobs)
      BY <2>2 DEF ExportsOnce
    <3>2. PICK T : Translation(e.export.job, T, Len(objs))
      BY <2>1, <3>1 DEF Translated
    <3> QED
      BY <3>1, <3>2 DEF Translation
  <2>4. ASSUME NEW m \in 1 .. Len(jobs), NEW d \in Wanted(jobs[m]), NEW its,
               its = {e \in exported : e.export.job = m /\ e.export.decl = d}
        PROVE  Cardinality(its) = 1 /\ \A e \in its : <<d.type, e.type>> \in Described(jobs[m], Depth)
    <3>1. PICK T : Translation(m, T, Len(objs))
      BY <2>1 DEF Translated
    <3>2. PICK x \in catExports : x.job = m /\ x.decl = d
      BY <3>1 DEF Translation
    <3>3. PICK e \in exported : e.export = x
      BY <2>2
    <3>4. its = {e}
      BY <2>2, <2>4, <3>2, <3>3 DEF ExportsOnce
    <3>5. Cardinality(its) = 1
      BY <3>4, FS_Singleton
    <3>6. /\ e.type \in 1 .. Len(messages) /\ typeSeq[e.type] = x.type
      BY <2>1, <2>2, <3>3, NumbersLead
    <3>7. <<d.type, x.type>> \in T
      BY <3>1, <3>2 DEF Translation
    <3>8. d.type \in CollP!QualTypes
      <4>1. d \in jobs[m].decls
        BY DEF Wanted, WantedBy, Decls
      <4> QED
        BY <4>1, JobIsUnit DEF CollP!Declared
    <3>9. <<d.type, typeSeq[e.type]>> \in T
      BY <3>6, <3>7
    <3>10. <<d.type, e.type>> \in Described(jobs[m], Depth)
      BY <2>1, <3>1, <3>6, <3>8, <3>9, TableDescribed, DepthAssumption
    <3> QED
      BY <3>4, <3>5, <3>10
  <2> QED
    BY <2>3, <2>4
<1> QED
  BY <1>1, <1>2, PTL

-------------------------------------------------------------------------------
(* The sorter of a job.                                                      *)

LEMMA SameSort == (SortP!Step <=> Sort!Step) /\ \A l, d : SortP!Construct(l, d) <=> Sort!Construct(l, d)
<1> USE DEF SortP!input, Sort!input, SortP!search, Sort!search, SortP!Vertices, Sort!Vertices, SortP!Listed, Sort!Listed,
      SortP!TypeOf, Sort!TypeOf, SortP!getVertex, Sort!getVertex, SortP!Edge, Sort!Edge, SortP!has_cycles, Sort!has_cycles,
      SortP!Insert, Sort!Insert, SortP!addDependency, Sort!addDependency, SortP!Top, Sort!Top
<1>1. SortP!VisitDependency <=> Sort!VisitDependency
  BY DEF SortP!VisitDependency, Sort!VisitDependency
<1>2. SortP!NextType <=> Sort!NextType
  BY DEF SortP!NextType, Sort!NextType
<1>3. SortP!BeginSort <=> Sort!BeginSort
  BY DEF SortP!BeginSort, Sort!BeginSort
<1>4. \A v : SortP!DiscoverRoot(v) <=> Sort!DiscoverRoot(v)
  BY DEF SortP!DiscoverRoot, Sort!DiscoverRoot
<1>5. SortP!ExamineEdge <=> Sort!ExamineEdge
  BY DEF SortP!ExamineEdge, Sort!ExamineEdge
<1>6. SortP!FinishVertex <=> Sort!FinishVertex
  BY DEF SortP!FinishVertex, Sort!FinishVertex
<1>7. SortP!FillResult <=> Sort!FillResult
  BY DEF SortP!FillResult, Sort!FillResult
<1>8. \A l, d : SortP!Construct(l, d) <=> Sort!Construct(l, d)
  BY DEF SortP!Construct, Sort!Construct
<1> QED
  BY <1>1, <1>2, <1>3, <1>4, <1>5, <1>6, <1>7, <1>8 DEF SortP!Step, Sort!Step

SortFits == SortP!IInv /\ SortP!DepInv

LEMMA SorterSteps ==
  ASSUME SortFits, Sort!Step
  PROVE  SortFits' /\ list' = list /\ deps' = deps
<1>1. SortP!Step
  BY SameSort
<1>2. SortP!TypeOK
  BY DEF SortFits, SortP!IInv
<1>3. SortP!IInv'
  BY <1>1, SortP!InvStep DEF SortFits, SortP!Next
<1>4. SortP!DepInv'
  BY <1>1, <1>2, SortP!DepStep DEF SortFits, SortP!Next
<1>5. list' = list /\ deps' = deps
  BY <1>1 DEF SortP!Step, SortP!VisitDependency, SortP!NextType, SortP!BeginSort, SortP!DiscoverRoot, SortP!ExamineEdge,
     SortP!FinishVertex, SortP!FillResult, SortP!input
<1> QED
  BY <1>3, <1>4, <1>5 DEF SortFits

LEMMA SorterStays ==
  ASSUME SortFits, UNCHANGED sorter
  PROVE  SortFits'
<1>1. UNCHANGED SortP!vars
  BY DEF sorter, SortP!vars
<1>2. SortP!TypeOK
  BY DEF SortFits, SortP!IInv
<1> QED
  BY <1>1, <1>2, SortP!InvStep, SortP!DepStep DEF SortFits

-------------------------------------------------------------------------------
(* The objects of a job.                                                     *)

\* How many objects a job may make.
PerJob == 2 * Cardinality(ClangTypes)

LEMMA KeysFinite ==
  /\ PerJob \in Nat
  /\ IsFiniteSet(ClangTypes \X BOOLEAN) /\ Cardinality(ClangTypes \X BOOLEAN) = PerJob
<1>1. IsFiniteSet(ClangTypes) /\ Cardinality(ClangTypes) \in Nat
  BY IdsAssumption, FS_CardinalityType
<1>2. IsFiniteSet(BOOLEAN) /\ Cardinality(BOOLEAN) = 2
  <2>1. IsFiniteSet({TRUE}) /\ Cardinality({TRUE}) = 1
    BY FS_Singleton
  <2>2. IsFiniteSet({TRUE} \union {FALSE}) /\ Cardinality({TRUE} \union {FALSE}) = Cardinality({TRUE}) + 1
    BY <2>1, FS_AddElement
  <2>3. BOOLEAN = {TRUE} \union {FALSE}
    BY Zenon
  <2>4. Cardinality({TRUE} \union {FALSE}) = 2
    <3>1. 1 + 1 = 2
      OBVIOUS
    <3> QED
      BY <2>1, <2>2, <3>1, Zenon
  <2> QED
    BY <2>2, <2>3, <2>4, Zenon
<1>3. IsFiniteSet(ClangTypes \X BOOLEAN) /\ Cardinality(ClangTypes \X BOOLEAN) = Cardinality(ClangTypes) * Cardinality(BOOLEAN)
  BY <1>1, <1>2, FS_Product
<1> QED
  BY <1>1, <1>2, <1>3 DEF PerJob

LEMMA NewObjectsFit ==
  ASSUME CollP!CollectorInv, NEW b \in Nat, CollP!Since(b)
  PROVE  Len(objs) \in Nat /\ b <= Len(objs) /\ Len(objs) <= b + PerJob
<1>1. CollP!Typed /\ CollP!KeysUnique /\ Len(objs) \in Nat /\ b <= Len(objs)
  BY DEF CollP!CollectorInv, CollP!Typed, CollP!Indexed, CollP!Since, CollP!EnteredSince
<1>2. PICK N, Q : N = b + 1 .. Len(objs) /\ Q = ClangTypes \X BOOLEAN
  OBVIOUS
<1>3. PICK h : h = [o \in N |-> CHOOSE x \in 1 .. Len(types) : types[x].autoffi = o]
  OBVIOUS
<1>4. ASSUME NEW o \in N PROVE h[o] \in 1 .. Len(types) /\ types[h[o]].autoffi = o
  <2>1. \E x \in 1 .. Len(types) : types[x].autoffi = o
    BY <1>2 DEF CollP!Since, CollP!EnteredSince, CollP!EnteredFirst
  <2> QED
    BY <1>3, <2>1
<1>5. PICK g : g = [o \in N |-> types[h[o]].clang]
  OBVIOUS
<1>6. g \in [N -> Q]
  <2>1. \A x \in 1 .. Len(types) : types[x].clang \in Q
    BY <1>1, <1>2, UnitsFit, CollP!EntryTyped DEF CollP!Keys
  <2> QED
    BY <1>4, <1>5, <2>1
<1>7. ASSUME NEW o \in N, NEW p \in N, g[o] = g[p] PROVE o = p
  <2>1. types[h[o]].clang = types[h[p]].clang
    BY <1>5, <1>7
  <2>2. h[o] = h[p]
    BY <1>1, <1>4, <2>1 DEF CollP!KeysUnique
  <2> QED
    BY <1>4, <2>2
<1>8. g \in Injection(N, Q)
  BY <1>6, <1>7 DEF Injection, IsInjective
<1>9. Cardinality(N) <= Cardinality(Q)
  BY <1>2, <1>8, KeysFinite, FS_Injection
<1>10. Cardinality(N) = IF b + 1 > Len(objs) THEN 0 ELSE Len(objs) - (b + 1) + 1
  <2>1. b + 1 \in Int /\ Len(objs) \in Int
    BY <1>1
  <2> QED
    BY <1>2, <2>1, FS_Interval
<1> QED
  BY <1>1, <1>2, <1>9, <1>10, KeysFinite

\* The members of new objects are new.
LEMMA NewKids ==
  ASSUME CollP!CollectorInv, stack = << >>, NEW b \in Nat, CollP!Since(b),
         NEW o \in b + 1 .. Len(objs), NEW r \in 1 .. Len(objs[o].kids)
  PROVE  objs[o].kids[r] \in b + 1 .. Len(objs)
BY UnitsFit, CollP!MembersEntered

\* The list that StartSort makes, without its definition by recursion.
LEMMA KeptUnfolds ==
  ASSUME CollP!CollectorInv
  PROVE  \E h : /\ Kept = h[Len(types)]
                /\ h[0] = << >>
                /\ \A m \in 1 .. Len(types) :
                     h[m] = IF types[m].dangling THEN h[m - 1] ELSE Append(h[m - 1], types[m].autoffi)
<1>1. PICK N, W, V, z : /\ N = Len(types) /\ W = {types[x].autoffi : x \in 1 .. N}
                        /\ V = Seq(W) /\ z = << >>
  OBVIOUS
<1>2. N \in Nat
  BY <1>1 DEF CollP!CollectorInv, CollP!Typed
<1>3. z \in V
  <2>1. \A T : << >> \in Seq(T)
    OBVIOUS
  <2> QED
    BY <1>1, <2>1
<1> DEFINE Longer(x, s) == IF types[x].dangling THEN s ELSE Append(s, types[x].autoffi)
           Below(f) == f = [m \in 0 .. N |-> IF m = 0 THEN << >> ELSE Longer(m, f[m - 1])]
<1>5. \A x \in 1 .. N : \A s \in V : Longer(x, s) \in V
  <2>1. \A T : \A s \in Seq(T) : \A e \in T : Append(s, e) \in Seq(T)
    OBVIOUS
  <2> QED
    BY <1>1, <2>1
<1>6. PICK g : g = [y \in (1 .. N) \X V |-> Longer(y[1], y[2])]
  OBVIOUS
<1>7. g \in [(1 .. N) \X V -> V] /\ \A x \in 1 .. N : \A s \in V : g[<<x, s>>] = Longer(x, s)
  <2> HIDE DEF Longer
  <2>1. \A y \in (1 .. N) \X V : y[1] \in 1 .. N /\ y[2] \in V
    OBVIOUS
  <2> QED
    BY <1>5, <1>6, <2>1
<1>8. PICK f : Iterates(f, N, V, z, g)
  BY <1>2, <1>3, <1>7, SequenceExists
<1>9. f \in [0 .. N -> V] /\ f[0] = << >> /\ \A m \in 1 .. N : f[m] = Longer(m, f[m - 1])
  <2> HIDE DEF Longer
  <2>1. f \in [0 .. N -> V] /\ f[0] = z /\ \A m \in 1 .. N : f[m] = g[<<m, f[m - 1]>>]
    BY <1>8 DEF Iterates
  <2>2. ASSUME NEW m \in 1 .. N PROVE f[m] = Longer(m, f[m - 1])
    <3>1. m - 1 \in 0 .. N
      BY <1>2
    <3>2. f[m - 1] \in V
      BY <2>1, <3>1
    <3> QED
      BY <1>7, <2>1, <3>2
  <2> QED
    BY <1>1, <2>1, <2>2
<1>10. \E h : Below(h)
  <2> HIDE DEF Longer
  <2>1. f = [m \in 0 .. N |-> IF m = 0 THEN << >> ELSE Longer(m, f[m - 1])]
    <3>1. ASSUME NEW m \in 0 .. N PROVE f[m] = IF m = 0 THEN << >> ELSE Longer(m, f[m - 1])
      <4>1. CASE m = 0
        BY <1>9, <4>1
      <4>2. CASE m # 0
        <5>1. m \in 1 .. N
          BY <1>2, <4>2
        <5> QED
          BY <1>9, <4>2, <5>1
      <4> QED
        BY <4>1, <4>2
    <3> QED
      BY <1>9, <3>1
  <2> QED
    BY <2>1
<1>11. PICK h : h = CHOOSE e : Below(e)
  OBVIOUS
<1>12. Below(h)
  BY <1>10, <1>11
<1>13. Kept = h[N]
  BY <1>1, <1>11 DEF Kept
<1>14. h[0] = << >> /\ \A m \in 1 .. N : h[m] = Longer(m, h[m - 1])
  <2> HIDE DEF Longer
  <2>1. 0 \in 0 .. N /\ \A m \in 1 .. N : m \in 0 .. N /\ m # 0
    BY <1>2
  <2> QED
    BY <1>12, <2>1
<1> QED
  BY <1>1, <1>13, <1>14

\* The list given to the sorter holds new objects only.
LEMMA KeptIsNew ==
  ASSUME CollP!CollectorInv, NEW b \in Nat, CollP!Since(b)
  PROVE  Kept \in Seq(b + 1 .. Len(objs))
<1>1. PICK N, T : N = Len(types) /\ T = b + 1 .. Len(objs)
  OBVIOUS
<1>2. N \in Nat
  BY <1>1 DEF CollP!CollectorInv, CollP!Typed
<1>3. \A x \in 1 .. N : types[x].autoffi \in T
  BY <1>1, UnitsFit, CollP!SinceIs
<1>4. PICK h : /\ Kept = h[N] /\ h[0] = << >>
               /\ \A m \in 1 .. N : h[m] = IF types[m].dangling THEN h[m - 1] ELSE Append(h[m - 1], types[m].autoffi)
  BY <1>1, KeptUnfolds
<1>5. PICK G : G = {m \in Nat : m <= N => h[m] \in Seq(T)}
  OBVIOUS
<1>6. 0 \in G
  <2>1. << >> \in Seq(T)
    OBVIOUS
  <2> QED
    BY <1>4, <1>5, <2>1
<1>7. ASSUME NEW m \in Nat, m > 0, m - 1 \in G PROVE m \in G
  <2> SUFFICES ASSUME m <= N PROVE h[m] \in Seq(T)
    BY <1>5
  <2>1. m \in 1 .. N /\ m - 1 <= N
    BY <1>2, <1>7
  <2>2. h[m - 1] \in Seq(T)
    BY <1>5, <1>7, <2>1
  <2>3. \A s \in Seq(T) : \A e \in T : Append(s, e) \in Seq(T)
    OBVIOUS
  <2> QED
    BY <1>3, <1>4, <2>1, <2>2, <2>3
<1>8. N \in G
  BY <1>2, <1>6, <1>7, Upwards
<1> QED
  BY <1>1, <1>2, <1>4, <1>5, <1>8

\* It holds all of them unless an entry is marked as dangling.
LEMMA KeptHasAll ==
  ASSUME CollP!CollectorInv, NEW b \in Nat, CollP!Since(b), \A x \in 1 .. Len(types) : ~ types[x].dangling
  PROVE  b + 1 .. Len(objs) \subseteq {Kept[x] : x \in 1 .. Len(Kept)}
<1>1. PICK N, T : N = Len(types) /\ T = b + 1 .. Len(objs)
  OBVIOUS
<1>2. N \in Nat
  BY <1>1 DEF CollP!CollectorInv, CollP!Typed
<1>3. \A x \in 1 .. N : types[x].autoffi \in T
  BY <1>1, UnitsFit, CollP!SinceIs
<1>4. PICK h : /\ Kept = h[N] /\ h[0] = << >>
               /\ \A m \in 1 .. N : h[m] = IF types[m].dangling THEN h[m - 1] ELSE Append(h[m - 1], types[m].autoffi)
  BY <1>1, KeptUnfolds
<1>5. PICK G : G = {m \in Nat : m <= N =>
                      h[m] \in Seq(T) /\ Len(h[m]) = m /\ \A x \in 1 .. m : h[m][x] = types[x].autoffi}
  OBVIOUS
<1>6. 0 \in G
  <2>1. PICK s : s = h[0]
    OBVIOUS
  <2>2. s \in Seq(T) /\ Len(s) = 0
    BY <1>4, <2>1
  <2>3. \A x \in 1 .. 0 : s[x] = types[x].autoffi
    OBVIOUS
  <2> QED
    BY <1>5, <2>1, <2>2, <2>3
<1>7. ASSUME NEW m \in Nat, m > 0, m - 1 \in G PROVE m \in G
  <2> SUFFICES ASSUME m <= N
               PROVE  h[m] \in Seq(T) /\ Len(h[m]) = m /\ \A x \in 1 .. m : h[m][x] = types[x].autoffi
    BY <1>5
  <2>1. m \in 1 .. N /\ m - 1 <= N
    BY <1>2, <1>7
  <2>2. PICK s : s = h[m - 1]
    OBVIOUS
  <2>3. s \in Seq(T) /\ Len(s) = m - 1 /\ \A x \in 1 .. m - 1 : s[x] = types[x].autoffi
    BY <1>5, <1>7, <2>1, <2>2
  <2>4. PICK e \in T : e = types[m].autoffi
    BY <1>3, <2>1
  <2>5. h[m] = Append(s, e)
    <3>1. ~ types[m].dangling
      BY <1>1, <2>1
    <3>2. h[m] = IF types[m].dangling THEN h[m - 1] ELSE Append(h[m - 1], types[m].autoffi)
      BY <1>4, <2>1
    <3> QED
      BY <2>2, <2>4, <3>1, <3>2, Zenon
  <2>6. /\ Append(s, e) \in Seq(T) /\ Len(Append(s, e)) = Len(s) + 1 /\ Append(s, e)[Len(s) + 1] = e
        /\ \A x \in 1 .. Len(s) : Append(s, e)[x] = s[x]
    BY <2>3
  <2>7. ASSUME NEW x \in 1 .. m PROVE h[m][x] = types[x].autoffi
    <3>1. x = m \/ x \in 1 .. m - 1
      OBVIOUS
    <3> QED
      BY <2>3, <2>4, <2>5, <2>6, <3>1
  <2> QED
    BY <2>3, <2>5, <2>6, <2>7
<1>8. N \in G
  BY <1>2, <1>6, <1>7, Upwards
<1>9. Len(Kept) = N /\ \A x \in 1 .. N : Kept[x] = types[x].autoffi
  BY <1>2, <1>4, <1>5, <1>8
<1>10. \A o \in b + 1 .. Len(objs) : \E x \in 1 .. N : types[x].autoffi = o
  BY <1>1 DEF CollP!Since, CollP!EnteredSince, CollP!EnteredFirst
<1>11. ASSUME NEW o \in b + 1 .. Len(objs) PROVE \E x \in 1 .. Len(Kept) : Kept[x] = o
  BY <1>9, <1>10
<1> QED
  BY <1>11

-------------------------------------------------------------------------------
(* The order of the types.                                                   *)

\* O holds, with an object that is one of the first b, all its members; y is in
\* all such sets that hold x.
Closes(O, b) == \A s \in O : s \in 1 .. b => \A r \in 1 .. Len(objs[s].kids) : objs[s].kids[r] \in O
Leads(b, x, y) == \A O : x \in O /\ Closes(O, b) => y \in O

\* The types of the catalog come after their members, or the members lead back.
Orderly(b) ==
  \A m \in 1 .. Len(typeSeq) : \A r \in 1 .. Len(objs[typeSeq[m]].kids) :
    \/ \E p \in 1 .. m - 1 : typeSeq[p] = objs[typeSeq[m]].kids[r]
    \/ Leads(b, objs[typeSeq[m]].kids[r], typeSeq[m])

\* A member of one of the types in S is not in S, although it has been made:
\* it never will be, and nothing can be written.
Lacks(S, b) ==
  \E t \in S : \E r \in 1 .. Len(objs[t].kids) : objs[t].kids[r] \in 1 .. b /\ objs[t].kids[r] \notin S

KidsKnown(b) == \A o \in 1 .. b : \A r \in 1 .. Len(objs[o].kids) : objs[o].kids[r] \in 1 .. b

\* The jobs that are done have made b objects.
Fits(b, done) ==
  /\ typeSet \subseteq 1 .. b
  /\ b <= done * PerJob
  /\ KidsKnown(b)
  /\ Lacks(typeSet, b) \/ Orderly(b)

TypesAgree ==
  /\ IsSeq(typeSeq)
  /\ typeSet = {typeSeq[m] : m \in 1 .. Len(typeSeq)}
  /\ \A x, y \in 1 .. Len(typeSeq) : typeSeq[x] = typeSeq[y] => x = y

\* The sorter of a job is given new objects.
SortOf(b) == SortFits /\ list \in Seq(b + 1 .. Len(objs)) /\ deps = Dependencies

\* The types of the job go into the catalog one after the other.
Sorted == {result[p] : p \in 1 .. Len(result)}

SortedOrderly(b) ==
  \A t \in Sorted : \A r \in 1 .. Len(objs[t].kids) :
    SortP!Before(objs[t].kids[r], t) \/ Leads(b, objs[t].kids[r], t)

Adding ==
  /\ IsSeq(result) /\ k \in Nat \ {0}
  /\ typeSet \union Sorted \subseteq 1 .. Len(objs)
  /\ \A p \in 1 .. Len(result) : p < k => result[p] \in typeSet
  /\ Len(objs) <= n * PerJob
  /\ KidsKnown(Len(objs))
  /\ Lacks(typeSet \union Sorted, Len(objs)) \/ (Orderly(Len(objs)) /\ SortedOrderly(Len(objs)))

OrderInv ==
  /\ TypesAgree
  /\ pc \in {"job", "write", "written"} => Fits(Len(objs), n - 1)
  /\ pc \in {"collect", "sort"} => \E b \in Nat : CollP!Since(b) /\ Fits(b, n - 1) /\ (pc = "sort" => SortOf(b))
  /\ pc = "types" => Adding

LEMMA LeadsStays ==
  ASSUME NEW b \in Nat, NEW c \in Nat, b <= c, \A o \in 1 .. b : objs'[o] = objs[o], NEW x, NEW y, Leads(b, x, y)
  PROVE  Leads(c, x, y)'
<1> SUFFICES ASSUME NEW O, x \in O, Closes(O, c)' PROVE y \in O
  BY DEF Leads
<1>1. Closes(O, b)
  <2> SUFFICES ASSUME NEW s \in O, s \in 1 .. b, NEW r \in 1 .. Len(objs[s].kids) PROVE objs[s].kids[r] \in O
    BY DEF Closes
  <2>1. s \in 1 .. c /\ objs'[s] = objs[s]
    OBVIOUS
  <2> QED
    BY <2>1 DEF Closes
<1> QED
  BY <1>1 DEF Leads

\* What is said of the first b objects stays true.
LEMMA FitsStays ==
  ASSUME NEW b \in Nat, NEW e, UNCHANGED <<typeSeq, typeSet>>, TypesAgree,
         \A o \in 1 .. b : objs'[o] = objs[o], Fits(b, e)
  PROVE  Fits(b, e)'
<1>1. typeSet \subseteq 1 .. b /\ b <= e * PerJob /\ KidsKnown(b) /\ (Lacks(typeSet, b) \/ Orderly(b))
  BY DEF Fits
<1>2. KidsKnown(b)'
  BY <1>1 DEF KidsKnown
<1>3. Lacks(typeSet, b) => Lacks(typeSet, b)'
  BY <1>1 DEF Lacks
<1>4. ASSUME Orderly(b) PROVE Orderly(b)'
  <2> SUFFICES ASSUME NEW m \in 1 .. Len(typeSeq), NEW r \in 1 .. Len(objs'[typeSeq[m]].kids)
               PROVE  \/ \E p \in 1 .. m - 1 : typeSeq[p] = objs'[typeSeq[m]].kids[r]
                      \/ Leads(b, objs[typeSeq[m]].kids[r], typeSeq[m])'
    BY DEF Orderly
  <2>1. PICK o : o = typeSeq[m]
    OBVIOUS
  <2>2. o \in 1 .. b /\ objs'[o] = objs[o]
    BY <1>1, <2>1 DEF TypesAgree
  <2>3. PICK c : c = objs[o].kids[r]
    OBVIOUS
  <2>4. (\E p \in 1 .. m - 1 : typeSeq[p] = c) \/ Leads(b, c, o)
    BY <1>4, <2>1, <2>2, <2>3 DEF Orderly
  <2>5. Leads(b, c, o) => Leads(b, c, o)'
    BY LeadsStays
  <2>6. Leads(b, c, o)' => Leads(b, objs[typeSeq[m]].kids[r], typeSeq[m])'
    BY <2>1, <2>2, <2>3 DEF Leads, Closes
  <2> QED
    BY <2>1, <2>2, <2>3, <2>4, <2>5, <2>6
<1> QED
  BY <1>1, <1>2, <1>3, <1>4 DEF Fits, PerJob

LEMMA TypesStay == ASSUME TypesAgree, UNCHANGED <<typeSeq, typeSet>> PROVE TypesAgree'
BY DEF TypesAgree, IsSeq

\* There is a number for each object of the jobs so far.
LEMMA IdsSuffice ==
  ASSUME Running, n <= Len(jobs), NEW b \in Nat, b <= (n - 1) * PerJob, NEW c \in Nat, c <= b + PerJob
  PROVE  c <= n * PerJob /\ 1 .. c \subseteq ObjectIds
<1>1. PICK P \in Nat : P = PerJob
  BY KeysFinite
<1>2. jobs \in JobLists /\ n \in Nat /\ Len(jobs) \in Nat
  BY UnitsAssumption DEF Running
<1>3. c <= n * P
  <2>1. (n - 1) * P + P = n * P
    BY <1>1, <1>2
  <2> QED
    BY <1>1, <1>2, <2>1
<1>4. n * P <= Len(jobs) * P
  <2>1. PICK d \in Nat : Len(jobs) = n + d
    <3>1. Len(jobs) - n \in Nat /\ Len(jobs) = n + (Len(jobs) - n)
      BY <1>2
    <3> QED
      BY <3>1
  <2>2. (n + d) * P = n * P + d * P /\ d * P \in Nat /\ n * P \in Nat
    BY <1>1, <1>2
  <2> QED
    BY <2>1, <2>2
<1>5. 1 .. Len(jobs) * P \subseteq ObjectIds
  BY <1>1, <1>2, IdsAssumption DEF PerJob
<1>6. n * P \in Nat /\ Len(jobs) * P \in Nat
  BY <1>1, <1>2
<1> QED
  BY <1>1, <1>3, <1>4, <1>5, <1>6

\* All members are known when a job has been collected.
LEMMA CollectedKnown ==
  ASSUME CollP!CollectorInv, stack = << >>, NEW b \in Nat, CollP!Since(b), KidsKnown(b)
  PROVE  KidsKnown(Len(objs))
<1>1. Len(objs) \in Nat /\ b <= Len(objs)
  BY NewObjectsFit
<1> SUFFICES ASSUME NEW o \in 1 .. Len(objs), NEW r \in 1 .. Len(objs[o].kids)
             PROVE  objs[o].kids[r] \in 1 .. Len(objs)
  BY DEF KidsKnown
<1>2. CASE o \in 1 .. b
  BY <1>1, <1>2 DEF KidsKnown
<1>3. CASE o \notin 1 .. b
  <2>1. o \in b + 1 .. Len(objs)
    BY <1>1, <1>3
  <2>2. objs[o].kids[r] \in b + 1 .. Len(objs)
    BY <2>1, NewKids
  <2> QED
    BY <1>1, <2>2
<1> QED
  BY <1>2, <1>3

\* The sorter is called with types that have numbers.
LEMMA SortStarts ==
  ASSUME Running, StartSort, NEW b \in Nat, CollP!Since(b), Fits(b, n - 1)
  PROVE  SortOf(b)'
<1>1. pc = "collect" /\ CollP!Collected /\ objs' = objs
  BY DEF StartSort, Coll!Collected, CollP!Collected
<1>2. n <= Len(jobs) /\ CollP!CollectorInv
  BY <1>1 DEF Running, Collecting
<1>3. stack = << >>
  BY <1>1, <1>2 DEF CollP!CollectorInv, CollP!Collected, CollP!Visited
<1>4. PICK c \in Nat : c = Len(objs) /\ b <= c /\ c <= b + PerJob
  BY <1>2, NewObjectsFit
<1>5. 1 .. c \subseteq ObjectIds
  BY <1>2, <1>4, IdsSuffice DEF Fits
<1>6. KidsKnown(c)
  BY <1>2, <1>3, <1>4, CollectedKnown DEF Fits
<1>7. PICK l, d : l = Kept /\ d = Dependencies
  OBVIOUS
<1>8. SortP!Construct(l, d)
  <2>1. \E x \in {Kept}, y \in {Dependencies} : Sort!Construct(x, y)
    BY DEF StartSort
  <2>2. Sort!Construct(l, d)
    BY <1>7, <2>1
  <2> QED
    BY <2>2, SameSort
<1>9. l \in Seq(b + 1 .. c)
  BY <1>2, <1>4, <1>7, KeptIsNew
<1>10. l \in Seq(ObjectIds)
  <2>1. b + 1 .. c \subseteq ObjectIds
    BY <1>4, <1>5
  <2>2. \A A, B : A \subseteq B => Seq(A) \subseteq Seq(B)
    OBVIOUS
  <2> QED
    BY <1>9, <2>1, <2>2
<1>11. d \in [ObjectIds -> Seq(ObjectIds)]
  <2>1. ASSUME NEW o \in 1 .. c PROVE objs[o].kids \in Seq(ObjectIds)
    <3>1. objs[o].kids \in Seq(0 .. c)
      <4>1. objs \in Seq(CollP!ObjectSet(c))
        BY <1>4 DEF Running
      <4>2. objs[o] \in CollP!ObjectSet(c)
        BY <1>4, <4>1
      <4> QED
        BY <4>2 DEF CollP!ObjectSet
    <3>2. \A r \in 1 .. Len(objs[o].kids) : objs[o].kids[r] \in ObjectIds
      BY <1>5, <1>6 DEF KidsKnown
    <3>3. PICK s : s = objs[o].kids
      OBVIOUS
    <3>4. s \in [1 .. Len(s) -> ObjectIds] /\ Len(s) \in Nat
      BY <3>1, <3>2, <3>3
    <3> QED
      BY <3>3, <3>4
  <2>2. << >> \in Seq(ObjectIds)
    OBVIOUS
  <2>3. \A o \in ObjectIds : (IF o \in Coll!Objects THEN objs[o].kids ELSE << >>) \in Seq(ObjectIds)
    BY <1>4, <2>1, <2>2 DEF Coll!Objects
  <2> QED
    BY <1>7, <2>3 DEF Dependencies
<1>12. SortFits'
  BY <1>8, <1>10, <1>11, SortP!ConstructFits DEF SortFits
<1>13. list' = l /\ deps' = d
  BY <1>8 DEF SortP!Construct
<1>14. d = Dependencies'
  BY <1>1, <1>7 DEF Dependencies, Coll!Objects
<1> QED
  BY <1>1, <1>4, <1>9, <1>12, <1>13, <1>14 DEF SortOf

\* The sorted types of a job are orderly, or one lacks a member for good.
LEMMA SortedFits ==
  ASSUME Running, TypesAgree, AddExports, NEW b \in Nat, CollP!Since(b), Fits(b, n - 1), SortOf(b)
  PROVE  Adding'
<1>1. /\ pc = "sort" /\ spc = "sorted" /\ k' = 1
      /\ UNCHANGED <<n, objs, result, typeSeq, typeSet>>
  BY DEF AddExports, sorter
<1>2. n <= Len(jobs) /\ CollP!CollectorInv /\ stack = << >>
  BY <1>1 DEF Running, Collecting, CollP!CollectorInv, CollP!Collected, CollP!Visited
<1>3. PICK c \in Nat : c = Len(objs) /\ b <= c /\ c <= b + PerJob
  BY <1>2, NewObjectsFit
<1>4. c <= n * PerJob /\ 1 .. c \subseteq ObjectIds
  BY <1>2, <1>3, IdsSuffice DEF Fits
<1>5. KidsKnown(c)
  BY <1>2, <1>3, CollectedKnown DEF Fits
<1>6. result \in Seq(ObjectIds) /\ SortP!Listed = Sorted
  BY <1>1, SortP!ResultIsListed DEF SortOf, SortFits, Sorted
<1>7. Sorted \subseteq b + 1 .. c
  <2>1. \A m \in 1 .. Len(list) : list[m] \in b + 1 .. c
    BY <1>3 DEF SortOf
  <2> QED
    BY <1>6, <2>1 DEF SortP!Listed
<1>8. ASSUME NEW t \in Sorted
      PROVE  /\ t \in 1 .. c /\ deps[t] = objs[t].kids
             /\ \A r \in 1 .. Len(objs[t].kids) : objs[t].kids[r] \in b + 1 .. c
  <2>1. t \in b + 1 .. c /\ t \in 1 .. c /\ t \in ObjectIds
    BY <1>3, <1>4, <1>7
  <2>2. deps[t] = objs[t].kids
    BY <1>3, <2>1 DEF SortOf, Dependencies, Coll!Objects
  <2>3. \A r \in 1 .. Len(objs[t].kids) : objs[t].kids[r] \in b + 1 .. c
    BY <1>2, <1>3, <2>1, NewKids
  <2> QED
    BY <2>1, <2>2, <2>3
<1>9. typeSet \subseteq 1 .. b
  BY DEF Fits
<1>10. ASSUME Lacks(typeSet, b) PROVE Lacks(typeSet \union Sorted, c)
  <2>1. PICK t \in typeSet : \E r \in 1 .. Len(objs[t].kids) : objs[t].kids[r] \in 1 .. b /\ objs[t].kids[r] \notin typeSet
    BY <1>10 DEF Lacks
  <2>2. PICK r \in 1 .. Len(objs[t].kids) : objs[t].kids[r] \in 1 .. b /\ objs[t].kids[r] \notin typeSet
    BY <2>1
  <2>3. objs[t].kids[r] \in 1 .. c /\ objs[t].kids[r] \notin Sorted
    BY <1>3, <1>7, <2>2
  <2> QED
    BY <2>2, <2>3 DEF Lacks
<1>11. ASSUME ~ SortP!Closed PROVE Lacks(typeSet \union Sorted, c)
  <2>1. PICK t \in Sorted : \E r \in 1 .. Len(objs[t].kids) : objs[t].kids[r] \notin Sorted
    BY <1>6, <1>8, <1>11 DEF SortP!Closed
  <2>2. PICK r \in 1 .. Len(objs[t].kids) : objs[t].kids[r] \notin Sorted
    BY <2>1
  <2>3. objs[t].kids[r] \in b + 1 .. c
    BY <1>8
  <2>4. objs[t].kids[r] \in 1 .. c /\ objs[t].kids[r] \notin typeSet
    BY <1>3, <1>9, <2>3
  <2> QED
    BY <2>2, <2>4 DEF Lacks
<1>12. ASSUME SortP!Closed, ~ Lacks(typeSet, b) PROVE Orderly(c) /\ SortedOrderly(c)
  <2>1. Orderly(c)
    <3>1. \A x, y : Leads(b, x, y) => Leads(c, x, y)
      <4> SUFFICES ASSUME NEW x, NEW y, Leads(b, x, y), NEW O, x \in O, Closes(O, c) PROVE y \in O
        BY DEF Leads
      <4>1. Closes(O, b)
        BY <1>3 DEF Closes
      <4> QED
        BY <4>1 DEF Leads
    <3>2. Orderly(b)
      BY <1>12 DEF Fits
    <3> QED
      BY <3>1, <3>2 DEF Orderly
  <2>2. ASSUME NEW t \in Sorted, NEW r \in 1 .. Len(objs[t].kids), ~ SortP!Before(objs[t].kids[r], t)
        PROVE  Leads(c, objs[t].kids[r], t)
    <3> SUFFICES ASSUME NEW O, objs[t].kids[r] \in O, Closes(O, c) PROVE t \in O
      BY DEF Leads
    <3>1. \A s \in O : s \in SortP!Listed => \A m \in 1 .. Len(deps[s]) : deps[s][m] \in O
      BY <1>6, <1>8 DEF Closes
    <3>2. t \in SortP!Listed /\ deps[t] = objs[t].kids /\ r \in 1 .. Len(deps[t]) /\ deps[t][r] \in O
      BY <1>6, <1>8
    <3>3. SortP!Before(deps[t][r], t) \/ t \in O
      BY <1>1, <1>12, <3>1, <3>2, SortP!AfterOrTogether DEF SortOf, SortFits
    <3> QED
      BY <2>2, <3>2, <3>3
  <2> QED
    BY <2>1, <2>2 DEF SortedOrderly
<1>13. Lacks(typeSet \union Sorted, c) \/ (Orderly(c) /\ SortedOrderly(c))
  BY <1>10, <1>11, <1>12
<1>14. Sorted' = Sorted /\ \A s, t : SortP!Before(s, t)' <=> SortP!Before(s, t)
  BY <1>1 DEF Sorted, SortP!Before
<1>15. \A x, y : Leads(c, x, y)' <=> Leads(c, x, y)
  BY <1>1 DEF Leads, Closes
<1>16. PICK S : S = typeSet \union Sorted
  OBVIOUS
<1>17. Lacks(S, c)' <=> Lacks(S, c)
  BY <1>1 DEF Lacks
<1>18. Orderly(c)' <=> Orderly(c)
  BY <1>1, <1>15 DEF Orderly
<1>19. SortedOrderly(c)' <=> SortedOrderly(c)
  BY <1>1, <1>14, <1>15 DEF SortedOrderly
<1>20. KidsKnown(c)'
  BY <1>1, <1>5 DEF KidsKnown
<1>21. IsSeq(result)'
  BY <1>1, <1>6 DEF IsSeq
<1>22. (typeSet \union Sorted)' = S /\ S \subseteq 1 .. c /\ c = Len(objs')
  BY <1>1, <1>3, <1>7, <1>9, <1>14, <1>16
<1>23. \A p \in 1 .. Len(result') : ~ (p < k')
  BY <1>1, <1>6
<1>24. (c <= n * PerJob)'
  BY <1>1, <1>4 DEF PerJob
<1>25. (Lacks(S, c) \/ (Orderly(c) /\ SortedOrderly(c)))'
  BY <1>13, <1>16, <1>17, <1>18, <1>19
<1>26. Lacks(S, c)' => Lacks(typeSet \union Sorted, Len(objs))'
  BY <1>22 DEF Lacks
<1>27. Orderly(c)' /\ SortedOrderly(c)' => Orderly(Len(objs))' /\ SortedOrderly(Len(objs))'
  BY <1>22 DEF Orderly, SortedOrderly, Leads, Closes
<1>28. KidsKnown(Len(objs))'
  BY <1>20, <1>22 DEF KidsKnown
<1>29. (k \in Nat \ {0})' /\ (typeSet \union Sorted \subseteq 1 .. Len(objs))'
  <2>1. (k \in Nat \ {0})'
    BY <1>1
  <2>2. PICK D : D = (typeSet \union Sorted)'
    OBVIOUS
  <2>3. D = S /\ D \subseteq 1 .. Len(objs')
    BY <1>22, <2>2
  <2> QED
    BY <2>1, <2>2, <2>3
<1>30. (Len(objs) <= n * PerJob)'
  <2>1. c = Len(objs)'
    BY <1>22
  <2> QED
    BY <1>24, <2>1 DEF PerJob
<1> QED
  BY <1>21, <1>23, <1>25, <1>26, <1>27, <1>28, <1>29, <1>30 DEF Adding

\* A type goes into the catalog: its members are there, or lead back to it, or
\* one of them will always be missing.
LEMMA TypeAdded ==
  ASSUME TypesAgree, Adding, AddType
  PROVE  TypesAgree' /\ Adding'
<1>1. /\ k <= Len(result) /\ k' = k + 1 /\ UNCHANGED <<n, objs, result>>
      /\ IsSeq(result) /\ k \in Nat \ {0} /\ Len(result) \in Nat
  BY DEF AddType, sorter, Adding, IsSeq
<1>2. PICK t, N : t = result[k] /\ N = Len(typeSeq)
  OBVIOUS
<1>3. /\ typeSet' = typeSet \union {t}
      /\ typeSeq' = IF t \in typeSet THEN typeSeq ELSE Append(typeSeq, t)
      /\ t \in Sorted
  BY <1>1, <1>2 DEF AddType, Cat!addType, Sorted
<1>4. /\ IsSeq(typeSeq) /\ N \in Nat /\ typeSet = {typeSeq[m] : m \in 1 .. N}
      /\ \A x, y \in 1 .. N : typeSeq[x] = typeSeq[y] => x = y
  BY <1>2 DEF TypesAgree, IsSeq
<1>5. ASSUME t \notin typeSet
      PROVE  /\ IsSeq(typeSeq') /\ Len(typeSeq') = N + 1 /\ typeSeq'[N + 1] = t
             /\ \A m \in 1 .. N : typeSeq'[m] = typeSeq[m]
  <2>1. typeSeq' = Append(typeSeq, t)
    BY <1>3, <1>5
  <2>2. PICK s : s = typeSeq
    OBVIOUS
  <2>3. IsSeq(s)
    BY <1>4, <2>2, Zenon
  <2>4. /\ IsSeq(Append(s, t)) /\ Len(Append(s, t)) = Len(s) + 1
        /\ \A m \in 1 .. Len(s) : Append(s, t)[m] = s[m]
        /\ Append(s, t)[Len(s) + 1] = t
    BY ONLY <2>3, SeqAppend
  <2> QED
    BY <1>2, <2>1, <2>2, <2>4
<1>6. TypesAgree'
  <2>1. CASE t \in typeSet
    BY <1>2, <1>3, <1>4, <2>1 DEF TypesAgree
  <2>2. CASE t \notin typeSet
    <3>1. {typeSeq'[m] : m \in 1 .. N + 1} = typeSet \union {t}
      BY <1>4, <1>5, <2>2
    <3>2. ASSUME NEW x \in 1 .. N + 1, NEW y \in 1 .. N + 1, typeSeq'[x] = typeSeq'[y] PROVE x = y
      BY <1>4, <1>5, <2>2, <3>2
    <3> QED
      BY <1>3, <1>5, <2>2, <3>1, <3>2 DEF TypesAgree
  <2> QED
    BY <2>1, <2>2
<1>7. PICK S, c : S = typeSet \union Sorted /\ c = Len(objs)
  OBVIOUS
<1>8. Sorted' = Sorted /\ \A x, y : SortP!Before(x, y)' <=> SortP!Before(x, y)
  BY <1>1 DEF Sorted, SortP!Before
<1>9. \A x, y : Leads(c, x, y)' <=> Leads(c, x, y)
  BY <1>1 DEF Leads, Closes
<1>10. ASSUME Orderly(c), SortedOrderly(c), t \notin typeSet PROVE Orderly(c)'
  <2> SUFFICES ASSUME NEW m \in 1 .. N + 1, NEW r \in 1 .. Len(objs[typeSeq'[m]].kids)
               PROVE  \/ \E p \in 1 .. m - 1 : typeSeq'[p] = objs[typeSeq'[m]].kids[r]
                      \/ Leads(c, objs[typeSeq'[m]].kids[r], typeSeq'[m])
    BY <1>1, <1>5, <1>9, <1>10 DEF Orderly
  <2>1. CASE m \in 1 .. N
    <3>1. typeSeq'[m] = typeSeq[m] /\ \A p \in 1 .. m - 1 : typeSeq'[p] = typeSeq[p]
      BY <1>4, <1>5, <1>10, <2>1
    <3> QED
      BY <1>2, <1>10, <2>1, <3>1 DEF Orderly
  <2>2. CASE m = N + 1
    <3>1. typeSeq'[m] = t
      BY <1>5, <1>10, <2>2
    <3>2. PICK x : x = objs[t].kids[r]
      OBVIOUS
    <3>3. SortP!Before(x, t) \/ Leads(c, x, t)
      BY <1>3, <1>10, <3>1, <3>2 DEF SortedOrderly
    <3>4. ASSUME SortP!Before(x, t) PROVE \E p \in 1 .. N : typeSeq[p] = x
      <4>1. PICK p \in 1 .. Len(result) : result[p] = x /\ \A q \in 1 .. p : result[q] # t
        BY <3>4 DEF SortP!Before
      <4>2. p < k
        BY <1>1, <1>2, <4>1
      <4>3. x \in typeSet
        BY <4>1, <4>2 DEF Adding
      <4> QED
        BY <1>4, <4>3
    <3> QED
      <4>1. CASE SortP!Before(x, t)
        <5>1. PICK p \in 1 .. N : typeSeq[p] = x
          BY <3>4, <4>1
        <5>2. p \in 1 .. m - 1 /\ typeSeq'[p] = x
          BY <1>4, <1>5, <1>10, <2>2, <5>1
        <5> QED
          BY <3>1, <3>2, <5>2
      <4>2. CASE Leads(c, x, t)
        BY <3>1, <3>2, <4>2
      <4> QED
        BY <3>3, <4>1, <4>2
  <2> QED
    BY <1>4, <2>1, <2>2
<1>11. ASSUME Orderly(c), SortedOrderly(c) PROVE Orderly(c)'
  <2>1. CASE t \in typeSet
    <3>1. typeSeq' = typeSeq
      BY <1>3, <2>1
    <3> QED
      BY <1>1, <1>9, <1>11, <3>1 DEF Orderly
  <2> QED
    BY <1>10, <1>11, <2>1
<1>12. SortedOrderly(c) => SortedOrderly(c)'
  BY <1>1, <1>8, <1>9 DEF SortedOrderly
<1>13. Lacks(S, c) => Lacks(S, c)'
  BY <1>1 DEF Lacks
<1>14. S = (typeSet \union Sorted)'
  BY <1>3, <1>7, <1>8
<1>15. (Lacks(typeSet \union Sorted, Len(objs)) \/ (Orderly(Len(objs)) /\ SortedOrderly(Len(objs))))'
  <2>1. Lacks(S, c)' \/ (Orderly(c)' /\ SortedOrderly(c)')
    <3>1. Lacks(S, c) \/ (Orderly(c) /\ SortedOrderly(c))
      BY <1>7 DEF Adding
    <3> QED
      BY <1>11, <1>12, <1>13, <3>1
  <2>2. c = Len(objs')
    BY <1>1, <1>7
  <2>3. Lacks(S, c)' => Lacks(typeSet \union Sorted, Len(objs))'
    BY <1>14, <2>2 DEF Lacks
  <2>4. Orderly(c)' /\ SortedOrderly(c)' => Orderly(Len(objs))' /\ SortedOrderly(Len(objs))'
    BY <2>2 DEF Orderly, SortedOrderly, Leads, Closes
  <2> QED
    BY <2>1, <2>3, <2>4
<1>16. KidsKnown(Len(objs))'
  BY <1>1 DEF Adding, KidsKnown
<1>17. (typeSet \union Sorted \subseteq 1 .. Len(objs))'
  <2>1. PICK D : D = (typeSet \union Sorted)'
    OBVIOUS
  <2>2. D \subseteq 1 .. Len(objs')
    BY <1>1, <1>7, <1>14, <2>1 DEF Adding
  <2> QED
    BY <2>1, <2>2
<1>18. \A p \in 1 .. Len(result') : p < k' => result'[p] \in typeSet'
  <2> SUFFICES ASSUME NEW p \in 1 .. Len(result), p < k + 1 PROVE result[p] \in typeSet \union {t}
    BY <1>1, <1>3
  <2>1. p < k \/ p = k
    BY <1>1
  <2> QED
    BY <1>2, <2>1 DEF Adding
<1>19. (Len(objs) <= n * PerJob)'
  BY <1>1 DEF Adding, PerJob
<1>20. IsSeq(result)' /\ k' \in Nat \ {0}
  BY <1>1 DEF IsSeq
<1> QED
  BY <1>6, <1>15, <1>16, <1>17, <1>18, <1>19, <1>20 DEF Adding

LEMMA AddingStays ==
  ASSUME Adding, UNCHANGED <<n, k, objs, result, typeSeq, typeSet>>
  PROVE  Adding'
<1>1. Sorted' = Sorted /\ \A x, y : SortP!Before(x, y)' <=> SortP!Before(x, y)
  BY DEF Sorted, SortP!Before
<1>2. (typeSet \union Sorted)' = typeSet \union Sorted
  BY <1>1
<1>3. (IsSeq(result) /\ k \in Nat \ {0} /\ \A p \in 1 .. Len(result) : p < k => result[p] \in typeSet)'
  BY DEF Adding, IsSeq
<1>4. (typeSet \union Sorted \subseteq 1 .. Len(objs))'
  BY <1>2 DEF Adding
<1>5. (Len(objs) <= n * PerJob)'
  BY DEF Adding, PerJob
<1>6. KidsKnown(Len(objs))'
  BY DEF Adding, KidsKnown
<1>7. Lacks(typeSet \union Sorted, Len(objs)) => Lacks(typeSet \union Sorted, Len(objs))'
  BY <1>2 DEF Lacks
<1>8. Orderly(Len(objs)) /\ SortedOrderly(Len(objs)) => Orderly(Len(objs))' /\ SortedOrderly(Len(objs))'
  BY <1>1 DEF Orderly, SortedOrderly, Leads, Closes
<1> QED
  BY <1>3, <1>4, <1>5, <1>6, <1>7, <1>8 DEF Adding

\* A job is done when all its types have been added.
LEMMA JobDone ==
  ASSUME Adding, NextJob, TypesAgree, NEW b, b = Len(objs), NEW e, e = n
  PROVE  Fits(b, e)
<1>1. IsSeq(result) /\ k > Len(result) /\ k \in Nat
  BY DEF NextJob, Adding
<1>2. Len(result) \in Nat
  BY <1>1 DEF IsSeq
<1>3. Sorted \subseteq typeSet
  BY <1>1, <1>2 DEF Adding, Sorted
<1>4. typeSet \union Sorted = typeSet
  BY <1>3
<1>5. typeSet \subseteq 1 .. b /\ b <= e * PerJob /\ KidsKnown(b)
  BY <1>4 DEF Adding
<1>6. Lacks(typeSet, b) \/ Orderly(b)
  BY <1>4 DEF Adding
<1> QED
  BY <1>5, <1>6 DEF Fits

\* The invariant after a step, in the two cases that say something.
LEMMA InJob ==
  ASSUME TypesAgree', NEW b \in Nat, NEW e, e = n' - 1, CollP!Since(b)', Fits(b, e)',
         pc' \in {"collect", "sort"}, pc' = "sort" => SortOf(b)'
  PROVE  OrderInv'
<1>1. Fits(b, n - 1)'
  BY DEF Fits, PerJob
<1> QED
  BY <1>1 DEF OrderInv

LEMMA BetweenJobs ==
  ASSUME TypesAgree', NEW b, b = Len(objs'), NEW e, e = n' - 1, Fits(b, e)', pc' \in {"job", "write", "written", "error", "overflow"}
  PROVE  OrderInv'
<1>1. Fits(Len(objs), n - 1)'
  BY DEF Fits, PerJob, Lacks, Orderly, KidsKnown, Leads, Closes
<1> QED
  BY <1>1 DEF OrderInv

LEMMA OrderInit == Init => OrderInv
<1> SUFFICES ASSUME Init PROVE OrderInv
  OBVIOUS
<1>1. typeSeq = << >> /\ typeSet = {} /\ objs = << >> /\ n = 1 /\ pc = "job"
  BY DEF Init, Cat!CatalogInit
<1>2. IsSeq(typeSeq)
  <2>1. << >> \in Seq({})
    OBVIOUS
  <2> QED
    BY <1>1, <2>1 DEF IsSeq
<1>3. TypesAgree
  BY <1>1, <1>2 DEF TypesAgree
<1>4. Fits(0, 0)
  <2>1. 0 <= 0 * PerJob
    <3>1. PICK P \in Nat : P = PerJob
      BY KeysFinite
    <3> QED
      BY <3>1
  <2> QED
    BY <1>1, <2>1 DEF Fits, KidsKnown, Orderly
<1>5. Fits(Len(objs), n - 1)
  <2>1. Len(objs) = 0 /\ n - 1 = 0
    BY <1>1
  <2> QED
    BY <1>4, <2>1
<1> QED
  BY <1>1, <1>3, <1>5 DEF OrderInv

LEMMA OrderSame ==
  ASSUME Running, OrderInv, UNCHANGED vars
  PROVE  OrderInv'
<1>1. /\ UNCHANGED <<pc, n, k, objs, result, typeSeq, typeSet, list, deps>>
      /\ UNCHANGED collects /\ UNCHANGED sorter
  BY DEF vars, collector, collects, sorter, catalog
<1>2. TypesAgree'
  BY <1>1, TypesStay DEF OrderInv
<1>3. ASSUME NEW b, NEW e, Fits(b, e) PROVE Fits(b, e)'
  BY <1>1, <1>3 DEF Fits, PerJob, KidsKnown, Lacks, Orderly, Leads, Closes
<1>4. PICK e : e = n - 1
  OBVIOUS
<1>5. CASE pc \in {"job", "write", "written"}
  <2>1. PICK b : b = Len(objs)
    OBVIOUS
  <2>2. Fits(b, e)'
    BY <1>3, <1>4, <1>5, <2>1 DEF OrderInv
  <2> QED
    BY <1>1, <1>2, <1>4, <1>5, <2>1, <2>2, BetweenJobs
<1>6. CASE pc \in {"collect", "sort"}
  <2>1. PICK b \in Nat : CollP!Since(b) /\ Fits(b, n - 1) /\ (pc = "sort" => SortOf(b))
    BY <1>6 DEF OrderInv
  <2>2. Fits(b, e)'
    BY <1>3, <1>4, <2>1
  <2>3. CollP!Since(b)'
    BY <1>1, <1>6, <2>1, CollectorStays DEF Running, Collecting
  <2>4. SortOf(b) => SortOf(b)'
    BY <1>1, SorterStays DEF SortOf, Dependencies, Coll!Objects
  <2> QED
    BY <1>1, <1>2, <1>4, <1>6, <2>1, <2>2, <2>3, <2>4, InJob
<1>7. CASE pc = "types"
  <2>1. Adding'
    BY <1>1, <1>7, AddingStays DEF OrderInv
  <2> QED
    BY <1>1, <1>2, <1>7, <2>1 DEF OrderInv
<1> QED
  BY <1>1, <1>2, <1>5, <1>6, <1>7 DEF OrderInv

LEMMA OrderStep ==
  ASSUME Running, OrderInv, [Next]_vars
  PROVE  OrderInv'
<1> PICK e : e = n - 1
  OBVIOUS
<1>1. TypesAgree /\ (UNCHANGED <<typeSeq, typeSet>> => TypesAgree')
  BY TypesStay DEF OrderInv
<1>2. ASSUME pc \in {"job", "write"} PROVE Fits(Len(objs), e) /\ Len(objs) \in Nat
  BY <1>2 DEF OrderInv, Running
<1>3. ASSUME pc \in {"collect", "sort"}
      PROVE  /\ CollP!CollectorInv /\ n <= Len(jobs)
             /\ \E b \in Nat : CollP!Since(b) /\ Fits(b, e) /\ (pc = "sort" => SortOf(b))
  BY <1>3 DEF OrderInv, Running, Collecting
<1>4. CASE GatherDecls
  <2>1. pc = "job" /\ pc' = "collect" /\ UNCHANGED <<n, objs, typeSeq, typeSet>>
    BY <1>4 DEF GatherDecls, Coll!Begin, catalog
  <2>2. PICK b \in Nat : b = Len(objs) /\ Fits(b, e)
    BY <1>2, <2>1
  <2>3. CollP!Since(b)'
    BY <1>4, <2>2, RunningGathers
  <2>4. Fits(b, e)'
    BY <1>1, <2>1, <2>2, FitsStays
  <2> QED
    BY <1>1, <2>1, <2>3, <2>4, InJob
<1>5. CASE GatherFails \/ CollectFails
  <2>1. pc' = "error" /\ UNCHANGED <<typeSeq, typeSet>>
    BY <1>5 DEF GatherFails, CollectFails, catalog
  <2> QED
    BY <1>1, <2>1 DEF OrderInv
<1>6. CASE Collect
  <2>1. pc = "collect" /\ pc' = "collect" /\ CollP!CollStep /\ UNCHANGED <<n, typeSeq, typeSet>>
    BY <1>6, SameStep DEF Collect, catalog
  <2>2. PICK b \in Nat : CollP!Since(b) /\ Fits(b, e)
    BY <1>3, <2>1
  <2>3. CollP!Since(b)' /\ \A o \in 1 .. b : objs'[o] = objs[o]
    BY <1>3, <2>1, <2>2, CollectorSince
  <2>4. Fits(b, e)'
    BY <1>1, <2>1, <2>2, <2>3, FitsStays
  <2> QED
    BY <1>1, <2>1, <2>3, <2>4, InJob
<1>7. CASE StartSort
  <2>1. pc = "collect" /\ pc' = "sort" /\ UNCHANGED <<n, objs, typeSeq, typeSet>> /\ UNCHANGED collects
    BY <1>7 DEF StartSort, catalog, collector, collects
  <2>2. PICK b \in Nat : CollP!Since(b) /\ Fits(b, e)
    BY <1>3, <2>1
  <2>3. CollP!Since(b)'
    BY <1>3, <2>1, <2>2, CollectorStays
  <2>4. Fits(b, e)'
    BY <1>1, <2>1, <2>2, FitsStays
  <2>5. SortOf(b)'
    BY <1>7, <2>2, SortStarts
  <2> QED
    BY <1>1, <2>1, <2>3, <2>4, <2>5, InJob
<1>8. CASE SortTypes
  <2>1. pc = "sort" /\ pc' = "sort" /\ Sort!Step /\ UNCHANGED <<n, objs, typeSeq, typeSet>> /\ UNCHANGED collects
    BY <1>8 DEF SortTypes, catalog, collector, collects
  <2>2. PICK b \in Nat : CollP!Since(b) /\ Fits(b, e) /\ SortOf(b)
    BY <1>3, <2>1
  <2>3. CollP!Since(b)'
    BY <1>3, <2>1, <2>2, CollectorStays
  <2>4. Fits(b, e)'
    BY <1>1, <2>1, <2>2, FitsStays
  <2>5. SortOf(b)'
    <3>1. SortFits' /\ list' = list /\ deps' = deps
      BY <2>1, <2>2, SorterSteps DEF SortOf
    <3> QED
      BY <2>1, <2>2, <3>1 DEF SortOf, Dependencies, Coll!Objects
  <2> QED
    BY <1>1, <2>1, <2>3, <2>4, <2>5, InJob
<1>9. CASE AddExports
  <2>1. pc = "sort" /\ pc' = "types" /\ UNCHANGED <<typeSeq, typeSet>>
    BY <1>9 DEF AddExports
  <2>2. PICK b \in Nat : CollP!Since(b) /\ Fits(b, e) /\ SortOf(b)
    BY <1>3, <2>1
  <2>3. Adding'
    BY <1>1, <1>9, <2>2, SortedFits
  <2> QED
    BY <1>1, <2>1, <2>3 DEF OrderInv
<1>10. CASE AddType
  <2>1. pc = "types" /\ pc' = "types"
    BY <1>10 DEF AddType
  <2>2. TypesAgree' /\ Adding'
    BY <1>1, <1>10, <2>1, TypeAdded DEF OrderInv
  <2> QED
    BY <2>1, <2>2 DEF OrderInv
<1>11. CASE NextJob
  <2>1. pc = "types" /\ pc' = "job" /\ n' = n + 1 /\ UNCHANGED <<objs, typeSeq, typeSet>> /\ n \in Nat
    BY <1>11 DEF NextJob, catalog, Running
  <2>2. PICK b, d : b = Len(objs) /\ d = n
    OBVIOUS
  <2>3. Fits(b, d) /\ b \in Nat
    BY <1>1, <1>11, <2>1, <2>2, JobDone DEF OrderInv, Running
  <2>4. Fits(b, d)'
    BY <1>1, <2>1, <2>3, FitsStays
  <2>5. d = n' - 1 /\ b = Len(objs')
    BY <2>1, <2>2
  <2> QED
    BY <1>1, <2>1, <2>4, <2>5, BetweenJobs
<1>12. CASE Write \/ WriteStep
  <2>1. pc \in {"job", "write"} /\ pc' \in {"write", "written", "error", "overflow"} /\ UNCHANGED <<n, objs, typeSeq, typeSet>>
    <3>1. CASE Write
      BY <3>1 DEF Write, catalog
    <3>2. CASE WriteStep
      BY <3>2 DEF WriteStep, Writer!Step, Writer!Start, Writer!WriteType, Writer!TypeMissing, Writer!WriteExport,
         Writer!ExportMissing, Writer!PrintCatalog, Writer!input
    <3> QED
      BY <1>12, <3>1, <3>2
  <2>2. PICK b \in Nat : b = Len(objs) /\ Fits(b, e)
    BY <1>2, <2>1
  <2>3. Fits(b, e)'
    BY <1>1, <2>1, <2>2, FitsStays
  <2> QED
    BY <1>1, <2>1, <2>2, <2>3, BetweenJobs
<1>13. CASE UNCHANGED vars
  BY <1>13, OrderSame
<1> QED
  BY <1>4, <1>5, <1>6, <1>7, <1>8, <1>9, <1>10, <1>11, <1>12, <1>13 DEF Next, Step, Gone

\* The number of a type in the catalog is its only position there.
LEMMA NumberIs ==
  ASSUME WriterInv, TypesAgree, wpc = "written", NEW p \in 1 .. Len(typeSeq), typeSeq[p] \in DOMAIN index
  PROVE  index[typeSeq[p]] = p
BY NumbersLead DEF WriterInv, TypesAgree

\* In an output all members are numbered, so none is missing.
LEMMA NothingLacks ==
  ASSUME WriterInv, TypesAgree, wpc = "written", NEW b
  PROVE  ~ Lacks(typeSet, b)
<1> SUFFICES ASSUME NEW t \in typeSet, NEW r \in 1 .. Len(objs[t].kids) PROVE objs[t].kids[r] \in typeSet
  BY DEF Lacks
<1>1. Len(messages) = Len(typeSeq)
  BY DEF WriterInv
<1>2. PICK m \in 1 .. Len(messages) : typeSeq[m] = t
  BY <1>1 DEF TypesAgree
<1>3. MessageFits(m)
  BY DEF WriterInv
<1>4. objs[t].kids[r] \in DOMAIN index
  BY <1>2, <1>3 DEF MessageFits
<1>5. PICK c : c = objs[t].kids[r]
  OBVIOUS
<1>6. index[c] \in 1 .. Len(typeSeq) /\ typeSeq[index[c]] = c
  BY <1>1, <1>4, <1>5, NumbersLead
<1> QED
  BY <1>5, <1>6 DEF TypesAgree

\* Where a type leads to another the messages do.
LEMMA MessagesLead ==
  ASSUME WriterInv, TypesAgree, wpc = "written", NEW b \in Nat, typeSet \subseteq 1 .. b,
         NEW x \in DOMAIN index, NEW m \in 1 .. Len(messages), Leads(b, x, typeSeq[m])
  PROVE  LeadsTo(index[x], m)
<1>1. Len(messages) = Len(typeSeq) /\ \A y \in DOMAIN index : index[y] \in 1 .. Len(messages) /\ typeSeq[index[y]] = y
  BY NumbersLead DEF WriterInv
<1> SUFFICES ASSUME NEW S \in SUBSET (1 .. Len(messages)), index[x] \in S,
                    \A s \in S : \A r \in 1 .. Len(messages[s].refs) : messages[s].refs[r] \in S
             PROVE  m \in S
  BY DEF LeadsTo
<1>2. PICK O : O = {y \in DOMAIN index : index[y] \in S}
  OBVIOUS
<1>3. Closes(O, b)
  <2> SUFFICES ASSUME NEW s \in O, NEW r \in 1 .. Len(objs[s].kids) PROVE objs[s].kids[r] \in O
    BY DEF Closes
  <2>1. PICK a : a = index[s]
    OBVIOUS
  <2>2. a \in S /\ a \in 1 .. Len(messages) /\ typeSeq[a] = s
    BY <1>1, <1>2, <2>1
  <2>3. MessageFits(a)
    BY <2>2 DEF WriterInv
  <2>4. /\ messages[a].refs = [q \in 1 .. Len(objs[s].kids) |-> index[objs[s].kids[q]]]
        /\ objs[s].kids[r] \in DOMAIN index
    BY <2>2, <2>3 DEF MessageFits
  <2>5. Len(messages[a].refs) = Len(objs[s].kids) /\ messages[a].refs[r] = index[objs[s].kids[r]]
    <3>1. Len(objs[s].kids) \in Nat
      BY <2>4
    <3> QED
      BY <2>4, <3>1
  <2>6. index[objs[s].kids[r]] \in S
    BY <2>2, <2>5
  <2> QED
    BY <1>2, <2>4, <2>6
<1>4. typeSeq[m] \in O
  BY <1>2, <1>3 DEF Leads
<1>5. index[typeSeq[m]] = m
  BY <1>1, <1>2, <1>4, NumberIs
<1> QED
  BY <1>2, <1>4, <1>5

\* "the types are topologically sorted" (src/clang.cpp:661), in what is written
\* for all the jobs together: whatever the units, the filter and the order in
\* which the collector meets the types, each message comes after the messages it
\* refers to, except those that lead back to it.
THEOREM OutputIsOrdered == Spec => []OutputOrdered
<1>1. Init => Running /\ WriterInv /\ OrderInv
  BY RunningInit, WriterInit, OrderInit
<1>2. Running /\ WriterInv /\ OrderInv /\ [Next]_vars => (Running /\ WriterInv /\ OrderInv)'
  BY RunningStep, WriterStep, OrderStep
<1>3. Running /\ WriterInv /\ OrderInv => OutputOrdered
  <2> SUFFICES ASSUME Running, WriterInv, OrderInv, pc = "written",
                      NEW m \in 1 .. Len(messages), NEW r \in 1 .. Len(messages[m].refs)
               PROVE  messages[m].refs[r] < m \/ LeadsTo(messages[m].refs[r], m)
    BY DEF OutputOrdered
  <2>1. wpc = "written" /\ MessageFits(m) /\ Len(messages) = Len(typeSeq) /\ Len(objs) \in Nat /\ TypesAgree
    BY DEF WriterInv, OrderInv, Running
  <2>2. PICK b, e : b = Len(objs) /\ e = n - 1 /\ b \in Nat
    BY <2>1
  <2>3. Fits(b, e)
    BY <2>2 DEF OrderInv
  <2>4. typeSet \subseteq 1 .. b /\ Orderly(b)
    BY <2>1, <2>3, NothingLacks DEF Fits
  <2>5. PICK o : o = typeSeq[m]
    OBVIOUS
  <2>6. /\ messages[m].refs = [q \in 1 .. Len(objs[o].kids) |-> index[objs[o].kids[q]]]
        /\ \A q \in 1 .. Len(objs[o].kids) : objs[o].kids[q] \in DOMAIN index
    BY <2>1, <2>5 DEF MessageFits
  <2>7. PICK x : x = objs[o].kids[r]
    OBVIOUS
  <2>8. messages[m].refs[r] = index[x] /\ x \in DOMAIN index /\ r \in 1 .. Len(objs[o].kids)
    <3>1. PICK N : N = Len(objs[o].kids)
      OBVIOUS
    <3>2. Len(messages[m].refs) = N
      BY <2>6, <3>1
    <3> QED
      BY <2>6, <2>7, <3>1, <3>2
  <2>9. (\E p \in 1 .. m - 1 : typeSeq[p] = x) \/ Leads(b, x, o)
    BY <2>1, <2>4, <2>5, <2>7, <2>8 DEF Orderly
  <2>10. CASE \E p \in 1 .. m - 1 : typeSeq[p] = x
    <3>1. PICK p \in 1 .. m - 1 : typeSeq[p] = x
      BY <2>10
    <3>2. p \in 1 .. Len(typeSeq) /\ p < m
      BY <2>1
    <3>3. index[typeSeq[p]] = p
      BY <2>1, <2>8, <3>1, <3>2, NumberIs
    <3> QED
      BY <2>8, <3>1, <3>2, <3>3
  <2>11. CASE Leads(b, x, o)
    BY <2>1, <2>2, <2>4, <2>5, <2>8, <2>11, MessagesLead
  <2> QED
    BY <2>9, <2>10, <2>11
<1> QED
  BY <1>1, <1>2, <1>3, PTL DEF Spec

-------------------------------------------------------------------------------
(* What affc as a whole implements.                                          *)

\* What a failing job leaves: an exception of the collector, which only a unit
\* that is not sound has; and nothing is marked but for a redeclared record.
Sounding ==
  /\ pc \in {"job", "sort", "types"} => ~ failed
  /\ pc \in {"collect", "sort"} => ~ Unit.errors /\ ~ Throws(filter, Unit) /\ CollP!Blamed
  /\ pc = "collect" /\ failed => stack # << >> /\ ~ Sound(<<filter, Unit>>)

\* A set that makes a unit sound covers what the collector works on.
LEMMA SoundCovers ==
  ASSUME OfUnit, NEW S \in SUBSET ClangTypes
  PROVE  CollP!Covers(S) /\ (\A t \in S : CollP!KindOf(t) # "other") <=>
           /\ \A d \in WantedBy(filter, Unit) : d.type[1] \in S
           /\ \A t \in S : \A r \in 1 .. Len(Unit.parts[t]) : Unit.parts[t][r][1] \in S
           /\ \A t \in S : Unit.kind[t] # "other"
<1>1. ast.kind = Unit.kind /\ ast.parts = Unit.parts /\ ast.decls = Decls(filter, Unit)
  BY DEF OfUnit
<1>2. (\A d \in ast.decls : d.kind # "alias" => d.type[1] \in S) <=> \A d \in WantedBy(filter, Unit) : d.type[1] \in S
  BY <1>1 DEF WantedBy
<1>3. \A t : CollP!KindOf(t) = Unit.kind[t] /\ CollP!PartsOf(t) = Unit.parts[t]
  BY <1>1 DEF CollP!KindOf, CollP!PartsOf
<1> QED
  BY <1>2, <1>3 DEF CollP!Covers

\* All the calls are about types that the unit leads to.
LEMMA TopCovered ==
  ASSUME CollP!CollectorInv, stack # << >>, NEW S, CollP!Covers(S)
  PROVE  stack[Len(stack)].clang[1] \in S
<1>1. Len(stack) \in Nat /\ Len(stack) > 0
  <2>1. stack \in Seq(CollP!FrameSet(Len(objs)))
    BY DEF CollP!CollectorInv, CollP!Typed
  <2> QED
    BY <2>1
<1>2. /\ stack[1].clang[1] \in S
      /\ \A p \in 1 .. Len(stack) - 1 : stack[p].clang[1] \in S => stack[p + 1].clang[1] \in S
  BY UnitsFit, CollP!CallsCovered
<1>3. PICK G : G = {m \in Nat : m + 1 <= Len(stack) => stack[m + 1].clang[1] \in S}
  OBVIOUS
<1>4. 0 \in G
  BY <1>2, <1>3
<1>5. ASSUME NEW m \in Nat, m > 0, m - 1 \in G PROVE m \in G
  <2> SUFFICES ASSUME m + 1 <= Len(stack) PROVE stack[m + 1].clang[1] \in S
    BY <1>3
  <2>1. m \in 1 .. Len(stack) - 1 /\ m - 1 + 1 = m /\ m - 1 + 1 <= Len(stack)
    BY <1>1, <1>5
  <2>2. stack[m].clang[1] \in S
    BY <1>3, <1>5, <2>1
  <2> QED
    BY <1>2, <2>1, <2>2
<1>6. Len(stack) - 1 \in G /\ Len(stack) - 1 \in Nat
  BY <1>1, <1>4, <1>5, Upwards
<1> QED
  BY <1>1, <1>3, <1>6

LEMMA SoundnessFails ==
  ASSUME Running, Sounding, Collect, failed' # FALSE
  PROVE  stack' # << >> /\ ~ Sound(<<filter, Unit>>)
<1>1. pc = "collect" /\ CollP!CollStep /\ CollP!CollectorInv /\ OfUnit
  BY SameStep DEF Collect, Running, Collecting
<1>2. failed = FALSE
  <2>1. CASE failed = TRUE
    <3>1. stack # << >>
      BY <1>1, <2>1 DEF Sounding
    <3> QED
      BY <1>1, <2>1, <3>1, UnitsFit, CollP!FailedStops
  <2>2. failed \in BOOLEAN
    BY DEF Running
  <2> QED
    BY <2>1, <2>2, Zenon
<1>3. UNCHANGED stack /\ stack # << >> /\ CollP!KindOf(stack[Len(stack)].clang[1]) = "other"
  BY <1>1, <1>2, UnitsFit, CollP!FailsAtOther
<1>4. ASSUME Sound(<<filter, Unit>>) PROVE FALSE
  <2>1. PICK S \in SUBSET ClangTypes : CollP!Covers(S) /\ \A t \in S : CollP!KindOf(t) # "other"
    <3>1. PICK S \in SUBSET ClangTypes :
                 /\ \A d \in WantedBy(filter, Unit) : d.type[1] \in S
                 /\ \A t \in S : \A r \in 1 .. Len(Unit.parts[t]) : Unit.parts[t][r][1] \in S
                 /\ \A t \in S : Unit.kind[t] # "other"
      BY <1>4 DEF Sound, SoundBelow
    <3> QED
      BY <1>1, <3>1, SoundCovers
  <2>2. stack[Len(stack)].clang[1] \in S
    BY <1>1, <1>3, <2>1, TopCovered
  <2> QED
    BY <1>3, <2>1, <2>2
<1> QED
  BY <1>3, <1>4

\* What could be converted may lack what a form with extended qualifiers hides.
LEMMA PassableHolds ==
  ASSUME Running, Sounding, pc = "sort"
  PROVE  Passable(<<filter, Unit>>)
<1>1. CollP!CollectorInv /\ CollP!Collected /\ OfUnit
  BY DEF Running, Collecting
<1>2. PICK S \in SUBSET ClangTypes : CollP!CoversBut(S) /\ \A t \in S : CollP!KindOf(t) # "other"
  BY <1>1, UnitsFit, CollP!CollectedIsCovered
<1>3. PICK hidden : hidden = {t \in ClangTypes : Coll!Mixed(Unit, t) /\ Unit.kind[t] # "sugar"}
  OBVIOUS
<1>4. ast.kind = Unit.kind /\ ast.parts = Unit.parts /\ ast.decls = Decls(filter, Unit)
  BY <1>1 DEF OfUnit
<1>5. \A t : CollP!KindOf(t) = Unit.kind[t] /\ CollP!PartsOf(t) = Unit.parts[t]
  BY <1>4 DEF CollP!KindOf, CollP!PartsOf
<1>6. \A d \in WantedBy(filter, Unit) : d.type[1] \in S
  BY <1>2, <1>4 DEF WantedBy, CollP!CoversBut
<1>7. ASSUME NEW t \in S \ hidden PROVE \A r \in 1 .. Len(Unit.parts[t]) : Unit.parts[t][r][1] \in S
  <2>1. ~ (Coll!Mixed(Unit, t) /\ Unit.kind[t] # "sugar")
    BY <1>3, <1>7
  <2>2. ~ (CollP!Mixed(ast, t) /\ CollP!KindOf(t) # "sugar")
    BY <1>1, <1>5, <2>1, MixedOfUnit
  <2> QED
    BY <1>2, <1>5, <1>7, <2>2 DEF CollP!CoversBut
<1>8. \A t \in S : Unit.kind[t] # "other"
  BY <1>2, <1>5
<1>9. ~ Unit.errors /\ ~ Throws(filter, Unit)
  BY DEF Sounding
<1> QED
  BY <1>3, <1>6, <1>7, <1>8, <1>9 DEF Passable, SoundBelow

LEMMA SoundingInit == Init => Sounding
BY DEF Init, Sounding

LEMMA SoundingStep ==
  ASSUME Running, Sounding, [Next]_vars
  PROVE  Sounding'
<1> USE DEF collector
<1>1. CASE GatherDecls
  <2>1. /\ pc = "job" /\ pc' = "collect" /\ UNCHANGED <<jobs, filter, n, failed>> /\ types' = << >>
        /\ ~ Unit.errors /\ ~ Throws(filter, Unit)
    BY <1>1 DEF GatherDecls, Coll!Begin
  <2>2. CollP!Blamed'
    BY <2>1 DEF CollP!Blamed
  <2> QED
    BY <2>1, <2>2 DEF Sounding, Unit
<1>2. CASE GatherFails \/ CollectFails
  BY <1>2 DEF GatherFails, CollectFails, Sounding
<1>3. CASE Collect
  <2>1. pc = "collect" /\ CollP!CollStep /\ UNCHANGED <<jobs, filter, n, pc>> /\ CollP!CollectorInv
    BY <1>3, SameStep DEF Collect, Running, Collecting
  <2>2. CollP!Blamed'
    BY <2>1, UnitsFit, CollP!BlamedStep DEF Sounding
  <2>3. failed' => stack' # << >> /\ ~ Sound(<<filter, Unit>>)
    BY <1>3, SoundnessFails
  <2>4. Unit' = Unit
    BY <2>1 DEF Unit
  <2>5. Sound(<<filter, Unit>>)' <=> Sound(<<filter, Unit>>)
    BY <2>1, <2>4
  <2> QED
    BY <2>1, <2>2, <2>3, <2>4, <2>5 DEF Sounding
<1>4. CASE StartSort
  <2>1. pc = "collect" /\ pc' = "sort" /\ CollP!Collected /\ UNCHANGED <<jobs, filter, n, collector>>
    BY <1>4 DEF StartSort, Coll!Collected, CollP!Collected
  <2>2. stack = << >>
    BY <2>1 DEF Running, Collecting, CollP!CollectorInv, CollP!Collected, CollP!Visited
  <2>3. CollP!Blamed'
    BY <2>1 DEF Sounding, CollP!Blamed, CollP!Redeclares
  <2> QED
    BY <2>1, <2>2, <2>3 DEF Sounding, Unit
<1>5. CASE SortTypes \/ UNCHANGED vars \/ AddExports \/ AddType \/ NextJob
  <2>1. /\ UNCHANGED <<jobs, filter, collector>> /\ pc' \in {pc, "types", "job"}
        /\ pc' # pc => pc \in {"sort", "types"} 
        /\ pc' \in {"collect", "sort"} => UNCHANGED <<n, pc>>
    <3>1. CASE SortTypes
      BY <3>1 DEF SortTypes
    <3>2. CASE UNCHANGED vars
      BY <3>2 DEF vars
    <3>3. CASE AddExports
      BY <3>3 DEF AddExports
    <3>4. CASE AddType
      BY <3>4 DEF AddType
    <3>5. CASE NextJob
      BY <3>5 DEF NextJob
    <3> QED
      BY <1>5, <3>1, <3>2, <3>3, <3>4, <3>5
  <2>2. CollP!Blamed => CollP!Blamed'
    BY <2>1 DEF CollP!Blamed, CollP!Redeclares
  <2>3. UNCHANGED <<n, pc>> => Unit' = Unit /\ (Sound(<<filter, Unit>>)' <=> Sound(<<filter, Unit>>))
    BY <2>1 DEF Unit
  <2> QED
    BY <2>1, <2>2, <2>3 DEF Sounding
<1>6. CASE Write \/ WriteStep
  <2>1. pc' \in {"write", "written", "error", "overflow"}
    BY <1>6 DEF Write, WriteStep
  <2> QED
    BY <2>1 DEF Sounding
<1> QED
  BY <1>1, <1>2, <1>3, <1>4, <1>5, <1>6 DEF Next, Step, Gone

\* One of the jobs before the one with the number c redeclares a record.
Blame(c) == \E m \in 1 .. Len(jobs) : m < c /\ Redeclares(<<filter, jobs[m]>>)

\* Without such a job no object is missing from the catalog, or will be.
Complete ==
  /\ pc \in {"job", "write"} => Blame(n) \/ 1 .. Len(objs) \subseteq typeSet
  /\ pc = "collect" => \E b \in Nat : CollP!Since(b) /\ (Blame(n) \/ 1 .. b \subseteq typeSet)
  /\ pc = "sort" =>
       \E b \in Nat : /\ CollP!Since(b)
                      /\ Blame(n + 1) \/ (1 .. b \subseteq typeSet /\ b + 1 .. Len(objs) \subseteq SortP!Listed)
  /\ pc = "types" => Blame(n + 1) \/ 1 .. Len(objs) \subseteq typeSet \union Sorted

LEMMA BlameStays ==
  ASSUME UNCHANGED <<jobs, filter>>
  PROVE  \A c : Blame(c) => Blame(c)'
BY DEF Blame

LEMMA BlameGrows ==
  ASSUME n \in Nat, Blame(n)
  PROVE  Blame(n + 1)
<1>1. PICK m \in 1 .. Len(jobs) : m < n /\ Redeclares(<<filter, jobs[m]>>)
  BY DEF Blame
<1>2. m < n + 1
  BY <1>1
<1> QED
  BY <1>1, <1>2 DEF Blame

\* A marked entry is the fault of the job that is going on.
LEMMA MarkedIsBlamed ==
  ASSUME Running, Sounding, pc = "collect", NEW x \in 1 .. Len(types), types[x].dangling
  PROVE  Blame(n + 1)
<1>1. OfUnit /\ n \in 1 .. Len(jobs) /\ n < n + 1
  BY DEF Running, Collecting
<1>2. PICK d \in ast.decls : CollP!Redeclares(d)
  BY DEF Sounding, CollP!Blamed
<1>3. d \in WantedBy(filter, Unit) /\ d.kind = "record" /\ ~ d.first
  BY <1>1, <1>2 DEF OfUnit, WantedBy, CollP!Redeclares
<1>4. Redeclares(<<filter, Unit>>)
  BY <1>3 DEF Redeclares
<1> QED
  BY <1>1, <1>4 DEF Blame, Unit

LEMMA CompleteInit == Init => Complete
BY DEF Init, Complete

LEMMA CompleteStep ==
  ASSUME Running, Sounding, OrderInv, Complete, [Next]_vars
  PROVE  Complete'
<1> USE DEF collector, collects, catalog
<1>1. Len(objs) \in Nat /\ n \in Nat
  BY DEF Running
<1>2. UNCHANGED <<jobs, filter>> => \A c : Blame(c) => Blame(c)'
  BY BlameStays
<1>3. CASE GatherDecls
  <2>1. pc = "job" /\ pc' = "collect" /\ UNCHANGED <<jobs, filter, n, objs, typeSet>>
    BY <1>3 DEF GatherDecls, Coll!Begin
  <2>2. PICK b \in Nat : b = Len(objs)
    BY <1>1
  <2>3. CollP!Since(b)'
    BY <1>3, <2>2, RunningGathers
  <2>4. Blame(n) \/ 1 .. b \subseteq typeSet
    BY <2>1, <2>2 DEF Complete
  <2>5. Blame(n)' \/ 1 .. b \subseteq typeSet'
    BY <1>2, <2>1, <2>4 DEF Blame
  <2> QED
    BY <2>1, <2>3, <2>5 DEF Complete
<1>4. CASE GatherFails \/ CollectFails
  BY <1>4 DEF GatherFails, CollectFails, Complete
<1>5. CASE Collect
  <2>1. pc = "collect" /\ pc' = "collect" /\ CollP!CollStep /\ UNCHANGED <<jobs, filter, n, typeSet>>
    BY <1>5, SameStep DEF Collect
  <2>2. PICK b \in Nat : CollP!Since(b) /\ (Blame(n) \/ 1 .. b \subseteq typeSet)
    BY <2>1 DEF Complete
  <2>3. CollP!Since(b)'
    BY <2>1, <2>2, CollectorSince DEF Running, Collecting
  <2>4. Blame(n)' \/ 1 .. b \subseteq typeSet'
    BY <2>1, <2>2 DEF Blame
  <2> QED
    BY <2>1, <2>3, <2>4 DEF Complete
<1>6. CASE StartSort
  <2>1. /\ pc = "collect" /\ pc' = "sort" /\ UNCHANGED <<jobs, filter, n, objs, typeSet, collects>>
        /\ CollP!CollectorInv
    BY <1>6 DEF StartSort, Running, Collecting
  <2>2. PICK b \in Nat : CollP!Since(b) /\ (Blame(n) \/ 1 .. b \subseteq typeSet)
    BY <2>1 DEF Complete
  <2>3. CollP!Since(b)'
    BY <2>1, <2>2, CollectorStays
  <2>4. list' = Kept
    BY <1>6 DEF StartSort, Sort!Construct
  <2>5. Blame(n + 1) \/ (1 .. b \subseteq typeSet /\ b + 1 .. Len(objs) \subseteq SortP!Listed')
    <3>1. CASE Blame(n)
      BY <1>1, <3>1, BlameGrows
    <3>2. CASE \E x \in 1 .. Len(types) : types[x].dangling
      BY <2>1, <3>2, MarkedIsBlamed
    <3>3. CASE \A x \in 1 .. Len(types) : ~ types[x].dangling
      <4>1. b + 1 .. Len(objs) \subseteq {Kept[x] : x \in 1 .. Len(Kept)}
        BY <2>1, <2>2, <3>3, KeptHasAll
      <4>2. SortP!Listed' = {Kept[x] : x \in 1 .. Len(Kept)}
        BY <2>4 DEF SortP!Listed
      <4> QED
        BY <2>2, <3>1, <4>1, <4>2
    <3> QED
      BY <3>1, <3>2, <3>3
  <2>6. Blame(n + 1)' \/ (1 .. b \subseteq typeSet' /\ b + 1 .. Len(objs') \subseteq SortP!Listed')
    BY <2>1, <2>5 DEF Blame
  <2> QED
    BY <2>1, <2>3, <2>6 DEF Complete
<1>7. CASE SortTypes
  <2>1. /\ pc = "sort" /\ pc' = "sort" /\ Sort!Step /\ UNCHANGED <<jobs, filter, n, objs, typeSet, collects>>
        /\ CollP!CollectorInv
    BY <1>7 DEF SortTypes, Running, Collecting
  <2>2. PICK b \in Nat : /\ CollP!Since(b)
                         /\ Blame(n + 1) \/ (1 .. b \subseteq typeSet /\ b + 1 .. Len(objs) \subseteq SortP!Listed)
    BY <2>1 DEF Complete
  <2>3. CollP!Since(b)'
    BY <2>1, <2>2, CollectorStays
  <2>4. list' = list
    BY <2>1, SorterSteps DEF OrderInv, SortOf
  <2>5. SortP!Listed' = SortP!Listed
    BY <2>4 DEF SortP!Listed
  <2>6. Blame(n + 1)' \/ (1 .. b \subseteq typeSet' /\ b + 1 .. Len(objs') \subseteq SortP!Listed')
    BY <2>1, <2>2, <2>5 DEF Blame
  <2> QED
    BY <2>1, <2>3, <2>6 DEF Complete
<1>8. CASE AddExports
  <2>1. /\ pc = "sort" /\ spc = "sorted" /\ pc' = "types" /\ UNCHANGED <<jobs, filter, n, objs, typeSet, result>>
    BY <1>8 DEF AddExports, sorter
  <2>2. PICK b \in Nat : /\ CollP!Since(b)
                         /\ Blame(n + 1) \/ (1 .. b \subseteq typeSet /\ b + 1 .. Len(objs) \subseteq SortP!Listed)
    BY <2>1 DEF Complete
  <2>3. SortP!Listed = Sorted
    BY <2>1, SortP!ResultIsListed DEF OrderInv, SortOf, SortFits, Sorted
  <2>4. Sorted' = Sorted
    BY <2>1 DEF Sorted
  <2>5. \A o \in 1 .. Len(objs) : o \in 1 .. b \/ o \in b + 1 .. Len(objs)
    BY <1>1
  <2>6. Blame(n + 1) \/ 1 .. Len(objs) \subseteq typeSet \union Sorted
    BY <2>2, <2>3, <2>5
  <2>7. Blame(n + 1)' \/ 1 .. Len(objs') \subseteq typeSet' \union Sorted'
    BY <2>1, <2>4, <2>6 DEF Blame
  <2> QED
    BY <2>1, <2>7 DEF Complete
<1>9. CASE AddType
  <2>1. pc = "types" /\ pc' = "types" /\ UNCHANGED <<jobs, filter, n, objs, result>> /\ typeSet \subseteq typeSet'
    BY <1>9 DEF AddType, Cat!addType, sorter
  <2>2. Sorted' = Sorted
    BY <2>1 DEF Sorted
  <2>3. Blame(n + 1)' \/ 1 .. Len(objs') \subseteq typeSet' \union Sorted'
    BY <2>1, <2>2 DEF Blame, Complete
  <2> QED
    BY <2>1, <2>3 DEF Complete
<1>10. CASE NextJob
  <2>1. pc = "types" /\ pc' = "job" /\ n' = n + 1 /\ UNCHANGED <<jobs, filter, objs, typeSet>>
    BY <1>10 DEF NextJob
  <2>2. Sorted \subseteq typeSet
    <3>1. IsSeq(result) /\ k > Len(result) /\ \A p \in 1 .. Len(result) : p < k => result[p] \in typeSet
      BY <1>10, <2>1 DEF NextJob, OrderInv, Adding
    <3>2. Len(result) \in Nat /\ k \in Nat
      BY <2>1, <3>1 DEF IsSeq, OrderInv, Adding
    <3> QED
      BY <3>1, <3>2 DEF Sorted
  <2>3. Blame(n + 1) \/ 1 .. Len(objs) \subseteq typeSet
    BY <2>1, <2>2 DEF Complete
  <2>4. Blame(n)' \/ 1 .. Len(objs') \subseteq typeSet'
    BY <2>1, <2>3 DEF Blame
  <2> QED
    BY <2>1, <2>4 DEF Complete
<1>11. CASE Write \/ WriteStep
  <2>1. /\ pc \in {"job", "write"} /\ pc' \in {"write", "written", "error", "overflow"}
        /\ UNCHANGED <<jobs, filter, n, objs, typeSet>>
    <3>1. CASE Write
      BY <3>1 DEF Write
    <3>2. CASE WriteStep
      BY <3>2 DEF WriteStep, Writer!Step, Writer!Start, Writer!WriteType, Writer!TypeMissing, Writer!WriteExport,
         Writer!ExportMissing, Writer!PrintCatalog, Writer!input
    <3> QED
      BY <1>11, <3>1, <3>2
  <2>2. Blame(n)' \/ 1 .. Len(objs') \subseteq typeSet'
    BY <2>1 DEF Blame, Complete
  <2> QED
    BY <2>1, <2>2 DEF Complete
<1>12. CASE UNCHANGED vars
  <2>1. UNCHANGED <<jobs, filter, n, pc, objs, typeSet, result, list>> /\ UNCHANGED collects
    BY <1>12 DEF vars, sorter
  <2>2. \A c : Blame(c)' <=> Blame(c)
    BY <2>1 DEF Blame
  <2>3. Sorted' = Sorted /\ SortP!Listed' = SortP!Listed
    BY <2>1 DEF Sorted, SortP!Listed
  <2>4. pc \in {"collect", "sort"} => \A b : CollP!Since(b) => CollP!Since(b)'
    BY <2>1, CollectorStays DEF Running, Collecting
  <2> QED
    BY <2>1, <2>2, <2>3, <2>4 DEF Complete
<1> QED
  BY <1>3, <1>4, <1>5, <1>6, <1>7, <1>8, <1>9, <1>10, <1>11, <1>12 DEF Next, Step, Gone

-------------------------------------------------------------------------------
(* The steps of affc, as steps of Bindings.                                  *)

LEMMA OutcomeIs ==
  /\ pc = "written" => Outcome = "written"
  /\ pc \in {"error", "overflow"} => Outcome = "error" /\ Document = {}
  /\ pc \notin {"written", "error", "overflow"} => Outcome = "none" /\ Document = {}
BY DEF Outcome, Document, Exited

LEMMA BoundStutters ==
  ASSUME UNCHANGED <<Request, NextUnit, Gathered, Document, Outcome>>
  PROVE  UNCHANGED Bound!vars
BY DEF Bound!vars

LEMMA BoundAnalyses ==
  ASSUME Outcome = "none", NextUnit <= Len(Request), NextUnit' = NextUnit + 1, Passable(Request[NextUnit]),
         Gathered' = Gathered \union {<<NextUnit, d>> : d \in WantedBy(Request[NextUnit][1], Request[NextUnit][2])},
         UNCHANGED <<Request, Document, Outcome>>
  PROVE  Bound!Analyse
BY DEF Bound!Analyse, Bound!More

LEMMA BoundFails ==
  ASSUME Outcome = "none", NextUnit <= Len(Request), Outcome' = "error", ~ Sound(Request[NextUnit]),
         UNCHANGED <<Request, NextUnit, Gathered, Document>>
  PROVE  Bound!Fail
BY DEF Bound!Fail, Bound!More

LEMMA BoundPublishes ==
  ASSUME Outcome = "none", NextUnit > Len(Request), Document' = Gathered, Outcome' = "written",
         UNCHANGED <<Request, NextUnit, Gathered>>
  PROVE  Bound!Publish
BY DEF Bound!Publish, Bound!Analysed

LEMMA BoundRefuses ==
  ASSUME Outcome = "none", NextUnit > Len(Request), Outcome' = "error",
         \E m \in 1 .. Len(Request) : Redeclares(Request[m]),
         UNCHANGED <<Request, NextUnit, Gathered, Document>>
  PROVE  Bound!Refuse
BY DEF Bound!Refuse, Bound!Analysed

LEMMA BoundInit == Init => Bound!Init
<1> SUFFICES ASSUME Init PROVE Bound!Init
  OBVIOUS
<1>1. jobs \in JobLists /\ filter \in Filters /\ n = 1 /\ pc = "job" /\ catExports = {}
  BY DEF Init, Cat!CatalogInit
<1>2. jobs \in Seq(Units)
  BY <1>1, UnitsAssumption
<1>3. Request \in Seq(Filters \X Units)
  <2>1. \A m \in 1 .. Len(jobs) : <<filter, jobs[m]>> \in Filters \X Units
    BY <1>1, <1>2
  <2> QED
    BY <1>2, <2>1 DEF Request
<1>4. NextUnit = 1 /\ Gathered = {} /\ Document = {} /\ Outcome = "none"
  BY <1>1, OutcomeIs DEF NextUnit, Gathered
<1> QED
  BY <1>3, <1>4 DEF Bound!Init

RefineInv == Running /\ ExportsOnce /\ Remembered /\ WriterInv /\ OrderInv /\ Sounding /\ Complete

LEMMA RefineInit == Init => RefineInv
BY RunningInit, RememberedInit, WriterInit, OrderInit, SoundingInit, CompleteInit DEF RefineInv

LEMMA RefineStep == RefineInv /\ [Next]_vars => RefineInv'
BY RunningStep, OnceStep, RememberedStep, WriterStep, OrderStep, SoundingStep, CompleteStep DEF RefineInv

LEMMA RequestIs ==
  ASSUME Running
  PROVE  /\ Len(jobs) \in Nat /\ n \in Nat /\ Len(Request) = Len(jobs)
         /\ \A m \in 1 .. Len(jobs) : Request[m] = <<filter, jobs[m]>>
<1>1. Len(jobs) \in Nat /\ n \in Nat
  BY UnitsAssumption DEF Running
<1> QED
  BY <1>1 DEF Request

\* A unit whose analysis fails gives nothing, and is the last.
LEMMA FailureFails ==
  ASSUME RefineInv, GatherFails \/ CollectFails
  PROVE  Bound!Fail
<1>1. /\ pc \in {"job", "collect"} /\ pc' = "error" /\ UNCHANGED <<jobs, filter, n, catExports>> /\ n <= Len(jobs)
  BY DEF GatherFails, CollectFails, catalog, RefineInv, Running, Collecting
<1>2. n \in 1 .. Len(jobs) /\ Len(Request) = Len(jobs) /\ Request[n] = <<filter, Unit>>
  <2>1. n \in 1 .. Len(jobs)
    BY <1>1, UnitsAssumption DEF RefineInv, Running
  <2> QED
    BY <2>1, RequestIs DEF RefineInv, Unit
<1>3. ~ Sound(<<filter, Unit>>)
  <2>1. CASE GatherFails
    BY <2>1 DEF GatherFails, Sound, SoundBelow
  <2>2. CASE CollectFails
    BY <2>2 DEF CollectFails, RefineInv, Sounding
  <2> QED
    BY <2>1, <2>2
<1>4. NextUnit = n /\ NextUnit' = n /\ UNCHANGED <<Request, Gathered>>
  BY <1>1 DEF NextUnit, Request, Gathered
<1>5. Outcome = "none" /\ Document = {} /\ Outcome' = "error" /\ Document' = {}
  BY <1>1 DEF Outcome, Document, Exited
<1> QED
  BY <1>1, <1>2, <1>3, <1>4, <1>5, BoundFails

\* A unit that has been analysed gives all its names.
LEMMA ExportsAnalyse ==
  ASSUME RefineInv, AddExports
  PROVE  Bound!Analyse
<1>1. PICK X : X = {[job |-> n, decl |-> exports[m].decl, type |-> exports[m].type] : m \in 1 .. Len(exports)}
  OBVIOUS
<1>2. /\ pc = "sort" /\ pc' = "types" /\ UNCHANGED <<jobs, filter, n>> /\ catExports' = catExports \union X
  BY <1>1 DEF AddExports
<1>3. /\ n <= Len(jobs) /\ OfUnit /\ CollP!Exported /\ decls = {} /\ cur = {}
  BY <1>2 DEF RefineInv, Running, Collecting, CollP!CollectorInv, CollP!Collected
<1>4. n \in 1 .. Len(jobs) /\ Len(Request) = Len(jobs) /\ Request[n] = <<filter, Unit>>
  <2>1. n \in 1 .. Len(jobs)
    BY <1>3, UnitsAssumption DEF RefineInv, Running
  <2> QED
    BY <2>1, RequestIs DEF RefineInv, Unit
<1>5. Passable(<<filter, Unit>>)
  BY <1>2, PassableHolds DEF RefineInv
<1>6. {<<e.job, e.decl>> : e \in X} = {<<n, d>> : d \in WantedBy(filter, Unit)}
  <2>1. ASSUME NEW e \in X PROVE e.job = n /\ e.decl \in WantedBy(filter, Unit)
    <3>1. PICK m \in 1 .. Len(exports) : e.job = n /\ e.decl = exports[m].decl
      BY <1>1
    <3>2. exports[m].decl \in ast.decls /\ exports[m].decl.kind # "alias"
      BY <1>3 DEF CollP!Exported
    <3> QED
      BY <1>3, <3>1, <3>2 DEF OfUnit, WantedBy
  <2>2. ASSUME NEW d \in WantedBy(filter, Unit) PROVE \E e \in X : e.job = n /\ e.decl = d
    <3>1. d \in ast.decls /\ d.kind # "alias"
      BY <1>3 DEF OfUnit, WantedBy
    <3>2. PICK m \in 1 .. Len(exports) : exports[m].decl = d
      BY <1>3, <3>1 DEF CollP!Exported
    <3>3. PICK e : e = [job |-> n, decl |-> exports[m].decl, type |-> exports[m].type]
      OBVIOUS
    <3> QED
      BY <1>1, <3>2, <3>3
  <2> QED
    BY <2>1, <2>2
<1>7. Gathered' = Gathered \union {<<n, d>> : d \in WantedBy(filter, Unit)}
  <2>1. Gathered' = Gathered \union {<<e.job, e.decl>> : e \in X}
    BY <1>2 DEF Gathered
  <2> QED
    BY <1>6, <2>1
<1>8. NextUnit = n /\ NextUnit' = n + 1 /\ UNCHANGED Request
  BY <1>2 DEF NextUnit, Request
<1>9. Outcome = "none" /\ Document = {} /\ Outcome' = "none" /\ Document' = {}
  BY <1>2 DEF Outcome, Document, Exited
<1>10. Request[n][1] = filter /\ Request[n][2] = Unit
  BY <1>4
<1>11. Gathered' = Gathered \union {<<NextUnit, d>> : d \in WantedBy(Request[NextUnit][1], Request[NextUnit][2])}
  BY <1>7, <1>8, <1>10
<1> QED
  BY <1>3, <1>4, <1>5, <1>8, <1>9, <1>11, BoundAnalyses

\* What is printed names everything that was gathered.
LEMMA PrintPublishes ==
  ASSUME RefineInv, WriteStep, Writer!PrintCatalog, WriterInv'
  PROVE  Bound!Publish
<1>1. pc = "write" /\ pc' = "written" /\ wpc' = "written" /\ UNCHANGED <<jobs, filter, n, catExports, exported>>
  BY DEF WriteStep, Writer!PrintCatalog, Writer!input
<1>2. n > Len(jobs) /\ Len(Request) = Len(jobs)
  BY <1>1, RequestIs DEF RefineInv, Running
<1>3. (\A x \in exported : x.export \in catExports) /\ \A e \in catExports : \E x \in exported : x.export = e
  BY <1>1 DEF WriterInv
<1>4. Document' = Gathered
  <2>1. Document' = {<<e.export.job, e.export.decl>> : e \in exported}
    BY <1>1 DEF Document
  <2> QED
    BY <1>3, <2>1 DEF Gathered
<1>5. NextUnit = n /\ UNCHANGED <<Request, NextUnit, Gathered>> /\ Outcome = "none" /\ Outcome' = "written"
  BY <1>1 DEF NextUnit, Request, Gathered, Outcome, Exited
<1> QED
  BY <1>2, <1>4, <1>5, BoundPublishes

\* A type that has no number is the fault of a redeclared record.
LEMMA UnnumberedIsBlamed ==
  ASSUME RefineInv, pc = "write", wpc = "types", NEW t \in 1 .. Len(objs), ~ Writer!HasID(t)
  PROVE  Blame(n)
<1>1. index = Writer!CountMap(typeSeq) /\ typeSet = {typeSeq[m] : m \in 1 .. Len(typeSeq)}
  BY DEF RefineInv, WriterInv, OrderInv, TypesAgree
<1>2. t \notin typeSet
  BY <1>1 DEF Writer!HasID, Writer!CountMap
<1> QED
  BY <1>2 DEF RefineInv, Complete

LEMMA MissingRefuses ==
  ASSUME RefineInv, WriteStep, Writer!TypeMissing \/ \E e \in Writer!Remaining : Writer!ExportMissing(e)
  PROVE  Bound!Refuse
<1>1. /\ pc = "write" /\ wpc = "types" /\ pc' \in {"error", "overflow"} /\ UNCHANGED <<jobs, filter, n, catExports>>
  BY DEF WriteStep, Writer!TypeMissing, Writer!ExportMissing, Writer!NoID, Writer!input
<1>2. n > Len(jobs) /\ Len(Request) = Len(jobs) /\ Len(jobs) \in Nat /\ n \in Nat
  BY <1>1, RequestIs DEF RefineInv, Running
<1>3. \E t \in 1 .. Len(objs) : ~ Writer!HasID(t)
  <2>1. CASE Writer!TypeMissing
    <3>1. /\ Len(messages) < Len(typeSeq) /\ IsSeq(messages) /\ IsSeq(typeSeq)
          /\ \E r \in 1 .. Len(Writer!Refs) : ~ Writer!HasID(Writer!Refs[r])
      BY <2>1 DEF Writer!TypeMissing, RefineInv, WriterInv
    <3>2. Len(messages) + 1 \in 1 .. Len(typeSeq)
      BY <3>1 DEF IsSeq
    <3>3. Writer!Current \in typeSet
      BY <3>2 DEF Writer!Current, RefineInv, OrderInv, TypesAgree
    <3>4. typeSet \subseteq 1 .. Len(objs) /\ KidsKnown(Len(objs))
      BY <1>1 DEF RefineInv, OrderInv, Fits
    <3>5. \A r \in 1 .. Len(Writer!Refs) : Writer!Refs[r] \in 1 .. Len(objs)
      BY <3>3, <3>4 DEF KidsKnown, Writer!Refs
    <3> QED
      BY <3>1, <3>5
  <2>2. CASE \E e \in Writer!Remaining : Writer!ExportMissing(e)
    <3>1. PICK e \in catExports : ~ Writer!HasID(e.type)
      BY <2>2 DEF Writer!Remaining, Writer!ExportMissing
    <3>2. PICK m : m = e.job /\ m \in 1 .. Len(jobs) /\ m < n
      BY <1>2 DEF RefineInv, ExportsOnce
    <3>3. Translated(m, Len(objs))
      BY <1>1, <3>2 DEF RefineInv, Remembered
    <3>4. PICK T : Translation(m, T, Len(objs))
      BY <3>3 DEF Translated
    <3>5. T \subseteq CollP!QualTypes \X (1 .. Len(objs)) /\ <<e.decl.type, e.type>> \in T
      BY <3>2, <3>4 DEF Translation
    <3>6. e.type \in 1 .. Len(objs)
      BY <3>5
    <3> QED
      BY <3>1, <3>6
  <2> QED
    BY <2>1, <2>2
<1>4. \E m \in 1 .. Len(Request) : Redeclares(Request[m])
  <2>1. PICK m \in 1 .. Len(jobs) : Redeclares(<<filter, jobs[m]>>)
    BY <1>1, <1>3, UnnumberedIsBlamed DEF Blame
  <2>2. Request[m] = <<filter, jobs[m]>>
    BY RequestIs DEF RefineInv
  <2> QED
    BY <1>2, <2>1, <2>2
<1>5. NextUnit = n /\ UNCHANGED <<Request, NextUnit, Gathered>>
  BY <1>1 DEF NextUnit, Request, Gathered
<1>6. Outcome = "none" /\ Document = {} /\ Outcome' = "error" /\ Document' = {}
  BY <1>1 DEF Outcome, Document, Exited
<1> QED
  BY <1>2, <1>4, <1>5, <1>6, BoundRefuses

\* The other steps are not seen from outside.
LEMMA OthersStutter ==
  ASSUME UNCHANGED <<jobs, filter, catExports>>,
         \/ n' = n /\ (pc = "types" <=> pc' = "types")
         \/ pc = "types" /\ pc' # "types" /\ n' = n + 1,
         \/ pc \notin {"written", "error", "overflow"} /\ pc' \notin {"written", "error", "overflow"}
         \/ UNCHANGED <<pc, exported>>
  PROVE  UNCHANGED Bound!vars
<1>1. UNCHANGED <<Request, NextUnit, Gathered>>
  BY DEF Request, NextUnit, Gathered
<1>2. UNCHANGED <<Document, Outcome>>
  <2>1. CASE UNCHANGED <<pc, exported>>
    BY <2>1 DEF Document, Outcome, Exited
  <2>2. CASE pc \notin {"written", "error", "overflow"} /\ pc' \notin {"written", "error", "overflow"}
    BY <2>2 DEF Document, Outcome, Exited
  <2> QED
    BY <2>1, <2>2
<1> QED
  BY <1>1, <1>2, BoundStutters

LEMMA BoundStep ==
  ASSUME RefineInv, WriterInv', [Next]_vars
  PROVE  [Bound!Next]_Bound!vars
<1> USE DEF collector, catalog, writer
<1>1. CASE GatherFails \/ CollectFails
  BY <1>1, FailureFails DEF Bound!Next
<1>2. CASE AddExports
  BY <1>2, ExportsAnalyse DEF Bound!Next
<1>3. CASE GatherDecls \/ Collect \/ StartSort \/ SortTypes \/ AddType \/ NextJob \/ Write
  <2>1. CASE GatherDecls
    BY <2>1, OthersStutter DEF GatherDecls
  <2>2. CASE Collect
    BY <2>2, OthersStutter DEF Collect
  <2>3. CASE StartSort
    BY <2>3, OthersStutter DEF StartSort
  <2>4. CASE SortTypes
    BY <2>4, OthersStutter DEF SortTypes
  <2>5. CASE AddType
    BY <2>5, OthersStutter DEF AddType, Cat!addType
  <2>6. CASE NextJob
    BY <2>6, OthersStutter DEF NextJob
  <2>7. CASE Write
    BY <2>7, OthersStutter DEF Write
  <2> QED
    BY <1>3, <2>1, <2>2, <2>3, <2>4, <2>5, <2>6, <2>7
<1>4. CASE WriteStep
  <2>1. CASE Writer!TypeMissing \/ \E e \in Writer!Remaining : Writer!ExportMissing(e)
    BY <1>4, <2>1, MissingRefuses DEF Bound!Next
  <2>2. CASE Writer!PrintCatalog
    BY <1>4, <2>2, PrintPublishes DEF Bound!Next
  <2>3. CASE Writer!Start \/ Writer!WriteType \/ \E e \in Writer!Remaining : Writer!WriteExport(e)
    <3>1. wpc' \notin {"written", "error", "overflow"} /\ catExports' = catExports
      <4>1. CASE Writer!Start
        BY <4>1 DEF Writer!Start, Writer!input
      <4>2. CASE Writer!WriteType
        BY <4>2 DEF Writer!WriteType, Writer!input
      <4>3. CASE \E e \in Writer!Remaining : Writer!WriteExport(e)
        BY <4>3 DEF Writer!WriteExport, Writer!input
      <4> QED
        BY <2>3, <4>1, <4>2, <4>3
    <3> QED
      BY <1>4, <3>1, OthersStutter DEF WriteStep
  <2> QED
    BY <1>4, <2>1, <2>2, <2>3 DEF WriteStep, Writer!Step
<1>5. CASE UNCHANGED vars
  BY <1>5, OthersStutter DEF vars
<1> QED
  BY <1>1, <1>2, <1>3, <1>4, <1>5 DEF Next, Step, Gone

\* affc does what Bindings says, whatever the units, the filter and the number
\* of jobs: all or nothing, every job in the order of the jobs, nothing after a
\* failure, a failure only for a unit that cannot be analysed, and a refusal to
\* write only when a record was redeclared.
THEOREM RefinesBindings == Spec => ImplementsBindings
<1>1. Spec => []RefineInv
  BY RefineInit, RefineStep, PTL DEF Spec
<1>2. RefineInv /\ RefineInv' /\ [Next]_vars => [Bound!Next]_Bound!vars
  BY BoundStep DEF RefineInv
<1> QED
  BY <1>1, <1>2, BoundInit, PTL DEF Spec, ImplementsBindings, Bound!Spec

===============================================================================
