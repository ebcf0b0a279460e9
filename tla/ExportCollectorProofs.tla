------------------------- MODULE ExportCollectorProofs -------------------------
(*****************************************************************************)
(* What TLAPS proves of the TypeConverter and the ExportCollector, for any   *)
(* translation units.                                                        *)
(*****************************************************************************)
EXTENDS ExportCollector, FiniteSetTheorems, SequenceTheorems, TLAPS

-------------------------------------------------------------------------------
(* Types.                                                                    *)

\* The sets of the entries, objects, calls and exports when there are m objects.
ReprSet(m) == [clang : Keys, autoffi : 1 .. m, dangling : BOOLEAN]
ObjectSet(m) == [kind : Leaves \union Composites \union {"qualified"}, kids : Seq(0 .. m)]
FrameSet(m) ==
  [fn : {"VisitQualType", "Visit"}, clang : Keys, qualified : BOOLEAN, obj : 0 .. m, got : Nat]
ExportSet(m) == [decl : ast.decls, type : 1 .. m]

Typed ==
  /\ Convertible(ast) /\ Declared(ast)
  /\ types \in Seq(ReprSet(Len(objs)))
  /\ objs \in Seq(ObjectSet(Len(objs)))
  /\ stack \in Seq(FrameSet(Len(objs)))
  /\ ret \in 0 .. Len(objs)
  /\ failed \in BOOLEAN
  /\ decls \subseteq ast.decls
  /\ cur \subseteq ast.decls \ decls
  /\ latest \in 0 .. Len(objs)
  /\ exports \in Seq(ExportSet(Len(objs)))

\* What is typed stays so when there are more objects.
LEMMA SetsGrow ==
  ASSUME NEW m \in Nat, NEW n \in Nat, m <= n
  PROVE  /\ Seq(ReprSet(m)) \subseteq Seq(ReprSet(n))
         /\ Seq(ObjectSet(m)) \subseteq Seq(ObjectSet(n))
         /\ Seq(FrameSet(m)) \subseteq Seq(FrameSet(n))
         /\ Seq(ExportSet(m)) \subseteq Seq(ExportSet(n))
<1>1. \A S, T : S \subseteq T => Seq(S) \subseteq Seq(T)
  OBVIOUS
<1>2. 0 .. m \subseteq 0 .. n /\ 1 .. m \subseteq 1 .. n
  OBVIOUS
<1>3. ReprSet(m) \subseteq ReprSet(n) /\ ExportSet(m) \subseteq ExportSet(n) /\ FrameSet(m) \subseteq FrameSet(n)
  BY <1>2 DEF ReprSet, ExportSet, FrameSet
<1>4. ObjectSet(m) \subseteq ObjectSet(n)
  BY <1>1, <1>2 DEF ObjectSet
<1> QED
  BY <1>1, <1>3, <1>4

LEMMA TypedIsTypeOK == Typed => TypeOK
<1> SUFFICES ASSUME Typed PROVE TypeOK
  OBVIOUS
<1>1. ast.kind \in [ClangTypes -> Kinds] /\ ast.parts \in [ClangTypes -> Seq(QualTypes)]
  BY DEF Typed, Convertible
<1>2. Len(objs) \in Nat /\ 0 .. Len(objs) = Objects \union {Null} /\ 1 .. Len(objs) = Objects
  BY DEF Typed, Objects, Null
<1>3. types \in Seq([clang : Keys, autoffi : Objects, dangling : BOOLEAN])
  BY <1>2 DEF Typed, ReprSet
<1>4. stack \in Seq([fn : {"VisitQualType", "Visit"}, clang : Keys, qualified : BOOLEAN,
                     obj : Objects \union {Null}, got : Nat])
  BY <1>2 DEF Typed, FrameSet
<1>5. exports \in Seq([decl : ast.decls, type : Objects])
  BY <1>2 DEF Typed, ExportSet
<1>6. /\ objs \in Seq([kind : Leaves \union Composites \union {"qualified"}, kids : Seq(Nat)])
      /\ \A o \in Objects : \A n \in DOMAIN objs[o].kids : objs[o].kids[n] \in Objects \union {Null}
  <2>1. Seq(0 .. Len(objs)) \subseteq Seq(Nat)
    BY <1>2
  <2>2. ObjectSet(Len(objs)) \subseteq [kind : Leaves \union Composites \union {"qualified"}, kids : Seq(Nat)]
    BY <2>1 DEF ObjectSet
  <2>3. \A o \in Objects : objs[o].kids \in Seq(0 .. Len(objs))
    <3>1. \A o \in Objects : objs[o] \in ObjectSet(Len(objs))
      BY <1>2 DEF Typed
    <3> QED
      BY <3>1 DEF ObjectSet
  <2>4. \A o \in Objects : \A n \in DOMAIN objs[o].kids : objs[o].kids[n] \in 0 .. Len(objs)
    BY <2>3
  <2>5. objs \in Seq([kind : Leaves \union Composites \union {"qualified"}, kids : Seq(Nat)])
    <3>1. \A S, T : S \subseteq T => Seq(S) \subseteq Seq(T)
      OBVIOUS
    <3> QED
      BY <2>2, <3>1 DEF Typed
  <2> QED
    BY <1>2, <2>4, <2>5
<1> QED
  BY <1>1, <1>2, <1>3, <1>4, <1>5, <1>6 DEF Typed, TypeOK

\* The stack, and what is left of it.
LEMMA StackParts ==
  ASSUME NEW F, stack \in Seq(F), stack # << >>
  PROVE  /\ Len(stack) \in Nat /\ Len(stack) > 0
         /\ Frame \in F /\ Frame = stack[Len(stack)]
         /\ Popped \in Seq(F) /\ Len(Popped) = Len(stack) - 1
         /\ \A p \in 1 .. Len(stack) - 1 : Popped[p] = stack[p]
<1>1. Len(stack) \in Nat /\ Len(stack) > 0
  OBVIOUS
<1>2. Frame \in F /\ Frame = stack[Len(stack)]
  BY <1>1 DEF Frame
<1>3. Len(stack) - 1 \in Nat /\ Len(stack) - 1 <= Len(stack) /\ Popped = SubSeq(stack, 1, Len(stack) - 1)
  BY <1>1 DEF Popped
<1>4. /\ Popped \in Seq(F) /\ Len(Popped) = Len(stack) - 1
      /\ \A p \in 1 .. Len(stack) - 1 : Popped[p] = stack[p]
  <2>1. PICK n : n = Len(stack) - 1 /\ n \in Nat
    BY <1>3
  <2>2. \A p \in 1 .. n : stack[p] \in F
    BY <1>1, <2>1
  <2>3. /\ SubSeq(stack, 1, n) \in Seq(F)
        /\ Len(SubSeq(stack, 1, n)) = IF 1 <= n THEN n - 1 + 1 ELSE 0
        /\ \A p \in 1 .. n - 1 + 1 : SubSeq(stack, 1, n)[p] = stack[1 + p - 1]
    BY <2>1, <2>2, SubSeqProperties
  <2> QED
    BY <1>3, <2>1, <2>3
<1> QED
  BY <1>1, <1>2, <1>3, <1>4

LEMMA WithTopParts ==
  ASSUME NEW F, stack \in Seq(F), stack # << >>, NEW f \in F
  PROVE  /\ WithTop(f) \in Seq(F) /\ Len(WithTop(f)) = Len(stack)
         /\ WithTop(f)[Len(stack)] = f
         /\ \A p \in 1 .. Len(stack) - 1 : WithTop(f)[p] = stack[p]
<1>1. Popped \in Seq(F) /\ Len(Popped) = Len(stack) - 1 /\ Len(stack) \in Nat
      /\ \A p \in 1 .. Len(stack) - 1 : Popped[p] = stack[p]
  BY StackParts
<1> HIDE DEF Popped
<1> QED
  BY <1>1 DEF WithTop

LEMMA EntryTyped ==
  ASSUME Typed, NEW n \in 1 .. Len(types)
  PROVE  /\ types[n] \in ReprSet(Len(objs)) /\ types[n].clang \in Keys
         /\ types[n].autoffi \in 1 .. Len(objs)
<1>1. types[n] \in ReprSet(Len(objs))
  BY DEF Typed
<1> QED
  BY <1>1 DEF ReprSet

LEMMA FindIsEntry ==
  ASSUME Typed, NEW k, Known(types, k)
  PROVE  find(k) \in 1 .. Len(objs) /\ Entry(k, find(k))
<1>1. PICK n : n = CHOOSE m \in 1 .. Len(types) : types[m].clang = k
  OBVIOUS
<1>2. n \in 1 .. Len(types) /\ types[n].clang = k
  BY <1>1 DEF Known
<1>3. find(k) = types[n].autoffi
  BY <1>1 DEF find
<1> QED
  BY <1>2, <1>3, EntryTyped DEF Entry

\* The parts of a type, as Convertible has them.
LEMMA PartsTyped ==
  ASSUME Typed, NEW t \in ClangTypes
  PROVE  /\ KindOf(t) \in Kinds /\ PartsOf(t) \in Seq(QualTypes) /\ Len(PartsOf(t)) \in Nat
         /\ KindOf(t) \in {"sugar", "pointer", "array"} => Len(PartsOf(t)) = 1
         /\ KindOf(t) = "function" => Len(PartsOf(t)) > 0
         /\ KindOf(t) \in Leaves => PartsOf(t) = << >>
BY DEF Typed, Convertible, KindOf, PartsOf

LEMMA PushTyped ==
  ASSUME NEW m \in Nat, NEW k \in Keys, NEW o \in 1 .. m, types \in Seq(ReprSet(m))
  PROVE  push_back(k, o) \in Seq(ReprSet(m))
<1>1. TypeRepr(k, o) \in ReprSet(m)
  BY DEF TypeRepr, ReprSet
<1> QED
  BY <1>1 DEF push_back

LEMMA FrameTyped ==
  ASSUME Typed, stack # << >>
  PROVE  /\ Frame \in FrameSet(Len(objs)) /\ Frame.clang \in Keys /\ Type \in ClangTypes
         /\ Frame.clang = <<Type, Frame.clang[2]>> /\ Frame.clang[2] \in BOOLEAN
         /\ Frame.fn \in {"VisitQualType", "Visit"} /\ Frame.obj \in 0 .. Len(objs) /\ Frame.got \in Nat
         /\ Frame.qualified \in BOOLEAN
<1>1. Frame \in FrameSet(Len(objs))
  BY StackParts DEF Typed
<1>2. Frame.clang \in Keys
  BY <1>1 DEF FrameSet
<1> QED
  BY <1>1, <1>2 DEF FrameSet, Keys, Type

LEMMA TypedInit == Init => Typed
<1> SUFFICES ASSUME Init PROVE Typed
  OBVIOUS
<1>1. Len(objs) = 0 /\ ret \in 0 .. Len(objs) /\ latest \in 0 .. Len(objs)
  BY DEF Init, Null
<1>2. types = << >> /\ objs = << >> /\ stack = << >> /\ exports = << >>
  BY DEF Init
<1>3. Convertible(ast) /\ Declared(ast)
  BY ASTsAssumption, DeclsAssumption DEF Init
<1>4. failed \in BOOLEAN /\ decls \subseteq ast.decls /\ cur \subseteq ast.decls \ decls
  BY DEF Init
<1> QED
  BY <1>1, <1>2, <1>3, <1>4 DEF Typed

\* A step of the converter: there may be more objects.
LEMMA TypedGrows ==
  ASSUME Typed, UNCHANGED <<ast, decls, cur, latest, exports>>,
         Len(objs') \in Nat, Len(objs) <= Len(objs'),
         types' \in Seq(ReprSet(Len(objs'))), objs' \in Seq(ObjectSet(Len(objs'))),
         stack' \in Seq(FrameSet(Len(objs'))), ret' \in 0 .. Len(objs'), failed' \in BOOLEAN
  PROVE  Typed'
<1>1. Len(objs) \in Nat
  BY DEF Typed
<1>2. latest' \in 0 .. Len(objs')
  BY <1>1 DEF Typed
<1>3. exports' \in Seq(ExportSet(Len(objs')))
  BY <1>1, SetsGrow DEF Typed
<1>4. (exports \in Seq(ExportSet(Len(objs))))'
  BY <1>3 DEF ExportSet
<1>5. Convertible(ast') /\ Declared(ast') /\ decls' \subseteq ast'.decls /\ cur' \subseteq ast'.decls \ decls'
  BY DEF Typed
<1> QED
  BY <1>2, <1>4, <1>5 DEF Typed

\* One object is added.
LEMMA ObjectAdded ==
  ASSUME Typed, NEW kind \in Leaves \union Composites \union {"qualified"},
         NEW kids \in Seq(0 .. Len(objs) + 1), objs' = Append(objs, [kind |-> kind, kids |-> kids])
  PROVE  /\ Len(objs) \in Nat /\ Len(objs') = Len(objs) + 1
         /\ objs' \in Seq(ObjectSet(Len(objs')))
         /\ types \in Seq(ReprSet(Len(objs'))) /\ stack \in Seq(FrameSet(Len(objs')))
         /\ \A o \in 1 .. Len(objs) : objs'[o] = objs[o]
         /\ objs'[Len(objs) + 1] = [kind |-> kind, kids |-> kids]
<1>1. Len(objs) \in Nat /\ Len(objs') = Len(objs) + 1
  BY DEF Typed
<1>2. [kind |-> kind, kids |-> kids] \in ObjectSet(Len(objs) + 1)
  BY DEF ObjectSet
<1>3. /\ objs \in Seq(ObjectSet(Len(objs) + 1))
      /\ types \in Seq(ReprSet(Len(objs) + 1)) /\ stack \in Seq(FrameSet(Len(objs) + 1))
  BY <1>1, SetsGrow DEF Typed
<1>4. objs' \in Seq(ObjectSet(Len(objs) + 1))
  BY <1>2, <1>3
<1>5. /\ \A o \in 1 .. Len(objs) : objs'[o] = objs[o]
      /\ objs'[Len(objs) + 1] = [kind |-> kind, kids |-> kids]
  BY <1>1, <1>3
<1> QED
  BY <1>1, <1>3, <1>4, <1>5

LEMMA TypedFound == ASSUME Typed, Found, UNCHANGED <<decls, cur, latest, exports>> PROVE Typed'
<1>1. find(Frame.clang) \in 1 .. Len(objs)
  BY FindIsEntry DEF Found
<1>2. Popped \in Seq(FrameSet(Len(objs)))
  BY StackParts DEF Found, Typed
<1> QED
  BY <1>1, <1>2, TypedGrows DEF Found, Return, Typed

LEMMA TypedPush ==
  ASSUME Typed, stack # << >>, UNCHANGED <<ast, types, objs, ret, failed, decls, cur, latest, exports>>,
         NEW f \in FrameSet(Len(objs)), stack' = Append(stack, f)
  PROVE  Typed'
<1>1. stack' \in Seq(FrameSet(Len(objs)))
  BY DEF Typed
<1> QED
  BY <1>1, TypedGrows DEF Typed

LEMMA Unqualified == ASSUME NEW t \in ClangTypes PROVE <<t, FALSE>> \in Keys
BY DEF Keys

LEMMA KeyTyped ==
  ASSUME NEW qt \in QualTypes
  PROVE  /\ Key(qt) \in Keys /\ hasLocalQualifiers(qt) \in BOOLEAN
         /\ qt = <<qt[1], qt[2]>> /\ qt[1] \in ClangTypes /\ qt[2] \in Quals
<1>1. PICK t \in ClangTypes, q \in Quals : qt = <<t, q>>
  BY DEF QualTypes
<1>2. PICK b : b = (q = "fast")
  OBVIOUS
<1>3. Key(qt) = <<t, b>> /\ b \in BOOLEAN /\ hasLocalQualifiers(qt) \in BOOLEAN
  BY <1>1, <1>2 DEF Key, hasLocalQualifiers
<1> QED
  BY <1>1, <1>3 DEF Keys

LEMMA CallsTyped ==
  ASSUME NEW m \in Nat
  PROVE  /\ \A k \in QualTypes : VisitQualType(k) \in FrameSet(m)
         /\ \A t \in ClangTypes : Visit(t) \in FrameSet(m)
<1>1. 0 \in 0 .. m /\ 0 \in Nat
  OBVIOUS
<1>2. ASSUME NEW k \in QualTypes PROVE VisitQualType(k) \in FrameSet(m)
  <2>1. Key(k) \in Keys /\ hasLocalQualifiers(k) \in BOOLEAN
    BY KeyTyped
  <2> QED
    BY <1>1, <2>1 DEF VisitQualType, FrameSet, Null
<1>3. ASSUME NEW t \in ClangTypes PROVE Visit(t) \in FrameSet(m)
  <2>1. PICK k : k = <<t, FALSE>> /\ k \in Keys
    BY Unqualified
  <2>2. Visit(t) = [fn |-> "Visit", clang |-> k, qualified |-> FALSE, obj |-> 0, got |-> 0]
    BY <2>1 DEF Visit, Null
  <2> QED
    BY <1>1, <2>1, <2>2 DEF FrameSet
<1> QED
  BY <1>2, <1>3

LEMMA FrameChanged ==
  ASSUME NEW m \in Nat, NEW f \in FrameSet(m)
  PROVE  /\ \A n \in Nat : \A o \in 0 .. n : m <= n => [f EXCEPT !.obj = o] \in FrameSet(n)
         /\ [f EXCEPT !.got = @ + 1] \in FrameSet(m)
<1>1. /\ f = [fn |-> f.fn, clang |-> f.clang, qualified |-> f.qualified, obj |-> f.obj, got |-> f.got]
      /\ f.fn \in {"VisitQualType", "Visit"} /\ f.clang \in Keys /\ f.qualified \in BOOLEAN /\ f.obj \in 0 .. m /\ f.got \in Nat
  BY DEF FrameSet
<1>2. ASSUME NEW n \in Nat, NEW o \in 0 .. n, m <= n PROVE [f EXCEPT !.obj = o] \in FrameSet(n)
  <2>1. [f EXCEPT !.obj = o] = [fn |-> f.fn, clang |-> f.clang, qualified |-> f.qualified, obj |-> o, got |-> f.got]
    BY <1>1
  <2> QED
    BY <1>1, <2>1 DEF FrameSet
<1>3. [f EXCEPT !.got = @ + 1] \in FrameSet(m)
  <2>1. [f EXCEPT !.got = @ + 1] = [fn |-> f.fn, clang |-> f.clang, qualified |-> f.qualified, obj |-> f.obj, got |-> f.got + 1]
    BY <1>1
  <2> QED
    BY <1>1, <2>1 DEF FrameSet
<1> QED
  BY <1>2, <1>3

LEMMA TypedEnterQualified ==
  ASSUME Typed, EnterQualified, UNCHANGED <<decls, cur, latest, exports>> PROVE Typed'
<1>1. /\ stack # << >> /\ Frame.clang \in Keys /\ Type \in ClangTypes
      /\ Frame \in FrameSet(Len(objs))
  BY FrameTyped DEF EnterQualified, Entered
<1>2. PICK m, f : m = Len(objs) + 1 /\ f = [Frame EXCEPT !.obj = m]
  OBVIOUS
<1>3. objs' = Append(objs, [kind |-> "qualified", kids |-> <<Null>>])
  BY DEF EnterQualified
<1>4. /\ Len(objs) \in Nat /\ Len(objs') = m /\ objs' \in Seq(ObjectSet(m))
      /\ types \in Seq(ReprSet(m)) /\ stack \in Seq(FrameSet(m))
  <2>1. <<Null>> \in Seq(0 .. Len(objs) + 1)
    BY DEF Null, Typed
  <2> QED
    BY <1>2, <1>3, <2>1, ObjectAdded
<1>5. types' \in Seq(ReprSet(m))
  BY <1>1, <1>2, <1>4, PushTyped DEF EnterQualified
<1>6. f \in FrameSet(m) /\ Visit(Type) \in FrameSet(m)
  <2>1. m \in Nat /\ m \in 0 .. m /\ Len(objs) <= m
    BY <1>2, <1>4
  <2> QED
    BY <1>1, <1>2, <1>4, <2>1, CallsTyped, FrameChanged
<1>7. stack' \in Seq(FrameSet(m))
  <2>1. WithTop(f) \in Seq(FrameSet(m))
    BY <1>1, <1>4, <1>6, WithTopParts
  <2>2. stack' = Append(WithTop(f), Visit(Type))
    BY <1>2 DEF EnterQualified
  <2> QED
    BY <1>6, <2>1, <2>2
<1>8. ret' \in 0 .. m /\ failed' \in BOOLEAN
  BY <1>2, <1>4 DEF EnterQualified, Typed
<1> QED
  BY <1>2, <1>4, <1>5, <1>7, <1>8, TypedGrows DEF EnterQualified

\* The members of one object are changed.
LEMMA KidsChanged ==
  ASSUME Typed, NEW o \in 0 .. Len(objs), NEW ks, o # 0 => ks \in Seq(0 .. Len(objs)),
         objs' = [objs EXCEPT ![o].kids = ks]
  PROVE  /\ Len(objs) \in Nat /\ Len(objs') = Len(objs) /\ objs' \in Seq(ObjectSet(Len(objs')))
         /\ \A x \in 1 .. Len(objs) : x # o => objs'[x] = objs[x]
         /\ o # 0 => objs'[o].kind = objs[o].kind /\ objs'[o].kids = ks
<1>1. Len(objs) \in Nat /\ objs \in Seq(ObjectSet(Len(objs)))
  BY DEF Typed
<1>2. CASE o = 0
  <2>1. objs' = objs
    BY <1>1, <1>2
  <2> QED
    BY <1>1, <1>2, <2>1
<1>3. CASE o # 0
  <2>1. o \in 1 .. Len(objs) /\ objs[o] \in ObjectSet(Len(objs))
    BY <1>1, <1>3
  <2>2. PICK x : x = [objs[o] EXCEPT !.kids = ks]
    OBVIOUS
  <2>3. x \in ObjectSet(Len(objs)) /\ x.kind = objs[o].kind /\ x.kids = ks
    BY <1>3, <2>1, <2>2 DEF ObjectSet
  <2>4. objs' = [objs EXCEPT ![o] = x]
    BY <2>2
  <2>5. Len(objs') = Len(objs) /\ objs' \in Seq(ObjectSet(Len(objs)))
    BY <1>1, <2>1, <2>3, <2>4
  <2> QED
    BY <1>1, <2>1, <2>3, <2>4, <2>5
<1> QED
  BY <1>2, <1>3

LEMMA TypedResumeQualified ==
  ASSUME Typed, ResumeQualified, UNCHANGED <<decls, cur, latest, exports>> PROVE Typed'
<1>1. stack # << >> /\ Frame.obj \in 0 .. Len(objs) /\ ret \in 0 .. Len(objs)
  BY FrameTyped DEF ResumeQualified, Resumed, Typed
<1>2. <<ret>> \in Seq(0 .. Len(objs))
  BY <1>1
<1>3. objs' = [objs EXCEPT ![Frame.obj].kids = <<ret>>]
  BY DEF ResumeQualified
<1>4. Len(objs) \in Nat /\ Len(objs') = Len(objs) /\ objs' \in Seq(ObjectSet(Len(objs')))
  BY <1>1, <1>2, <1>3, KidsChanged
<1>5. stack' \in Seq(FrameSet(Len(objs))) /\ ret' \in 0 .. Len(objs)
  BY <1>1, StackParts DEF ResumeQualified, Return, Typed
<1> QED
  BY <1>4, <1>5, TypedGrows DEF ResumeQualified, Typed

LEMMA TypedResumeUnqualified ==
  ASSUME Typed, ResumeUnqualified, UNCHANGED <<decls, cur, latest, exports>> PROVE Typed'
<1>1. stack # << >> /\ Frame.clang \in Keys /\ ret \in 1 .. Len(objs) /\ Len(objs) \in Nat
  BY FrameTyped DEF ResumeUnqualified, Resumed, Typed, Null
<1>2. types' \in Seq(ReprSet(Len(objs)))
  BY <1>1, PushTyped DEF ResumeUnqualified, Typed
<1>3. stack' \in Seq(FrameSet(Len(objs))) /\ ret' \in 0 .. Len(objs)
  BY <1>1, StackParts DEF ResumeUnqualified, Return, Typed
<1> QED
  BY <1>1, <1>2, <1>3, TypedGrows DEF ResumeUnqualified, Typed

LEMMA TypedResumeSugar ==
  ASSUME Typed, ResumeSugar, UNCHANGED <<decls, cur, latest, exports>> PROVE Typed'
<1>1. stack' \in Seq(FrameSet(Len(objs))) /\ ret' \in 0 .. Len(objs) /\ Len(objs) \in Nat
  BY StackParts DEF ResumeSugar, Resumed, Return, Typed
<1> QED
  BY <1>1, TypedGrows DEF ResumeSugar, Typed

LEMMA TypedVisitLeaf ==
  ASSUME Typed, VisitLeaf, UNCHANGED <<decls, cur, latest, exports>> PROVE Typed'
<1>1. stack # << >> /\ Frame.clang \in Keys /\ KindOf(Type) \in Leaves
  BY FrameTyped DEF VisitLeaf, Entered
<1>2. /\ Len(objs) \in Nat /\ Len(objs') = Len(objs) + 1 /\ objs' \in Seq(ObjectSet(Len(objs')))
      /\ types \in Seq(ReprSet(Len(objs'))) /\ stack \in Seq(FrameSet(Len(objs')))
  <2>1. << >> \in Seq(0 .. Len(objs) + 1)
    OBVIOUS
  <2> QED
    BY <1>1, <2>1, ObjectAdded DEF VisitLeaf
<1>3. types' \in Seq(ReprSet(Len(objs')))
  BY <1>1, <1>2, PushTyped DEF VisitLeaf
<1>4. stack' \in Seq(FrameSet(Len(objs'))) /\ ret' \in 0 .. Len(objs')
  BY <1>1, <1>2, StackParts DEF VisitLeaf, Return
<1> QED
  BY <1>2, <1>3, <1>4, TypedGrows DEF VisitLeaf, Typed

LEMMA TypedVisitComposite ==
  ASSUME Typed, VisitComposite, UNCHANGED <<decls, cur, latest, exports>> PROVE Typed'
<1>1. stack # << >> /\ Frame.clang \in Keys /\ KindOf(Type) \in Composites /\ Frame \in FrameSet(Len(objs))
  BY FrameTyped DEF VisitComposite, Entered
<1>2. /\ Len(objs) \in Nat /\ Len(objs') = Len(objs) + 1 /\ objs' \in Seq(ObjectSet(Len(objs')))
      /\ types \in Seq(ReprSet(Len(objs'))) /\ stack \in Seq(FrameSet(Len(objs')))
  <2>1. NewKids(KindOf(Type)) \in Seq(0 .. Len(objs) + 1)
    <3>1. Len(objs) \in Nat /\ 0 \in 0 .. Len(objs) + 1
      BY DEF Typed
    <3>2. << >> \in Seq(0 .. Len(objs) + 1) /\ <<0>> \in Seq(0 .. Len(objs) + 1)
      BY <3>1
    <3> QED
      BY <3>2 DEF NewKids, Null
  <2> QED
    BY <1>1, <2>1, ObjectAdded DEF VisitComposite
<1>3. types' \in Seq(ReprSet(Len(objs')))
  <2>1. types' = push_back(Frame.clang, Len(objs) + 1)
    BY DEF VisitComposite
  <2>2. Len(objs) + 1 \in 1 .. Len(objs') /\ Len(objs') \in Nat
    BY <1>2
  <2> QED
    BY <1>1, <1>2, <2>1, <2>2, PushTyped
<1>4. PICK f : f = [Frame EXCEPT !.obj = Len(objs) + 1]
  OBVIOUS
<1>5. f \in FrameSet(Len(objs'))
  <2>1. Len(objs') \in Nat /\ Len(objs) + 1 \in 0 .. Len(objs') /\ Len(objs) <= Len(objs')
    BY <1>2
  <2> QED
    BY <1>1, <1>2, <1>4, <2>1, FrameChanged
<1>6. stack' \in Seq(FrameSet(Len(objs')))
  BY <1>1, <1>2, <1>4, <1>5, WithTopParts DEF VisitComposite
<1> QED
  BY <1>2, <1>3, <1>6, TypedGrows DEF VisitComposite, Typed

LEMMA TypedCalls ==
  ASSUME Typed, EnterUnqualified \/ VisitSugar \/ VisitPart, UNCHANGED <<decls, cur, latest, exports>>
  PROVE  Typed'
<1>1. stack # << >> /\ Type \in ClangTypes /\ Frame.got \in Nat /\ Len(objs) \in Nat
  BY FrameTyped DEF EnterUnqualified, VisitSugar, VisitPart, Entered, Looping, Typed
<1>2. UNCHANGED <<ast, types, objs, ret, failed>>
  BY DEF EnterUnqualified, VisitSugar, VisitPart
<1>3. CASE EnterUnqualified
  BY <1>1, <1>2, <1>3, CallsTyped, TypedPush DEF EnterUnqualified
<1>4. CASE VisitSugar
  <2>1. PartsOf(Type)[1] \in QualTypes
    BY <1>1, <1>4, PartsTyped DEF VisitSugar
  <2> QED
    BY <1>1, <1>2, <1>4, <2>1, CallsTyped, TypedPush DEF VisitSugar
<1>5. CASE VisitPart
  <2>1. Frame.got + 1 \in 1 .. Len(PartsOf(Type)) /\ PartsOf(Type) \in Seq(QualTypes)
    BY <1>1, <1>5, PartsTyped DEF VisitPart
  <2>2. PartsOf(Type)[Frame.got + 1] \in QualTypes
    BY <2>1
  <2> QED
    BY <1>1, <1>2, <1>5, <2>2, CallsTyped, TypedPush DEF VisitPart
<1> QED
  BY <1>3, <1>4, <1>5

\* What ResumePart makes of the members of an object.
LEMMA PartTaken ==
  ASSUME Typed, NEW ks \in Seq(0 .. Len(objs)), NEW g \in Nat, NEW r \in 0 .. Len(objs)
  PROVE  (IF g < Len(ks) THEN [ks EXCEPT ![g + 1] = r] ELSE Append(ks, r)) \in Seq(0 .. Len(objs))
<1>1. Append(ks, r) \in Seq(0 .. Len(objs))
  OBVIOUS
<1>2. ASSUME g < Len(ks) PROVE [ks EXCEPT ![g + 1] = r] \in Seq(0 .. Len(objs))
  <2>1. PICK n, h : n = Len(ks) /\ h = g + 1
    OBVIOUS
  <2>2. n \in Nat /\ h \in 1 .. n /\ DOMAIN ks = 1 .. n
    BY <1>2, <2>1
  <2>3. [ks EXCEPT ![h] = r] \in [1 .. n -> 0 .. Len(objs)]
    BY <2>1, <2>2
  <2> QED
    BY <2>1, <2>2, <2>3
<1> QED
  BY <1>1, <1>2

LEMMA TypedResumePart ==
  ASSUME Typed, ResumePart, UNCHANGED <<decls, cur, latest, exports>> PROVE Typed'
<1>1. /\ stack # << >> /\ Frame \in FrameSet(Len(objs)) /\ Frame.obj \in 0 .. Len(objs) /\ Frame.got \in Nat
      /\ ret \in 0 .. Len(objs) /\ Len(objs) \in Nat
  BY FrameTyped DEF ResumePart, Resumed, Typed
<1>2. PICK ks : ks = IF Frame.got < Len(objs[Frame.obj].kids)
                     THEN [objs[Frame.obj].kids EXCEPT ![Frame.got + 1] = ret]
                     ELSE Append(objs[Frame.obj].kids, ret)
  OBVIOUS
<1>3. objs' = [objs EXCEPT ![Frame.obj].kids = ks]
  BY <1>2 DEF ResumePart
<1>4. Frame.obj # 0 => ks \in Seq(0 .. Len(objs))
  <2>1. SUFFICES ASSUME Frame.obj # 0 PROVE ks \in Seq(0 .. Len(objs))
    OBVIOUS
  <2>2. objs[Frame.obj] \in ObjectSet(Len(objs))
    BY <1>1, <2>1 DEF Typed
  <2>3. objs[Frame.obj].kids \in Seq(0 .. Len(objs))
    BY <2>2 DEF ObjectSet
  <2> QED
    BY <1>1, <1>2, <2>3, PartTaken
<1>5. Len(objs') = Len(objs) /\ objs' \in Seq(ObjectSet(Len(objs')))
  BY <1>1, <1>3, <1>4, KidsChanged
<1>6. stack' \in Seq(FrameSet(Len(objs)))
  BY <1>1, FrameChanged, WithTopParts DEF ResumePart, Typed
<1>7. ret' \in 0 .. Len(objs)
  BY <1>1 DEF ResumePart, Null
<1> QED
  BY <1>1, <1>5, <1>6, <1>7, TypedGrows DEF ResumePart, Typed

LEMMA TypedReturnComposite ==
  ASSUME Typed, ReturnComposite, UNCHANGED <<decls, cur, latest, exports>> PROVE Typed'
<1>1. stack' \in Seq(FrameSet(Len(objs))) /\ ret' \in 0 .. Len(objs) /\ Len(objs) \in Nat
  BY StackParts, FrameTyped DEF ReturnComposite, Looping, Return, Typed
<1> QED
  BY <1>1, TypedGrows DEF ReturnComposite, Typed

LEMMA TypedUnconvertible ==
  ASSUME Typed, Unconvertible, UNCHANGED <<decls, cur, latest, exports>> PROVE Typed'
<1>1. Len(objs) \in Nat
  BY DEF Typed
<1> QED
  BY <1>1, TypedGrows DEF Unconvertible, Typed

-------------------------------------------------------------------------------
\* The call that converts the type of a declaration.
RootCall(d) == IF d.kind \in {"record", "enum"} THEN Visit(d.type[1]) ELSE VisitQualType(d.type)

LEMMA RootTyped ==
  ASSUME Typed, NEW d \in ast.decls
  PROVE  /\ d.kind \in DeclKinds /\ d.type \in QualTypes
         /\ RootCall(d) \in FrameSet(Len(objs))
         /\ Visit(PreviousType(d)) \in FrameSet(Len(objs))
<1>1. d.kind \in DeclKinds /\ d.type \in QualTypes /\ d.type[1] \in ClangTypes /\ Len(objs) \in Nat
  BY DEF Typed, Declared, QualTypes
<1> QED
  BY <1>1, CallsTyped DEF RootCall, PreviousType

LEMMA TypedCollects ==
  ASSUME Typed, UNCHANGED <<ast, types, objs, failed>>,
         decls' \subseteq ast.decls, cur' \subseteq ast.decls \ decls',
         stack' \in Seq(FrameSet(Len(objs))), ret' \in 0 .. Len(objs), latest' \in 0 .. Len(objs),
         exports' \in Seq(ExportSet(Len(objs)))
  PROVE  Typed'
<1>1. (exports \in Seq(ExportSet(Len(objs))))'
  BY DEF ExportSet
<1> QED
  BY <1>1 DEF Typed

LEMMA TypedSkipAlias == ASSUME Typed, NEW d \in decls, SkipAlias(d) PROVE Typed'
BY TypedCollects DEF SkipAlias, convVars, Typed

LEMMA TypedVisitDecl == ASSUME Typed, NEW d \in decls, VisitDecl(d) PROVE Typed'
<1>1. RootCall(d) \in FrameSet(Len(objs))
  BY RootTyped DEF Typed
<1>2. stack' = <<RootCall(d)>>
  BY DEF VisitDecl, RootCall
<1>3. stack' \in Seq(FrameSet(Len(objs)))
  BY <1>1, <1>2
<1> QED
  BY <1>3, TypedCollects DEF VisitDecl, Typed

LEMMA TypedPushExport == ASSUME Typed, NEW d \in cur, PushExport(d) PROVE Typed'
<1>1. ret \in 1 .. Len(objs) /\ Len(objs) \in Nat /\ d \in ast.decls
  BY DEF PushExport, Converted, Typed, Null
<1>2. exports' \in Seq(ExportSet(Len(objs)))
  <2>1. [decl |-> d, type |-> ret] \in ExportSet(Len(objs))
    BY <1>1 DEF ExportSet
  <2> QED
    BY <2>1 DEF PushExport, Typed
<1> QED
  BY <1>1, <1>2, TypedCollects DEF PushExport, Typed, Null

LEMMA TypedVisitPrevious == ASSUME Typed, NEW d \in cur, VisitPreviousDecl(d) PROVE Typed'
<1>1. d \in ast.decls /\ ret \in 0 .. Len(objs) /\ 0 \in 0 .. Len(objs)
  BY DEF Typed
<1>2. stack' \in Seq(FrameSet(Len(objs)))
  BY <1>1, RootTyped DEF VisitPreviousDecl
<1> QED
  BY <1>1, <1>2, TypedCollects DEF VisitPreviousDecl, Typed, Null

LEMMA TypedReplacePrevious == ASSUME Typed, NEW d \in cur, ReplacePrevious(d) PROVE Typed'
<1>1. /\ ret \in 1 .. Len(objs) /\ latest \in 1 .. Len(objs) /\ Len(objs) \in Nat /\ 0 \in 0 .. Len(objs)
      /\ d \in ast.decls
  BY DEF ReplacePrevious, Converted, Typed, Null
<1>2. types' \in Seq(ReprSet(Len(objs)))
  <2>1. \A n \in 1 .. Len(types) : replaceReprs(ret)[n] \in ReprSet(Len(objs))
    <3>1. SUFFICES ASSUME NEW n \in 1 .. Len(types) PROVE replaceReprs(ret)[n] \in ReprSet(Len(objs))
      OBVIOUS
    <3> QED
      BY EntryTyped DEF replaceReprs, TypeRepr, ReprSet
  <2>2. types' = [n \in 1 .. Len(types) |-> replaceReprs(ret)[n]]
    BY DEF ReplacePrevious, replaceReprs
  <2> QED
    BY <2>1, <2>2 DEF Typed
<1>3. Len(objs') = Len(objs) /\ objs' \in Seq(ObjectSet(Len(objs)))
  <2>1. \A o \in 1 .. Len(objs) : ReplaceAll(objs, ret, latest)[o] \in ObjectSet(Len(objs))
    <3>1. SUFFICES ASSUME NEW o \in 1 .. Len(objs) PROVE ReplaceAll(objs, ret, latest)[o] \in ObjectSet(Len(objs))
      OBVIOUS
    <3>2. PICK x : x = objs[o]
      OBVIOUS
    <3>3. x \in ObjectSet(Len(objs))
      BY <3>2 DEF Typed
    <3>4. PICK ks : ks = [n \in DOMAIN x.kids |-> IF x.kids[n] = ret THEN latest ELSE x.kids[n]]
      OBVIOUS
    <3>5. ks \in Seq(0 .. Len(objs))
      <4>1. x.kids \in Seq(0 .. Len(objs))
        BY <3>3 DEF ObjectSet
      <4>2. PICK m : m = Len(x.kids)
        OBVIOUS
      <4>3. m \in Nat /\ DOMAIN x.kids = 1 .. m /\ \A n \in 1 .. m : x.kids[n] \in 0 .. Len(objs)
        BY <4>1, <4>2
      <4>4. ks \in [1 .. m -> 0 .. Len(objs)]
        BY <1>1, <3>4, <4>3
      <4> QED
        BY <4>3, <4>4
    <3>6. [x EXCEPT !.kids = ks] \in ObjectSet(Len(objs))
      BY <3>3, <3>5 DEF ObjectSet
    <3>7. ReplaceAll(objs, ret, latest)[o] = x \/ ReplaceAll(objs, ret, latest)[o] = [x EXCEPT !.kids = ks]
      BY <3>2, <3>4 DEF ReplaceAll
    <3> QED
      BY <3>3, <3>6, <3>7
  <2>2. objs' = [o \in 1 .. Len(objs) |-> ReplaceAll(objs, ret, latest)[o]]
    BY DEF ReplacePrevious, ReplaceAll
  <2> QED
    BY <1>1, <2>1, <2>2
<1>4. exports' \in Seq(ExportSet(Len(objs)))
  <2>1. PICK es : es = [n \in 1 .. Len(exports) |->
                          IF exports[n].type = ret THEN [exports[n] EXCEPT !.type = latest] ELSE exports[n]]
    OBVIOUS
  <2>2. \A n \in 1 .. Len(exports) : es[n] \in ExportSet(Len(objs))
    <3>1. \A n \in 1 .. Len(exports) : exports[n] \in ExportSet(Len(objs))
      BY DEF Typed
    <3> QED
      BY <1>1, <2>1, <3>1 DEF ExportSet
  <2>3. es \in Seq(ExportSet(Len(objs)))
    BY <2>1, <2>2 DEF Typed
  <2>4. [decl |-> d, type |-> latest] \in ExportSet(Len(objs))
    BY <1>1 DEF ExportSet
  <2> QED
    BY <2>1, <2>3, <2>4 DEF ReplacePrevious
<1>5. (exports \in Seq(ExportSet(Len(objs))))'
  BY <1>3, <1>4 DEF ExportSet, ReplacePrevious
<1> QED
  BY <1>1, <1>2, <1>3, <1>5 DEF ReplacePrevious, Typed, Null

LEMMA TypedStep == ASSUME Typed, [Next]_collVars PROVE Typed'
<1>1. CASE UNCHANGED collVars
  BY <1>1 DEF collVars, convVars, Typed, ReprSet, ObjectSet, FrameSet, ExportSet
<1>2. CASE CollStep
  <2>1. ASSUME NEW d \in decls, SkipAlias(d) \/ VisitDecl(d) PROVE Typed'
    BY <2>1, TypedSkipAlias, TypedVisitDecl
  <2>2. ASSUME NEW d \in cur, PushExport(d) \/ VisitPreviousDecl(d) \/ ReplacePrevious(d) PROVE Typed'
    BY <2>2, TypedPushExport, TypedVisitPrevious, TypedReplacePrevious
  <2>3. ASSUME ConvStep, UNCHANGED <<decls, cur, latest, exports>> PROVE Typed'
    BY <2>3, TypedFound, TypedEnterQualified, TypedResumeQualified, TypedResumeUnqualified, TypedResumeSugar,
       TypedVisitLeaf, TypedVisitComposite, TypedCalls, TypedResumePart, TypedReturnComposite, TypedUnconvertible
       DEF ConvStep
  <2> QED
    BY <1>2, <2>1, <2>2, <2>3 DEF CollStep
<1> QED
  BY <1>1, <1>2 DEF Next, Done

THEOREM AlwaysTyped == Spec => []Typed
<1>1. Init => Typed
  BY TypedInit
<1>2. Typed /\ [Next]_collVars => Typed'
  BY TypedStep
<1> QED
  BY <1>1, <1>2, PTL DEF Spec

\* The converter and the collector never refer to a type that does not exist,
\* whatever the translation units: the member of an object, the frame of a call
\* and an Export hold an object made before, or none yet where that is allowed.
THEOREM CollectorTyped == Spec => []TypeOK
BY AlwaysTyped, TypedIsTypeOK, PTL
-------------------------------------------------------------------------------
(* The invariant.                                                            *)

SameCall(f, g) == f.fn = g.fn /\ f.clang = g.clang /\ f.qualified = g.qualified

\* What a call is for: only the visit of qualifiers knows of any, and if they
\* are not in the key, they are extended ones.
WellCalled(f) ==
  /\ f.fn = "Visit" => ~ f.clang[2] /\ ~ f.qualified
  /\ f.clang[2] => f.qualified
  /\ f.qualified => f.clang[2] \/ Blurred(f.clang)

\* The call that f waits for.
Asked(f) == IF f.fn = "VisitQualType" THEN Visit(f.clang[1]) ELSE VisitQualType(PartsOf(f.clang[1])[f.got + 1])

\* What is asked for by the call number p, and at the bottom of the stack by the
\* declaration that is visited. The previous declaration has the same type.
AskedAt(p) == IF p = 0 THEN RootCall(CHOOSE d \in cur : TRUE) ELSE Asked(stack[p])

\* o is a right answer to the call c.
Means(c, o) ==
  IF c.fn = "Visit" THEN Converts(c.clang[1], o) /\ KindOf(c.clang[1]) # "other"
  ELSE IF c.qualified THEN Entry(c.clang, o)
  ELSE Stands(<<c.clang[1], "none">>, o)

\* f waits for another call to return.
Waiting(f) ==
  IF f.fn = "VisitQualType" THEN f.qualified <=> f.obj # Null
  ELSE \/ KindOf(f.clang[1]) = "sugar" /\ f.obj = Null /\ f.got = 0
       \/ KindOf(f.clang[1]) \in Composites /\ f.obj # Null /\ f.got < Len(PartsOf(f.clang[1]))

\* f has just been made, or is between two parts.
Ready(f) ==
  \/ f.obj = Null /\ f.got = 0
  \/ f.fn = "Visit" /\ KindOf(f.clang[1]) \in Composites /\ f.obj # Null /\ f.got <= Len(PartsOf(f.clang[1]))

\* Every call on the stack was asked for by the one below it, and what the last
\* one returned is what was asked for.
Chained ==
  /\ \A p \in 1 .. Len(stack) : WellCalled(stack[p])
  /\ \A p \in 1 .. Len(stack) : p < Len(stack) \/ ret # Null => Waiting(stack[p])
  /\ stack # << >> /\ ret = Null => Ready(stack[Len(stack)])
  /\ \A p \in 0 .. Len(stack) - 1 : SameCall(stack[p + 1], AskedAt(p))
  /\ ret # Null => Means(AskedAt(Len(stack)), ret)

\* k is sugar that o was found to be the conversion of.
AliasOf(k, o) == ~ k[2] /\ KindOf(k[1]) = "sugar" /\ Converts(k[1], o)

\* The calls that make an object have entered it, each under a key of its own,
\* and any other key of the object is sugar.
Active(p) == stack[p].obj # Null
Recorded ==
  /\ \A p \in 1 .. Len(stack) : Active(p) => Entry(stack[p].clang, stack[p].obj)
  /\ \A p, q \in 1 .. Len(stack) : Active(p) /\ Active(q) /\ stack[p].clang = stack[q].clang => p = q
  /\ \A p, q \in 1 .. Len(stack) : Active(p) /\ Active(q) /\ stack[p].obj = stack[q].obj => p = q
  /\ \A p \in 1 .. Len(stack) : Active(p) =>
       \A n \in 1 .. Len(types) : types[n].autoffi = stack[p].obj =>
         types[n].clang = stack[p].clang \/ AliasOf(types[n].clang, stack[p].obj)

\* The container has one entry for a key, and what an object has after its first
\* entry is entries of sugar.
KeysUnique == \A m, n \in 1 .. Len(types) : types[m].clang = types[n].clang => m = n
OwnFirst ==
  \A m, n \in 1 .. Len(types) : types[m].autoffi = types[n].autoffi /\ Plain(types[n].clang) => n <= m
Indexed == KeysUnique /\ OwnFirst

\* The object of a call has the parts that have been taken.
Built(f) ==
  IF f.fn = "VisitQualType" THEN objs[f.obj].kind = "qualified"
  ELSE /\ objs[f.obj].kind = KindOf(f.clang[1])
       /\ Len(objs[f.obj].kids) = IF f.got = 0 /\ KindOf(f.clang[1]) \notin Records THEN 1 ELSE f.got
       /\ \A n \in 1 .. f.got : Stands(PartsOf(f.clang[1])[n], objs[f.obj].kids[n])

InProgress(k, o) == \E p \in 1 .. Len(stack) : stack[p].obj = o /\ stack[p].clang = k

\* What FaithfulConversion says of an entry. A type that cannot be converted
\* never gets as far as that.
Right(k, o) ==
  \/ SameShape(k, o)
  \/ Blurred(k) /\ KindOf(k[1]) # "other" /\ Qualifies(k[1], o)

Shaped ==
  /\ \A p \in 1 .. Len(stack) : Active(p) => Built(stack[p])
  /\ \A n \in 1 .. Len(types) :
       Right(types[n].clang, types[n].autoffi) \/ InProgress(types[n].clang, types[n].autoffi)

\* One declaration is visited at a time. The first conversion of a
\* redeclaration has given an answer that the second can only repeat.
Visited ==
  /\ \A d, e \in cur : d = e
  /\ \A d \in cur : d.kind # "alias"
  /\ cur = {} => stack = << >> /\ ret = Null /\ latest = Null
  /\ latest # Null => \A d \in cur : Redeclares(d) /\ Converts(d.type[1], latest)

Exported ==
  /\ \A n \in 1 .. Len(exports) :
       /\ exports[n].decl \in ast.decls \ (decls \union cur)
       /\ exports[n].decl.kind # "alias"
       /\ DeclaredAs(exports[n].decl, exports[n].type)
  /\ \A m, n \in 1 .. Len(exports) : exports[m].decl = exports[n].decl => m = n
  /\ \A d \in ast.decls \ (decls \union cur) :
       d.kind # "alias" => \E n \in 1 .. Len(exports) : exports[n].decl = d

\* The entries that are dangling are all of the type of the redeclaration that
\* was exported last.
LastReplaced(o) ==
  \E m \in 1 .. Len(exports) :
    /\ Redeclares(exports[m].decl) /\ exports[m].type = o
    /\ \A l \in m + 1 .. Len(exports) : ~ Redeclares(exports[l].decl)
OneDangling == \A n \in 1 .. Len(types) : types[n].dangling => LastReplaced(types[n].autoffi)

CollectorInv ==
  Typed /\ Chained /\ Recorded /\ Indexed /\ Shaped /\ Visited /\ Exported /\ OneDangling

-------------------------------------------------------------------------------
(* The meaning of what is known does not change.                             *)

LEMMA StandsKept ==
  ASSUME ast' = ast, \A k, o : Entry(k, o) => Entry(k, o)', NEW qt, NEW o, Stands(qt, o)
  PROVE  Stands(qt, o)'
<1>1. Sugar' = Sugar /\ \A t : PartsOf(t)' = PartsOf(t)
  BY DEF Sugar, KindOf, PartsOf
<1>2. \A S, x : EntryOr(S, x, o) => EntryOr(S, x, o)'
  BY DEF EntryOr, Key
<1>3. ASSUME NEW S \in SUBSET Sugar, \A t \in Sugar : EntryOr(S, PartsOf(t)[1], o)' => t \in S
      PROVE  EntryOr(S, qt, o)'
  <2>1. ASSUME NEW t \in Sugar, EntryOr(S, PartsOf(t)[1], o) PROVE t \in S
    <3>1. PICK x : x = PartsOf(t)[1]
      OBVIOUS
    <3>2. EntryOr(S, x, o)'
      BY <1>2, <2>1, <3>1
    <3>3. EntryOr(S, PartsOf(t)[1], o)'
      BY <1>1, <3>1, <3>2 DEF EntryOr, Entry, Key
    <3> QED
      BY <1>3, <3>3
  <2>2. EntryOr(S, qt, o)
    BY <2>1 DEF Stands
  <2> QED
    BY <1>2, <2>2
<1> QED
  BY <1>1, <1>3 DEF Stands

LEMMA ConvertsKept ==
  ASSUME ast' = ast, \A k, o : Entry(k, o) => Entry(k, o)', NEW t, NEW o, Converts(t, o)
  PROVE  Converts(t, o)'
<1>1. KindOf(t)' = KindOf(t) /\ PartsOf(t)' = PartsOf(t)
  BY DEF KindOf, PartsOf
<1>2. CASE KindOf(t) = "sugar"
  <2>1. PICK x : x = PartsOf(t)[1]
    OBVIOUS
  <2>2. Stands(x, o)'
    BY <1>2, <2>1, StandsKept DEF Converts
  <2>3. PartsOf(t)'[1] = x
    BY <1>1, <2>1
  <2>4. Stands(PartsOf(t)[1], o)'
    BY <2>2, <2>3 DEF Stands
  <2> QED
    BY <1>1, <1>2, <2>4 DEF Converts
<1>3. CASE KindOf(t) # "sugar"
  BY <1>1, <1>3 DEF Converts
<1> QED
  BY <1>2, <1>3

LEMMA MeaningKept ==
  ASSUME ast' = ast, Len(types) \in Nat, Len(types') \in Nat, Len(types) <= Len(types'),
         \A n \in 1 .. Len(types) : types'[n].clang = types[n].clang /\ types'[n].autoffi = types[n].autoffi
  PROVE  /\ \A k, o : Entry(k, o) => Entry(k, o)'
         /\ \A qt, o : Stands(qt, o) => Stands(qt, o)'
         /\ \A t, o : Converts(t, o) => Converts(t, o)'
         /\ \A c, o : Means(c, o) => Means(c, o)'
         /\ \A d, o : DeclaredAs(d, o) => DeclaredAs(d, o)'
<1>1. \A k, o : Entry(k, o) => Entry(k, o)'
  BY DEF Entry
<1>2. \A qt, o : Stands(qt, o) => Stands(qt, o)'
  BY <1>1, StandsKept
<1>3. \A t, o : Converts(t, o) => Converts(t, o)'
  BY <1>1, <1>2, ConvertsKept
<1>4. \A c, o : Means(c, o) => Means(c, o)'
  BY <1>1, <1>2, <1>3 DEF Means, KindOf
<1>5. \A d, o : DeclaredAs(d, o) => DeclaredAs(d, o)'
  BY <1>2, <1>3 DEF DeclaredAs
<1> QED
  BY <1>1, <1>2, <1>3, <1>4, <1>5

\* A key has one entry, and a type is converted to one object.
LEMMA OneAnswer ==
  ASSUME KeysUnique, NEW k, NEW o1, NEW o2, Entry(k, o1), Entry(k, o2)
  PROVE  o1 = o2
BY DEF KeysUnique, Entry

\* Sugar may have had its key taken by a form of it with qualifiers.
LEMMA OneConversion ==
  ASSUME KeysUnique, NEW t, KindOf(t) # "sugar", NEW o1, NEW o2, Converts(t, o1), Converts(t, o2)
  PROVE  o1 = o2
BY OneAnswer DEF Converts

-------------------------------------------------------------------------------
(* What a qualified type stands for.                                         *)

LEMMA EntryStands ==
  ASSUME NEW qt, NEW o, Entry(Key(qt), o)
  PROVE  Stands(qt, o)
BY DEF Stands, EntryOr

LEMMA SugarStands ==
  ASSUME NEW t \in Sugar, NEW o, Stands(PartsOf(t)[1], o)
  PROVE  Stands(<<t, "none">>, o)
<1>1. ASSUME NEW S \in SUBSET Sugar, \A x \in Sugar : EntryOr(S, PartsOf(x)[1], o) => x \in S
      PROVE  EntryOr(S, <<t, "none">>, o)
  <2>1. EntryOr(S, PartsOf(t)[1], o)
    BY <1>1 DEF Stands
  <2>2. t \in S
    BY <1>1, <2>1
  <2> QED
    BY <2>2 DEF EntryOr
<1> QED
  BY <1>1 DEF Stands

\* Nothing else makes it stand for anything.
LEMMA StandsInversion ==
  ASSUME NEW qt, NEW o, Stands(qt, o)
  PROVE  Entry(Key(qt), o) \/ (qt[2] = "none" /\ qt[1] \in Sugar /\ Stands(PartsOf(qt[1])[1], o))
<1>1. PICK S : S = {t \in Sugar : Stands(PartsOf(t)[1], o)}
  OBVIOUS
<1>2. ASSUME NEW x \in Sugar, EntryOr(S, PartsOf(x)[1], o) PROVE x \in S
  <2>1. PICK q : q = PartsOf(x)[1]
    OBVIOUS
  <2>2. CASE Entry(Key(q), o)
    BY <1>1, <2>1, <2>2, EntryStands
  <2>3. CASE q[2] = "none" /\ q[1] \in S
    <3>1. q[1] \in Sugar /\ Stands(PartsOf(q[1])[1], o)
      BY <1>1, <2>3
    <3>2. \A R \in SUBSET Sugar :
            (\A y \in Sugar : EntryOr(R, PartsOf(y)[1], o) => y \in R) => EntryOr(R, q, o)
      <4>1. SUFFICES ASSUME NEW R \in SUBSET Sugar,
                            \A y \in Sugar : EntryOr(R, PartsOf(y)[1], o) => y \in R
                     PROVE  EntryOr(R, q, o)
        OBVIOUS
      <4>2. EntryOr(R, PartsOf(q[1])[1], o)
        BY <3>1, <4>1 DEF Stands
      <4>3. q[1] \in R
        BY <3>1, <4>1, <4>2
      <4> QED
        BY <2>3, <4>3 DEF EntryOr
    <3>3. Stands(q, o)
      BY <3>2 DEF Stands
    <3> QED
      BY <1>1, <2>1, <3>3
  <2> QED
    BY <1>2, <2>1, <2>2, <2>3 DEF EntryOr
<1>3. S \in SUBSET Sugar
  BY <1>1
<1>4. EntryOr(S, qt, o)
  BY <1>2, <1>3 DEF Stands
<1> QED
  BY <1>1, <1>4 DEF EntryOr

\* The right answer to a call for a type is what the type stands for.
LEMMA MeansStands ==
  ASSUME NEW qt \in QualTypes, NEW o, Means(VisitQualType(qt), o)
  PROVE  Stands(qt, o)
<1>1. PICK c : c = VisitQualType(qt)
  OBVIOUS
<1>2. c.fn = "VisitQualType" /\ c.clang = Key(qt) /\ c.qualified = hasLocalQualifiers(qt)
  BY <1>1 DEF VisitQualType
<1>3. CASE hasLocalQualifiers(qt)
  <2>1. Entry(Key(qt), o)
    BY <1>1, <1>2, <1>3 DEF Means
  <2> QED
    BY <2>1, EntryStands
<1>4. CASE ~ hasLocalQualifiers(qt)
  <2>1. Stands(<<Key(qt)[1], "none">>, o)
    BY <1>1, <1>2, <1>4 DEF Means
  <2>2. qt = <<Key(qt)[1], "none">>
    BY <1>4, KeyTyped DEF Key, hasLocalQualifiers
  <2> QED
    BY <2>1, <2>2
<1> QED
  BY <1>3, <1>4

\* What a visit without qualifiers gives is what the type stands for.
LEMMA ConvertsStands ==
  ASSUME NEW t \in ClangTypes, NEW o, Converts(t, o)
  PROVE  Stands(<<t, "none">>, o)
<1>1. CASE KindOf(t) = "sugar"
  BY <1>1, SugarStands DEF Converts, Sugar
<1>2. CASE KindOf(t) # "sugar"
  <2>1. Key(<<t, "none">>) = <<t, FALSE>>
    BY DEF Key
  <2> QED
    BY <1>2, <2>1, EntryStands DEF Converts
<1> QED
  BY <1>1, <1>2

-------------------------------------------------------------------------------
(* The calls.                                                                *)

LEMMA BlurredKept == ASSUME ast' = ast PROVE \A k : Blurred(k)' <=> Blurred(k)
BY DEF Blurred

\* The type of a part or of a declaration makes a call that knows of its
\* qualifiers.
LEMMA VisitWell ==
  ASSUME NEW qt \in QualTypes, qt[2] = "extended" => Mixed(ast, qt[1])
  PROVE  WellCalled(VisitQualType(qt))
<1>1. PICK c : c = VisitQualType(qt)
  OBVIOUS
<1>2. c.fn = "VisitQualType" /\ c.clang = Key(qt) /\ c.qualified = hasLocalQualifiers(qt)
  BY <1>1 DEF VisitQualType
<1>3. qt[2] \in {"none", "fast", "extended"}
  BY KeyTyped DEF Quals
<1>4. Key(qt)[1] = qt[1] /\ (Key(qt)[2] <=> qt[2] = "fast")
  BY DEF Key
<1>5. c.clang[2] => c.qualified
  BY <1>2, <1>4 DEF hasLocalQualifiers
<1>6. c.qualified => c.clang[2] \/ Blurred(c.clang)
  BY <1>2, <1>3, <1>4 DEF hasLocalQualifiers, Blurred
<1> QED
  BY <1>1, <1>2, <1>5, <1>6 DEF WellCalled

LEMMA PlainVisitWell == ASSUME NEW t PROVE WellCalled(Visit(t))
<1>1. Visit(t).qualified = FALSE /\ Visit(t).clang = <<t, FALSE>>
  BY DEF Visit
<1> QED
  BY <1>1 DEF WellCalled

LEMMA RootWell == ASSUME Typed, NEW d \in ast.decls PROVE WellCalled(RootCall(d))
<1>1. d.type \in QualTypes
  BY RootTyped
<1>2. d.type[2] = "extended" => Mixed(ast, d.type[1])
  <2>1. d.type[2] = "extended" => d.type = <<d.type[1], "extended">>
    BY <1>1, KeyTyped
  <2> QED
    BY <2>1 DEF Mixed
<1> QED
  BY <1>1, <1>2, VisitWell, PlainVisitWell DEF RootCall

\* The part that a waiting call has asked for is there.
LEMMA PartAsked ==
  ASSUME Typed, NEW m, NEW f \in FrameSet(m), Waiting(f), f.fn = "Visit"
  PROVE  /\ f.clang[1] \in ClangTypes /\ f.got + 1 \in 1 .. Len(PartsOf(f.clang[1]))
         /\ PartsOf(f.clang[1])[f.got + 1] \in QualTypes
<1>1. PICK t, g, size : t = f.clang[1] /\ g = f.got /\ size = Len(PartsOf(t))
  OBVIOUS
<1>2. t \in ClangTypes /\ g \in Nat
  BY <1>1 DEF FrameSet, Keys
<1>3. size \in Nat /\ PartsOf(t) \in Seq(QualTypes) /\ (KindOf(t) = "sugar" => size = 1)
  BY <1>1, <1>2, PartsTyped
<1>4. (KindOf(t) = "sugar" /\ g = 0) \/ g < size
  BY <1>1 DEF Waiting
<1>5. g + 1 \in 1 .. size
  BY <1>2, <1>3, <1>4
<1>6. PartsOf(t)[g + 1] \in QualTypes
  BY <1>1, <1>3, <1>5
<1> QED
  BY <1>1, <1>2, <1>5, <1>6

LEMMA AskedWell ==
  ASSUME Typed, NEW m, NEW f \in FrameSet(m), Waiting(f)
  PROVE  WellCalled(Asked(f))
<1>1. CASE f.fn = "VisitQualType"
  BY <1>1, PlainVisitWell DEF Asked
<1>2. CASE f.fn # "VisitQualType"
  <2>1. f.fn = "Visit"
    BY <1>2 DEF FrameSet
  <2>2. PICK t, n, qt : t = f.clang[1] /\ n = f.got + 1 /\ qt = PartsOf(t)[n]
    OBVIOUS
  <2>3. t \in ClangTypes /\ n \in 1 .. Len(PartsOf(t)) /\ qt \in QualTypes
    BY <2>1, <2>2, PartAsked
  <2>4. qt[2] = "extended" => Mixed(ast, qt[1])
    <3>1. qt[2] = "extended" => qt = <<qt[1], "extended">>
      BY <2>3, KeyTyped
    <3> QED
      BY <2>2, <2>3, <3>1 DEF Mixed, PartsOf
  <2> QED
    BY <1>2, <2>2, <2>3, <2>4, VisitWell DEF Asked
<1> QED
  BY <1>1, <1>2

\* A call keeps what it asks for, whatever happens above it.
LEMMA AsksTheSame ==
  ASSUME ast' = ast, cur' = cur, NEW p, p # 0 => SameCall(stack'[p], stack[p]) /\ stack'[p].got = stack[p].got
  PROVE  AskedAt(p)' = AskedAt(p)
<1>1. CASE p = 0
  BY <1>1 DEF AskedAt, RootCall, Visit, VisitQualType
<1>2. CASE p # 0
  BY <1>2 DEF AskedAt, Asked, SameCall, PartsOf, Visit, VisitQualType
<1> QED
  BY <1>1, <1>2

LEMMA ChainedPush ==
  ASSUME Typed, Chained, stack # << >>, ast' = ast, cur' = cur, ret = Null, ret' = Null,
         NEW f, SameCall(f, Frame), f.got = Frame.got, Waiting(f), WellCalled(Asked(f)),
         NEW c, SameCall(c, Asked(f)), c.obj = Null, c.got = 0,
         Len(stack') = Len(stack) + 1, stack'[Len(stack)] = f, stack'[Len(stack) + 1] = c,
         \A p \in 1 .. Len(stack) - 1 : stack'[p] = stack[p]
  PROVE  Chained'
<1>1. PICK m : m = Len(stack)
  OBVIOUS
<1>2. m \in Nat /\ m > 0 /\ Frame = stack[m]
  BY <1>1, StackParts DEF Typed
<1>3. \A p \in 0 .. m : AskedAt(p)' = AskedAt(p)
  BY <1>1, <1>2, AsksTheSame DEF SameCall
<1>4. /\ \A p \in 1 .. m : SameCall(stack'[p], stack[p])
      /\ \A p \in 1 .. m - 1 : stack'[p] = stack[p]
  BY <1>1, <1>2 DEF SameCall
<1>5. \A p \in 1 .. m + 1 : WellCalled(stack[p])'
  <2>1. WellCalled(c)
    BY DEF SameCall, WellCalled
  <2>2. \A p \in 1 .. m + 1 : WellCalled(stack'[p])
    BY <1>1, <1>2, <1>4, <2>1 DEF Chained, SameCall, WellCalled
  <2> QED
    BY <2>2, BlurredKept DEF WellCalled
<1>6. \A p \in 1 .. m : Waiting(stack'[p])
  BY <1>1, <1>2, <1>4 DEF Chained
<1>7. \A p \in 1 .. m : Waiting(stack[p])'
  BY <1>6 DEF Waiting, KindOf, PartsOf
<1>8. Ready(stack'[m + 1])
  BY <1>1 DEF Ready
<1>9. Ready(stack[m + 1])'
  BY <1>8 DEF Ready, KindOf, PartsOf
<1>10. \A p \in 0 .. m : SameCall(stack'[p + 1], AskedAt(p)')
  <2>1. ASSUME NEW p \in 0 .. m - 1 PROVE SameCall(stack'[p + 1], AskedAt(p)')
    <3>1. p \in 0 .. m /\ p + 1 \in 1 .. m
      BY <1>2
    <3> QED
      BY <1>1, <1>3, <1>4, <3>1 DEF Chained, SameCall
  <2>2. AskedAt(m) = Asked(f)
    BY <1>2 DEF AskedAt, SameCall, Asked
  <2>3. SameCall(stack'[m + 1], AskedAt(m)')
    BY <1>1, <1>2, <1>3, <2>2
  <2>4. ASSUME NEW p \in 0 .. m PROVE SameCall(stack'[p + 1], AskedAt(p)')
    <3>1. CASE p = m
      BY <2>3, <3>1
    <3>2. CASE p # m
      BY <1>2, <2>1, <3>2
    <3> QED
      BY <3>1, <3>2
  <2> QED
    BY <2>4
<1> QED
  BY <1>1, <1>2, <1>5, <1>7, <1>9, <1>10 DEF Chained

\* The call on top goes on, when what it asked for has been taken.
LEMMA ChainedStay ==
  ASSUME Typed, Chained, stack # << >>, ast' = ast, cur' = cur, ret' = Null,
         NEW f, SameCall(f, Frame), Ready(f),
         Len(stack') = Len(stack), stack'[Len(stack)] = f,
         \A p \in 1 .. Len(stack) - 1 : stack'[p] = stack[p]
  PROVE  Chained'
<1>1. PICK m : m = Len(stack)
  OBVIOUS
<1>2. m \in Nat /\ m > 0 /\ Frame = stack[m] /\ Len(stack') = m /\ stack'[m] = f
  BY <1>1, StackParts DEF Typed
<1>3. \A p \in 0 .. m - 1 : AskedAt(p)' = AskedAt(p)
  BY <1>1, <1>2, AsksTheSame DEF SameCall
<1>4. \A p \in 1 .. m : SameCall(stack'[p], stack[p])
  BY <1>1, <1>2 DEF SameCall
<1>5. \A p \in 1 .. m : WellCalled(stack[p])'
  <2>1. \A p \in 1 .. m : WellCalled(stack'[p])
    BY <1>1, <1>4 DEF Chained, SameCall, WellCalled
  <2> QED
    BY <2>1, BlurredKept DEF WellCalled
<1>6. \A p \in 1 .. m - 1 : Waiting(stack'[p])
  BY <1>1, <1>2 DEF Chained
<1>7. \A p \in 1 .. m : p < m => Waiting(stack[p])'
  BY <1>2, <1>6 DEF Waiting, KindOf, PartsOf
<1>8. Ready(stack[m])'
  BY <1>2 DEF Ready, KindOf, PartsOf
<1>9. \A p \in 0 .. m - 1 : SameCall(stack'[p + 1], AskedAt(p)')
  <2>1. SUFFICES ASSUME NEW p \in 0 .. m - 1 PROVE SameCall(stack'[p + 1], AskedAt(p)')
    OBVIOUS
  <2>2. p + 1 \in 1 .. m
    BY <1>2
  <2> QED
    BY <1>1, <1>3, <1>4, <2>2 DEF Chained, SameCall
<1> QED
  BY <1>2, <1>5, <1>7, <1>8, <1>9 DEF Chained

\* The call on top returns a right answer.
LEMMA ChainedReturn ==
  ASSUME Typed, Chained, stack # << >>, ast' = ast, cur' = cur, stack' = Popped,
         Len(types') \in Nat, Len(types) <= Len(types'),
         \A n \in 1 .. Len(types) : types'[n] = types[n],
         NEW f, f = Frame, NEW o, ret' = o, o # Null, Means(f, o)'
  PROVE  Chained'
<1>1. PICK m : m = Len(stack) - 1
  OBVIOUS
<1>2. /\ m \in Nat /\ Len(stack) = m + 1 /\ Frame = stack[m + 1] /\ Len(stack') = m
      /\ \A p \in 1 .. m : stack'[p] = stack[p]
  <2>1. /\ Len(stack) \in Nat /\ Len(stack) > 0 /\ Frame = stack[Len(stack)]
        /\ Len(Popped) = Len(stack) - 1 /\ \A p \in 1 .. Len(stack) - 1 : Popped[p] = stack[p]
    BY StackParts DEF Typed
  <2> QED
    BY <1>1, <2>1
<1>3. \A p \in 0 .. m : AskedAt(p)' = AskedAt(p)
  BY <1>1, <1>2, AsksTheSame DEF SameCall
<1>4. \A p \in 1 .. m : WellCalled(stack[p])'
  <2>1. \A p \in 1 .. m : WellCalled(stack'[p])
    BY <1>2 DEF Chained
  <2> QED
    BY <2>1, BlurredKept DEF WellCalled
<1>5. \A p \in 1 .. m : Waiting(stack'[p])
  BY <1>2 DEF Chained
<1>6. \A p \in 1 .. m : Waiting(stack[p])'
  BY <1>5 DEF Waiting, KindOf, PartsOf
<1>7. \A p \in 0 .. m - 1 : SameCall(stack'[p + 1], AskedAt(p)')
  <2>1. SUFFICES ASSUME NEW p \in 0 .. m - 1 PROVE SameCall(stack'[p + 1], AskedAt(p)')
    OBVIOUS
  <2>2. p + 1 \in 1 .. m /\ p \in 0 .. Len(stack) - 1
    BY <1>2
  <2> QED
    BY <1>2, <1>3, <2>2 DEF Chained, SameCall
<1>8. Means(AskedAt(m), ret)'
  <2>1. PICK c : c = AskedAt(m)
    OBVIOUS
  <2>2. SameCall(f, c)
    BY <1>2, <2>1 DEF Chained
  <2>3. Means(c, o)'
    BY <2>2 DEF SameCall, Means
  <2>4. AskedAt(m)' = c
    BY <1>2, <1>3, <2>1
  <2> QED
    BY <2>3, <2>4 DEF Means
<1> QED
  BY <1>2, <1>4, <1>6, <1>7, <1>8 DEF Chained
-------------------------------------------------------------------------------
(* The container and the objects.                                            *)

LEMMA EntryIsKnown == ASSUME NEW k, NEW o, Entry(k, o) PROVE Known(types, k)
BY DEF Entry, Known

LEMMA AliasKept ==
  ASSUME ast' = ast, \A k, o : Entry(k, o) => Entry(k, o)', NEW k, NEW o, AliasOf(k, o)
  PROVE  AliasOf(k, o)'
<1>1. Converts(k[1], o)'
  BY ConvertsKept DEF AliasOf
<1>2. KindOf(k[1])' = KindOf(k[1])
  BY DEF KindOf
<1> QED
  BY <1>1, <1>2 DEF AliasOf

LEMMA ActiveObject ==
  ASSUME Typed, NEW p \in 1 .. Len(stack), Active(p)
  PROVE  stack[p].obj \in 1 .. Len(objs)
<1>1. stack[p] \in FrameSet(Len(objs)) /\ Len(objs) \in Nat
  BY DEF Typed
<1>2. stack[p].obj \in 0 .. Len(objs)
  BY <1>1 DEF FrameSet
<1> QED
  BY <1>1, <1>2 DEF Active, Null

\* The entries of an object that is being made, when some have been added.
LEMMA OthersKept ==
  ASSUME Typed, Recorded, ast' = ast, \A k, o : Entry(k, o) => Entry(k, o)',
         \A n \in 1 .. Len(types) : types'[n] = types[n],
         NEW p \in 1 .. Len(stack), Active(p), NEW n \in 1 .. Len(types'), NEW k, NEW o,
         k = types'[n].clang, o = types'[n].autoffi, o = stack[p].obj,
         n \in 1 .. Len(types) \/ AliasOf(k, o)' \/ o = Len(objs) + 1
  PROVE  k = stack[p].clang \/ AliasOf(k, o)'
<1>2. o \in 1 .. Len(objs) /\ Len(objs) \in Nat
  BY ActiveObject DEF Typed
<1>3. CASE n \in 1 .. Len(types)
  <2>1. types[n].autoffi = o /\ types[n].clang = k
    BY <1>3
  <2>2. k = stack[p].clang \/ AliasOf(k, o)
    BY <1>3, <2>1 DEF Recorded
  <2> QED
    BY <2>2, AliasKept
<1>4. o # Len(objs) + 1
  BY <1>2
<1> QED
  BY <1>3, <1>4

LEMMA RecordedKept ==
  ASSUME Typed, Recorded, ast' = ast, Len(stack) \in Nat, Len(stack') \in Nat,
         \A k, o : Entry(k, o) => Entry(k, o)',
         \A n \in 1 .. Len(types) : types'[n] = types[n],
         \A n \in 1 .. Len(types') :
           \/ n \in 1 .. Len(types)
           \/ AliasOf(types[n].clang, types[n].autoffi)'
           \/ types'[n].autoffi = Len(objs) + 1,
         \A p \in 1 .. Len(stack') : stack'[p].obj # Null =>
           p \in 1 .. Len(stack) /\ stack'[p].obj = stack[p].obj /\ stack'[p].clang = stack[p].clang
  PROVE  Recorded'
<1>1. ASSUME NEW p \in 1 .. Len(stack'), stack'[p].obj # Null PROVE Entry(stack[p].clang, stack[p].obj)'
  <2>1. PICK k, o : k = stack[p].clang /\ o = stack[p].obj
    OBVIOUS
  <2>2. Entry(k, o)
    BY <1>1, <2>1 DEF Recorded, Active
  <2>3. Entry(k, o)' /\ stack'[p].clang = k /\ stack'[p].obj = o
    BY <1>1, <2>1, <2>2
  <2> QED
    BY <2>3 DEF Entry
<1>2. \A p, q \in 1 .. Len(stack') :
        stack'[p].obj # Null /\ stack'[q].obj # Null
          /\ (stack'[p].clang = stack'[q].clang \/ stack'[p].obj = stack'[q].obj) => p = q
  BY DEF Recorded, Active
<1>3. ASSUME NEW p \in 1 .. Len(stack'), stack'[p].obj # Null,
             NEW n \in 1 .. Len(types'), types'[n].autoffi = stack'[p].obj
      PROVE  types'[n].clang = stack'[p].clang \/ AliasOf(types[n].clang, stack[p].obj)'
  <2>1. p \in 1 .. Len(stack) /\ stack'[p].obj = stack[p].obj /\ stack'[p].clang = stack[p].clang /\ Active(p)
    BY <1>3 DEF Active
  <2>2. PICK k, o : k = types'[n].clang /\ o = types'[n].autoffi
    OBVIOUS
  <2>3. n \in 1 .. Len(types) \/ AliasOf(k, o)' \/ o = Len(objs) + 1
    <3>1. AliasOf(types[n].clang, types[n].autoffi)' => AliasOf(k, o)'
      BY <2>2 DEF AliasOf
    <3> QED
      BY <2>2, <3>1
  <2>4. k = stack[p].clang \/ AliasOf(k, o)'
    BY <1>3, <2>1, <2>2, <2>3, OthersKept
  <2> QED
    BY <1>3, <2>1, <2>2, <2>4 DEF AliasOf
<1> QED
  BY <1>1, <1>2, <1>3 DEF Recorded, Active, Null

LEMMA RecordedNew ==
  ASSUME Typed, Recorded, ast' = ast, Len(stack) \in Nat, Len(stack') \in Nat,
         \A k, o : Entry(k, o) => Entry(k, o)',
         \A n \in 1 .. Len(types) : types'[n] = types[n],
         NEW m \in 1 .. Len(stack), NEW k, ~ Known(types, k), NEW o, Entry(k, o)', o = Len(objs) + 1,
         \A n \in 1 .. Len(types') :
           n \in 1 .. Len(types) \/ (types'[n].clang = k /\ types'[n].autoffi = o),
         stack'[m].clang = k, stack'[m].obj = o,
         \A p \in 1 .. Len(stack') : p # m /\ stack'[p].obj # Null =>
           p \in 1 .. Len(stack) /\ stack'[p].obj = stack[p].obj /\ stack'[p].clang = stack[p].clang
  PROVE  Recorded'
<1>0. Len(objs) \in Nat /\ \A n \in 1 .. Len(types) : types[n].autoffi \in 1 .. Len(objs)
  BY EntryTyped DEF Typed
<1>1. ASSUME NEW p \in 1 .. Len(stack'), p # m, stack'[p].obj # Null
      PROVE  Entry(stack[p].clang, stack[p].obj)' /\ stack'[p].clang # k /\ stack'[p].obj # o
  <2>1. PICK l, x : l = stack[p].clang /\ x = stack[p].obj
    OBVIOUS
  <2>2. Entry(l, x) /\ Active(p) /\ p \in 1 .. Len(stack)
    BY <1>1, <2>1 DEF Recorded, Active
  <2>3. x # o
    BY <1>0, <2>1, <2>2, ActiveObject
  <2>4. Entry(l, x)' /\ stack'[p].clang = l /\ stack'[p].obj = x /\ l # k
    BY <1>1, <2>1, <2>2, EntryIsKnown
  <2> QED
    BY <2>3, <2>4 DEF Entry
<1>2. Entry(stack[m].clang, stack[m].obj)'
  BY DEF Entry
<1>3. \A p, q \in 1 .. Len(stack') :
        stack'[p].obj # Null /\ stack'[q].obj # Null
          /\ (stack'[p].clang = stack'[q].clang \/ stack'[p].obj = stack'[q].obj) => p = q
  <2>1. SUFFICES ASSUME NEW p \in 1 .. Len(stack'), NEW q \in 1 .. Len(stack'), stack'[p].obj # Null,
                        stack'[q].obj # Null,
                        stack'[p].clang = stack'[q].clang \/ stack'[p].obj = stack'[q].obj
                 PROVE  p = q
    OBVIOUS
  <2>2. CASE p = m \/ q = m
    BY <1>1, <2>1, <2>2
  <2>3. CASE p # m /\ q # m
    BY <2>1, <2>3 DEF Recorded, Active
  <2> QED
    BY <2>2, <2>3
<1>4. \A p \in 1 .. Len(stack') : stack'[p].obj # Null => Entry(stack[p].clang, stack[p].obj)'
  BY <1>1, <1>2
<1>5. ASSUME NEW p \in 1 .. Len(stack'), stack'[p].obj # Null,
             NEW n \in 1 .. Len(types'), types'[n].autoffi = stack'[p].obj
      PROVE  types'[n].clang = stack'[p].clang \/ AliasOf(types[n].clang, stack[p].obj)'
  <2>1. CASE p = m
    <3>1. n \notin 1 .. Len(types)
      BY <1>0, <1>5, <2>1
    <3> QED
      BY <2>1, <3>1
  <2>2. CASE p # m
    <3>1. p \in 1 .. Len(stack) /\ stack'[p].obj = stack[p].obj /\ stack'[p].clang = stack[p].clang /\ Active(p)
      BY <1>5, <2>2 DEF Active
    <3>2. PICK l, x : l = types'[n].clang /\ x = types'[n].autoffi
      OBVIOUS
    <3>3. n \in 1 .. Len(types) \/ x = Len(objs) + 1
      BY <3>2
    <3>4. l = stack[p].clang \/ AliasOf(l, x)'
      BY <1>5, <3>1, <3>2, <3>3, OthersKept
    <3> QED
      BY <1>5, <3>1, <3>2, <3>4 DEF AliasOf
  <2> QED
    BY <2>1, <2>2
<1> QED
  BY <1>3, <1>4, <1>5 DEF Recorded, Active, Null

\* An object is added and entered under a new key.
LEMMA IndexedNew ==
  ASSUME Typed, Indexed, OneDangling, NEW k, ~ Known(types, k), ast' = ast, exports' = exports,
         types' = Append(types, TypeRepr(k, Len(objs) + 1)), Len(objs') = Len(objs) + 1
  PROVE  /\ Indexed' /\ OneDangling'
         /\ Len(types) \in Nat /\ Len(types') = Len(types) + 1
         /\ \A n \in 1 .. Len(types) : types'[n] = types[n]
         /\ types'[Len(types) + 1] = TypeRepr(k, Len(objs) + 1)
<1>1. PICK m, x : m = Len(types) /\ x = Len(objs) + 1
  OBVIOUS
<1>2. /\ m \in Nat /\ Len(types') = m + 1 /\ types'[m + 1] = TypeRepr(k, x)
      /\ \A n \in 1 .. m : types'[n] = types[n]
  BY <1>1 DEF Typed
<1>3. types'[m + 1].clang = k /\ types'[m + 1].autoffi = x /\ ~ types'[m + 1].dangling
  BY <1>2 DEF TypeRepr
<1>4. \A n \in 1 .. m : types[n].autoffi \in 1 .. Len(objs) /\ types[n].clang # k
  BY <1>1, EntryTyped DEF Known
<1>5. Len(objs) \in Nat /\ x \notin 1 .. Len(objs)
  BY <1>1 DEF Typed
<1>6. KeysUnique'
  BY <1>1, <1>2, <1>3, <1>4 DEF Indexed, KeysUnique
<1>7. \A l : Plain(l)' <=> Plain(l)
  BY DEF Plain, KindOf
<1>8. OwnFirst'
  <2>1. \A i, j \in 1 .. m + 1 : types'[i].autoffi = types'[j].autoffi /\ Plain(types'[j].clang) => j <= i
    <3>1. SUFFICES ASSUME NEW i \in 1 .. m + 1, NEW j \in 1 .. m + 1,
                          types'[i].autoffi = types'[j].autoffi, Plain(types'[j].clang)
                   PROVE  j <= i
      OBVIOUS
    <3>2. CASE i = m + 1
      BY <1>2, <3>2
    <3>3. CASE i \in 1 .. m
      <4>1. j \in 1 .. m
        BY <1>2, <1>3, <1>4, <1>5, <3>1, <3>3
      <4> QED
        BY <1>1, <1>2, <3>1, <3>3, <4>1 DEF Indexed, OwnFirst
    <3> QED
      BY <1>2, <3>2, <3>3
  <2> QED
    BY <1>2, <2>1 DEF OwnFirst, Plain, KindOf
<1>10. OneDangling'
  BY <1>1, <1>2, <1>3 DEF OneDangling, LastReplaced
<1> QED
  BY <1>1, <1>2, <1>6, <1>8, <1>10 DEF Indexed

\* An object gets a second entry, under the key of sugar, or none.
LEMMA IndexedAlias ==
  ASSUME Typed, Indexed, OneDangling, NEW k, NEW o \in 1 .. Len(objs), Known(types, k) \/ ~ Plain(k),
         ast' = ast, objs' = objs, exports' = exports, types' = push_back(k, o)
  PROVE  /\ Indexed' /\ OneDangling'
         /\ Len(types) \in Nat /\ Len(types') \in Nat /\ Len(types) <= Len(types')
         /\ \A n \in 1 .. Len(types) : types'[n] = types[n]
         /\ Entry(k, o) \/ ~ Known(types, k) => Entry(k, o)'
         /\ \A n \in 1 .. Len(types') : n \in 1 .. Len(types) \/ (types'[n] = TypeRepr(k, o) /\ ~ Known(types, k))
<1>0. PICK m : m = Len(types)
  OBVIOUS
<1>1. m \in Nat
  BY <1>0 DEF Typed
<1>2. CASE Known(types, k)
  <2>1. types' = types
    BY <1>2 DEF push_back
  <2>2. Indexed'
    BY <2>1 DEF Indexed, KeysUnique, OwnFirst, Plain, KindOf
  <2>3. OneDangling'
    BY <2>1 DEF OneDangling, LastReplaced
  <2>4. Entry(k, o) => Entry(k, o)'
    BY <2>1 DEF Entry
  <2>5. \A n \in 1 .. Len(types') : n \in 1 .. Len(types)
    BY <2>1
  <2>6. \A n \in 1 .. Len(types) : types'[n] = types[n]
    BY <2>1
  <2>7. Len(types) \in Nat /\ Len(types') \in Nat /\ Len(types) <= Len(types')
    BY <1>0, <1>1, <2>1
  <2> QED
    <3>1. Entry(k, o) \/ ~ Known(types, k) => Entry(k, o)'
      BY <1>2, <2>4
    <3>2. \A n \in 1 .. Len(types') : n \in 1 .. Len(types) \/ (types'[n] = TypeRepr(k, o) /\ ~ Known(types, k))
      BY <2>5
    <3> QED
      BY <2>2, <2>3, <2>6, <2>7, <3>1, <3>2
<1>3. CASE ~ Known(types, k)
  <2>1. types' = Append(types, TypeRepr(k, o)) /\ ~ Plain(k)
    BY <1>3 DEF push_back
  <2>2. /\ Len(types') = m + 1 /\ types'[m + 1] = TypeRepr(k, o)
        /\ \A n \in 1 .. m : types'[n] = types[n]
    BY <1>0, <1>1, <2>1 DEF Typed
  <2>3. types'[m + 1].clang = k /\ types'[m + 1].autoffi = o /\ ~ types'[m + 1].dangling
    BY <2>2 DEF TypeRepr
  <2>4. \A n \in 1 .. m : types[n].autoffi \in 1 .. Len(objs) /\ types[n].clang # k
    BY <1>0, <1>3, EntryTyped DEF Known
  <2>5. KeysUnique'
    BY <1>0, <1>1, <2>2, <2>3, <2>4 DEF Indexed, KeysUnique
  <2>6. OwnFirst'
    <3>1. \A i, j \in 1 .. m + 1 : types'[i].autoffi = types'[j].autoffi /\ Plain(types'[j].clang) => j <= i
      <4>1. SUFFICES ASSUME NEW i \in 1 .. m + 1, NEW j \in 1 .. m + 1,
                            types'[i].autoffi = types'[j].autoffi, Plain(types'[j].clang)
                     PROVE  j <= i
        OBVIOUS
      <4>2. j # m + 1
        BY <2>1, <2>3, <4>1
      <4>3. j \in 1 .. m
        BY <1>1, <4>2
      <4>4. CASE i = m + 1
        BY <1>1, <4>3, <4>4
      <4>5. CASE i \in 1 .. m
        BY <1>0, <1>1, <2>2, <4>1, <4>3, <4>5 DEF Indexed, OwnFirst
      <4> QED
        BY <1>1, <4>4, <4>5
    <3> QED
      BY <2>2, <3>1 DEF OwnFirst, Plain, KindOf
  <2>8. OneDangling'
    BY <1>0, <1>1, <2>2, <2>3 DEF OneDangling, LastReplaced
  <2>9. Entry(k, o)'
    BY <1>1, <2>2, <2>3 DEF Entry
  <2>10. \A n \in 1 .. Len(types') : n \in 1 .. m \/ types'[n] = TypeRepr(k, o)
    BY <1>1, <2>2
  <2> QED
    BY <1>0, <1>1, <1>3, <2>2, <2>5, <2>6, <2>8, <2>9, <2>10 DEF Indexed
<1> QED
  BY <1>2, <1>3

\* Only members of objects change.
LEMMA IndexedKept ==
  ASSUME Indexed, OneDangling, ast' = ast, types' = types, exports' = exports
  PROVE  Indexed' /\ OneDangling'
<1>1. Indexed'
  BY DEF Indexed, KeysUnique, OwnFirst, Plain, KindOf
<1>2. OneDangling'
  BY DEF OneDangling, LastReplaced
<1> QED
  BY <1>1, <1>2

-------------------------------------------------------------------------------
(* The shapes.                                                               *)

LEMMA AliasIsRight == ASSUME NEW k, NEW o, AliasOf(k, o) PROVE Right(k, o)
BY DEF AliasOf, Right, SameShape

LEMMA QualifiesKept ==
  ASSUME ast' = ast, \A k, o : Entry(k, o) => Entry(k, o)', NEW t, NEW o, Qualifies(t, o), objs'[o] = objs[o]
  PROVE  Qualifies(t, o)'
<1>1. PICK x : x = objs[o].kids[1]
  OBVIOUS
<1>2. Converts(t, x)'
  BY <1>1, ConvertsKept DEF Qualifies
<1>3. objs'[o].kids[1] = x /\ objs'[o].kind = "qualified" /\ Len(objs'[o].kids) = 1
  BY <1>1 DEF Qualifies
<1> QED
  BY <1>2, <1>3 DEF Qualifies, Converts, Stands, EntryOr, Entry, Key

\* A member of an object that still stands for a part.
LEMMA PartStands ==
  ASSUME NEW t, NEW n, NEW o, NEW qt, NEW x, PartsOf(t)'[n] = qt, objs'[o].kids[n] = x, Stands(qt, x)'
  PROVE  Stands(PartsOf(t)[n], objs[o].kids[n])'
BY DEF Stands

\* What is right of an object stays so while the object does.
LEMMA RightKept ==
  ASSUME ast' = ast, \A k, o : Entry(k, o) => Entry(k, o)',
         NEW k, NEW o, Right(k, o), objs'[o] = objs[o]
  PROVE  Right(k, o)'
<1>1. KindOf(k[1])' = KindOf(k[1]) /\ PartsOf(k[1])' = PartsOf(k[1])
  BY DEF KindOf, PartsOf
<1>2. Qualifies(k[1], o) => Qualifies(k[1], o)'
  BY QualifiesKept
<1>3. Converts(k[1], o) => Converts(k[1], o)'
  BY ConvertsKept
<1>4. CASE Blurred(k) /\ KindOf(k[1]) # "other" /\ Qualifies(k[1], o)
  BY <1>1, <1>2, <1>4, BlurredKept DEF Right
<1>5. CASE SameShape(k, o)
  <2>1. CASE k[2]
    BY <1>2, <1>5, <2>1 DEF SameShape, Right
  <2>2. CASE ~ k[2] /\ KindOf(k[1]) = "sugar"
    BY <1>1, <1>3, <1>5, <2>2 DEF SameShape, Right
  <2>3. CASE ~ k[2] /\ KindOf(k[1]) # "sugar"
    <3>1. PICK ks, ps : ks = objs[o].kids /\ ps = PartsOf(k[1])
      OBVIOUS
    <3>2. /\ objs[o].kind = KindOf(k[1]) /\ Len(ks) = Len(ps)
          /\ \A n \in 1 .. Len(ks) : Stands(ps[n], ks[n])
      BY <1>5, <2>3, <3>1 DEF SameShape
    <3>3. objs'[o].kids = ks /\ objs'[o].kind = KindOf(k[1])' /\ PartsOf(k[1])' = ps
      BY <1>1, <3>1, <3>2
    <3>4. \A n \in 1 .. Len(ks) : Stands(PartsOf(k[1])[n], objs[o].kids[n])'
      <4>1. SUFFICES ASSUME NEW n \in 1 .. Len(ks) PROVE Stands(PartsOf(k[1])[n], objs[o].kids[n])'
        OBVIOUS
      <4>2. PICK qt, x : qt = ps[n] /\ x = ks[n]
        OBVIOUS
      <4>3. Stands(qt, x)'
        BY <3>2, <4>2, StandsKept
      <4>4. PartsOf(k[1])'[n] = qt /\ objs'[o].kids[n] = x
        BY <3>3, <4>2
      <4> QED
        BY <4>3, <4>4, PartStands
    <3>5. SameShape(k, o)'
      BY <1>1, <2>3, <3>2, <3>3, <3>4 DEF SameShape
    <3> QED
      BY <3>5 DEF Right
  <2> QED
    BY <2>1, <2>2, <2>3
<1> QED
  BY <1>4, <1>5 DEF Right

LEMMA BuiltKept ==
  ASSUME ast' = ast, \A k, o : Entry(k, o) => Entry(k, o)',
         NEW f, Built(f), objs'[f.obj] = objs[f.obj]
  PROVE  Built(f)'
<1>1. KindOf(f.clang[1])' = KindOf(f.clang[1]) /\ PartsOf(f.clang[1])' = PartsOf(f.clang[1])
  BY DEF KindOf, PartsOf
<1>2. CASE f.fn = "VisitQualType"
  BY <1>2 DEF Built
<1>3. CASE f.fn # "VisitQualType"
  <2>1. PICK ks, ps, g : ks = objs[f.obj].kids /\ ps = PartsOf(f.clang[1]) /\ g = f.got
    OBVIOUS
  <2>2. \A n \in 1 .. g : Stands(ps[n], ks[n])
    BY <1>3, <2>1 DEF Built
  <2>4. objs'[f.obj].kids = ks /\ PartsOf(f.clang[1])' = ps
    BY <1>1, <2>1
  <2>5. \A n \in 1 .. f.got : Stands(PartsOf(f.clang[1])[n], objs[f.obj].kids[n])'
    <3>1. SUFFICES ASSUME NEW n \in 1 .. f.got PROVE Stands(PartsOf(f.clang[1])[n], objs[f.obj].kids[n])'
      OBVIOUS
    <3>2. PICK qt, x : qt = ps[n] /\ x = ks[n]
      OBVIOUS
    <3>3. Stands(qt, x)'
      BY <2>1, <2>2, <3>2, StandsKept
    <3>4. PartsOf(f.clang[1])'[n] = qt /\ objs'[f.obj].kids[n] = x
      BY <2>4, <3>2
    <3> QED
      BY <3>3, <3>4, PartStands
  <2>6. /\ objs'[f.obj].kind = KindOf(f.clang[1])'
        /\ Len(objs'[f.obj].kids) = IF f.got = 0 /\ KindOf(f.clang[1])' \notin Records THEN 1 ELSE f.got
    BY <1>1, <1>3 DEF Built
  <2> QED
    BY <1>3, <2>5, <2>6 DEF Built
<1> QED
  BY <1>2, <1>3

\* The call on top returns: what it was making, if anything, has its shape.
LEMMA ShapedPop ==
  ASSUME Typed, Recorded, Shaped, ast' = ast, stack # << >>, stack' = Popped,
         \A k, o : Entry(k, o) => Entry(k, o)', NEW f, f = Frame,
         \A o \in 1 .. Len(objs) : o # f.obj => objs'[o] = objs[o],
         \A n \in 1 .. Len(types) : types'[n] = types[n],
         \A n \in 1 .. Len(types') : n \in 1 .. Len(types) \/ Right(types[n].clang, types[n].autoffi)',
         f.obj # Null => Right(f.clang, f.obj)'
  PROVE  Shaped'
<1>1. PICK m : m = Len(stack) - 1
  OBVIOUS
<1>2. /\ m \in Nat /\ Len(stack) = m + 1 /\ f = stack[m + 1] /\ Len(stack') = m
      /\ \A p \in 1 .. m : stack'[p] = stack[p]
  BY <1>1, StackParts DEF Typed
<1>3. ASSUME NEW p \in 1 .. m, stack[p].obj # Null PROVE Built(stack[p])'
  <2>1. PICK g : g = stack[p]
    OBVIOUS
  <2>2. p \in 1 .. Len(stack) /\ m + 1 \in 1 .. Len(stack) /\ Active(p) /\ p # m + 1
    BY <1>2, <1>3 DEF Active
  <2>3. g.obj \in 1 .. Len(objs) /\ Built(g)
    BY <2>1, <2>2, ActiveObject DEF Shaped
  <2>4. g.obj # f.obj
    BY <1>2, <1>3, <2>1, <2>2 DEF Recorded, Active
  <2>5. Built(g)'
    BY <2>3, <2>4, BuiltKept
  <2>6. stack'[p] = g
    BY <1>2, <2>1
  <2> QED
    BY <2>5, <2>6 DEF Built
<1>4. ASSUME NEW n \in 1 .. Len(types)
      PROVE  (Right(types[n].clang, types[n].autoffi) \/ InProgress(types[n].clang, types[n].autoffi))'
  <2>1. PICK k, o : k = types[n].clang /\ o = types[n].autoffi
    OBVIOUS
  <2>2. o \in 1 .. Len(objs) /\ types'[n].clang = k /\ types'[n].autoffi = o /\ o # Null
    BY <2>1, EntryTyped DEF Null
  <2>3. Right(k, o)' \/ InProgress(k, o)'
    <3>1. CASE o = f.obj
      <4>1. m + 1 \in 1 .. Len(stack) /\ Active(m + 1) /\ types[n].autoffi = stack[m + 1].obj
        BY <1>2, <2>1, <2>2, <3>1 DEF Active
      <4>2. types[n].clang = stack[m + 1].clang \/ AliasOf(types[n].clang, stack[m + 1].obj)
        BY <4>1 DEF Recorded
      <4>3. k = f.clang \/ AliasOf(k, o)
        BY <1>2, <2>1, <3>1, <4>2
      <4>4. CASE k = f.clang
        BY <2>2, <3>1, <4>4
      <4>5. CASE AliasOf(k, o)
        <5>1. AliasOf(k, o)'
          BY <4>5, AliasKept
        <5> QED
          BY <5>1 DEF AliasOf, Right, SameShape
      <4> QED
        BY <4>3, <4>4, <4>5
    <3>2. CASE o # f.obj /\ Right(k, o)
      BY <2>2, <3>2, RightKept
    <3>3. CASE o # f.obj /\ InProgress(k, o)
      <4>1. PICK p \in 1 .. m + 1 : stack[p].obj = o /\ stack[p].clang = k
        BY <1>2, <3>3 DEF InProgress
      <4>2. p \in 1 .. m
        BY <1>2, <3>3, <4>1
      <4>3. stack'[p].obj = o /\ stack'[p].clang = k
        BY <1>2, <4>1, <4>2
      <4> QED
        BY <1>2, <4>2, <4>3 DEF InProgress
    <3>4. Right(k, o) \/ InProgress(k, o)
      BY <2>1 DEF Shaped
    <3> QED
      BY <3>1, <3>2, <3>3, <3>4
  <2>4. CASE Right(k, o)'
    BY <2>2, <2>4 DEF Right, SameShape
  <2>5. CASE InProgress(k, o)'
    BY <2>2, <2>5 DEF InProgress
  <2> QED
    BY <2>3, <2>4, <2>5
<1>5. \A p \in 1 .. Len(stack') : stack'[p].obj # Null => Built(stack[p])'
  BY <1>2, <1>3
<1>6. \A n \in 1 .. Len(types') :
        (Right(types[n].clang, types[n].autoffi) \/ InProgress(types[n].clang, types[n].autoffi))'
  BY <1>4
<1> QED
  BY <1>5, <1>6 DEF Shaped, Active, Null

\* The call on top goes on, and may have made another one.
LEMMA ShapedOn ==
  ASSUME Typed, Recorded, Shaped, ast' = ast, stack # << >>, NEW m, m = Len(stack),
         \A k, o : Entry(k, o) => Entry(k, o)',
         NEW f, stack'[m] = f, f.clang = Frame.clang,
         f.obj = Frame.obj \/ (Frame.obj = Null /\ f.obj = Len(objs) + 1),
         f.obj # Null => Built(f)',
         Len(stack') \in Nat, m <= Len(stack'),
         \A p \in 1 .. Len(stack') : p < m => stack'[p] = stack[p],
         \A p \in 1 .. Len(stack') : m < p => stack'[p].obj = Null,
         \A o \in 1 .. Len(objs) : o # f.obj => objs'[o] = objs[o],
         \A n \in 1 .. Len(types) : types'[n] = types[n],
         \A n \in 1 .. Len(types') :
           n \in 1 .. Len(types) \/ (types'[n].clang = f.clang /\ types'[n].autoffi = f.obj)
  PROVE  Shaped'
<1>1. /\ m \in Nat /\ m > 0 /\ Frame = stack[m] /\ Len(objs) \in Nat
      /\ m \in 1 .. Len(stack') /\ m \in 1 .. Len(stack)
  BY StackParts DEF Typed
<1>2. ASSUME NEW p \in 1 .. Len(stack'), stack'[p].obj # Null PROVE Built(stack[p])'
  <2>1. CASE p = m
    BY <1>1, <1>2, <2>1 DEF Built
  <2>2. CASE p < m
    <3>1. PICK g : g = stack[p]
      OBVIOUS
    <3>2. p \in 1 .. Len(stack) /\ stack'[p] = g
      BY <1>1, <2>2, <3>1
    <3>3. Active(p)
      BY <1>2, <3>1, <3>2 DEF Active
    <3>4. g.obj \in 1 .. Len(objs) /\ Built(g)
      BY <3>1, <3>2, <3>3, ActiveObject DEF Shaped
    <3>5. g.obj # f.obj
      <4>1. CASE f.obj = Len(objs) + 1
        BY <1>1, <3>4, <4>1
      <4>2. CASE f.obj = Frame.obj
        <5>1. SUFFICES ASSUME g.obj = f.obj PROVE FALSE
          OBVIOUS
        <5>2. Active(m) /\ stack[m].obj = stack[p].obj
          BY <1>1, <3>1, <3>3, <4>2, <5>1 DEF Active
        <5>3. m = p
          BY <1>1, <3>2, <3>3, <5>2 DEF Recorded
        <5> QED
          BY <1>1, <2>2, <5>3
      <4> QED
        BY <4>1, <4>2
    <3>6. Built(g)'
      BY <3>4, <3>5, BuiltKept
    <3> QED
      BY <3>2, <3>6 DEF Built
  <2>3. CASE m < p
    BY <1>2, <2>3
  <2> QED
    BY <1>1, <2>1, <2>2, <2>3
<1>3. ASSUME NEW n \in 1 .. Len(types)
      PROVE  (Right(types[n].clang, types[n].autoffi) \/ InProgress(types[n].clang, types[n].autoffi))'
  <2>1. PICK k, o : k = types[n].clang /\ o = types[n].autoffi
    OBVIOUS
  <2>2. o \in 1 .. Len(objs) /\ types'[n].clang = k /\ types'[n].autoffi = o /\ o # Null
    BY <2>1, EntryTyped DEF Null
  <2>3. Right(k, o)' \/ InProgress(k, o)'
    <3>1. CASE o = f.obj
      <4>1. f.obj = Frame.obj
        BY <1>1, <2>2, <3>1
      <4>2. Active(m) /\ types[n].autoffi = stack[m].obj
        BY <1>1, <2>1, <2>2, <3>1, <4>1 DEF Active
      <4>3. types[n].clang = stack[m].clang \/ AliasOf(types[n].clang, stack[m].obj)
        BY <1>1, <4>2 DEF Recorded
      <4>4. k = f.clang \/ AliasOf(k, o)
        BY <1>1, <2>1, <3>1, <4>1, <4>3
      <4>5. CASE k = f.clang
        BY <1>1, <3>1, <4>5 DEF InProgress
      <4>6. CASE AliasOf(k, o)
        <5>1. AliasOf(k, o)'
          BY <4>6, AliasKept
        <5> QED
          BY <5>1 DEF AliasOf, Right, SameShape
      <4> QED
        BY <4>4, <4>5, <4>6
    <3>2. CASE o # f.obj /\ Right(k, o)
      BY <2>2, <3>2, RightKept
    <3>3. CASE o # f.obj /\ InProgress(k, o)
      <4>1. PICK p \in 1 .. m : stack[p].obj = o /\ stack[p].clang = k
        BY <1>1, <3>3 DEF InProgress
      <4>2. p \in 1 .. Len(stack') /\ stack'[p].obj = o /\ stack'[p].clang = k
        <5>1. CASE p = m
          BY <1>1, <2>2, <3>3, <4>1, <5>1
        <5>2. CASE p # m
          BY <1>1, <4>1, <5>2
        <5> QED
          BY <5>1, <5>2
      <4> QED
        BY <4>2 DEF InProgress
    <3>4. Right(k, o) \/ InProgress(k, o)
      BY <2>1 DEF Shaped
    <3> QED
      BY <3>1, <3>2, <3>3, <3>4
  <2>4. CASE Right(k, o)'
    BY <2>2, <2>4 DEF Right, SameShape
  <2>5. CASE InProgress(k, o)'
    BY <2>2, <2>5 DEF InProgress
  <2> QED
    BY <2>3, <2>4, <2>5
<1>4. ASSUME NEW n \in 1 .. Len(types'), n \notin 1 .. Len(types)
      PROVE  InProgress(types[n].clang, types[n].autoffi)'
  BY <1>1, <1>4 DEF InProgress
<1>5. \A p \in 1 .. Len(stack') : stack'[p].obj # Null => Built(stack[p])'
  BY <1>2
<1>6. \A n \in 1 .. Len(types') :
        (Right(types[n].clang, types[n].autoffi) \/ InProgress(types[n].clang, types[n].autoffi))'
  BY <1>3, <1>4
<1> QED
  BY <1>5, <1>6 DEF Shaped, Active, Null

\* The converter leaves the collector alone.
LEMMA CollectorKept ==
  ASSUME Visited, Exported, stack # << >>, UNCHANGED <<ast, decls, cur, latest, exports>>,
         \A t, o : Converts(t, o) => Converts(t, o)', \A d, o : DeclaredAs(d, o) => DeclaredAs(d, o)'
  PROVE  Visited' /\ Exported'
<1>1. Visited'
  <2>1. cur # {}
    BY DEF Visited
  <2>2. ASSUME latest # Null, NEW d \in cur PROVE Redeclares(d) /\ Converts(d.type[1], latest)'
    <3>1. PICK x : x = latest
      OBVIOUS
    <3>2. Redeclares(d) /\ Converts(d.type[1], x)'
      BY <2>2, <3>1 DEF Visited
    <3> QED
      BY <3>1, <3>2 DEF Converts
  <2> QED
    BY <2>1, <2>2 DEF Visited, Null
<1>2. Exported'
  <2>1. ASSUME NEW n \in 1 .. Len(exports) PROVE DeclaredAs(exports[n].decl, exports[n].type)'
    <3>1. PICK d, o : d = exports[n].decl /\ o = exports[n].type
      OBVIOUS
    <3>2. DeclaredAs(d, o)'
      BY <3>1 DEF Exported
    <3> QED
      BY <3>1, <3>2 DEF DeclaredAs
  <2> QED
    BY <2>1 DEF Exported
<1> QED
  BY <1>1, <1>2
-------------------------------------------------------------------------------
(* The steps of the converter.                                               *)

LEMMA Meanings ==
  ASSUME Typed, ast' = ast, Len(types') \in Nat, Len(types) <= Len(types'),
         \A n \in 1 .. Len(types) : types'[n] = types[n]
  PROVE  /\ \A k, o : Entry(k, o) => Entry(k, o)'
         /\ \A qt, o : Stands(qt, o) => Stands(qt, o)'
         /\ \A t, o : Converts(t, o) => Converts(t, o)'
         /\ \A c, o : Means(c, o) => Means(c, o)'
         /\ \A d, o : DeclaredAs(d, o) => DeclaredAs(d, o)'
<1>1. Len(types) \in Nat
  BY DEF Typed
<1> QED
  BY <1>1, MeaningKept

LEMMA StepPush ==
  ASSUME CollectorInv, Typed', stack # << >>, ret = Null,
         UNCHANGED <<ast, types, objs, ret, decls, cur, latest, exports>>, Waiting(Frame),
         NEW c, SameCall(c, Asked(Frame)), c.obj = Null, c.got = 0, stack' = Append(stack, c)
  PROVE  CollectorInv'
<1>1. PICK m, f : m = Len(stack) /\ f = Frame
  OBVIOUS
<1>2. /\ m \in Nat /\ m > 0 /\ Frame = stack[m] /\ Len(stack') = m + 1 /\ stack'[m + 1] = c
      /\ \A p \in 1 .. m : stack'[p] = stack[p]
  BY <1>1, StackParts DEF CollectorInv, Typed
<1>3. Typed /\ Chained /\ Recorded /\ Indexed /\ Shaped /\ Visited /\ Exported /\ OneDangling /\ Len(types) \in Nat
  BY DEF CollectorInv, Typed
<1>4. /\ \A k, o : Entry(k, o) => Entry(k, o)'
      /\ \A t, o : Converts(t, o) => Converts(t, o)'
      /\ \A d, o : DeclaredAs(d, o) => DeclaredAs(d, o)'
  BY <1>3, Meanings
<1>5. Chained'
  <2>1. SameCall(f, Frame) /\ f.got = Frame.got /\ Waiting(f) /\ SameCall(c, Asked(f)) /\ ret' = Null
    BY <1>1 DEF SameCall
  <2>2. stack'[Len(stack)] = f /\ stack'[Len(stack) + 1] = c /\ Len(stack') = Len(stack) + 1
    BY <1>1, <1>2
  <2>3. \A p \in 1 .. Len(stack) - 1 : stack'[p] = stack[p]
    BY <1>1, <1>2
  <2>4. f \in FrameSet(Len(objs))
    BY <1>1, <1>3, FrameTyped
  <2>5. WellCalled(Asked(f))
    BY <1>3, <2>1, <2>4, AskedWell
  <2> QED
    BY <1>3, <2>1, <2>2, <2>3, <2>5, ChainedPush
<1>6. Recorded'
  <2>1. \A p \in 1 .. Len(stack') : stack'[p].obj # Null =>
          p \in 1 .. Len(stack) /\ stack'[p].obj = stack[p].obj /\ stack'[p].clang = stack[p].clang
    BY <1>1, <1>2
  <2> QED
    BY <1>1, <1>2, <1>3, <1>4, <2>1, RecordedKept
<1>7. Indexed' /\ OneDangling'
  BY <1>3, IndexedKept
<1>8. Shaped'
  <2>1. f.obj # Null => Built(f)'
    <3>1. ASSUME f.obj # Null PROVE Built(f)
      BY <1>1, <1>2, <1>3, <3>1 DEF Shaped, Active
    <3> QED
      BY <1>4, <3>1, BuiltKept
  <2>2. /\ Len(stack') \in Nat /\ m <= Len(stack')
        /\ \A p \in 1 .. Len(stack') : p < m => stack'[p] = stack[p]
        /\ \A p \in 1 .. Len(stack') : m < p => stack'[p].obj = Null
    BY <1>2
  <2>3. stack'[m] = f /\ f.clang = Frame.clang /\ f.obj = Frame.obj
    BY <1>1, <1>2
  <2> QED
    BY <1>1, <1>3, <1>4, <2>1, <2>2, <2>3, ShapedOn
<1>9. Visited' /\ Exported'
  BY <1>3, <1>4, CollectorKept
<1> QED
  BY <1>5, <1>6, <1>7, <1>8, <1>9 DEF CollectorInv

LEMMA StepReturn ==
  ASSUME CollectorInv, Typed', Indexed', OneDangling', stack # << >>, stack' = Popped,
         UNCHANGED <<ast, decls, cur, latest, exports>>,
         Len(types') \in Nat, Len(types) <= Len(types'), \A n \in 1 .. Len(types) : types'[n] = types[n],
         NEW f, f = Frame, NEW o, ret' = o, o # Null, Means(f, o)',
         \A x \in 1 .. Len(objs) : x # f.obj => objs'[x] = objs[x],
         \A n \in 1 .. Len(types') :
           \/ n \in 1 .. Len(types)
           \/ /\ Right(types[n].clang, types[n].autoffi)'
              /\ AliasOf(types[n].clang, types[n].autoffi)' \/ types'[n].autoffi = Len(objs) + 1,
         f.obj # Null => Right(f.clang, f.obj)'
  PROVE  CollectorInv'
<1>1. Typed /\ Chained /\ Recorded /\ Indexed /\ Shaped /\ Visited /\ Exported /\ OneDangling
  BY DEF CollectorInv
<1>2. /\ \A k, x : Entry(k, x) => Entry(k, x)'
      /\ \A t, x : Converts(t, x) => Converts(t, x)'
      /\ \A d, x : DeclaredAs(d, x) => DeclaredAs(d, x)'
  BY <1>1, Meanings
<1>3. Chained'
  BY <1>1, ChainedReturn
<1>4. Recorded'
  <2>1. /\ Len(stack) \in Nat /\ Len(stack') = Len(stack) - 1 /\ Len(stack) > 0
        /\ \A p \in 1 .. Len(stack) - 1 : stack'[p] = stack[p]
    BY <1>1, StackParts DEF Typed
  <2>2. \A p \in 1 .. Len(stack') : stack'[p].obj # Null =>
          p \in 1 .. Len(stack) /\ stack'[p].obj = stack[p].obj /\ stack'[p].clang = stack[p].clang
    BY <2>1
  <2> QED
    BY <1>1, <1>2, <2>1, <2>2, RecordedKept
<1>5. Shaped'
  BY <1>1, <1>2, ShapedPop
<1>6. Visited' /\ Exported'
  BY <1>1, <1>2, CollectorKept
<1> QED
  BY <1>3, <1>4, <1>5, <1>6 DEF CollectorInv

LEMMA StepCalls ==
  ASSUME CollectorInv, EnterUnqualified \/ VisitSugar \/ VisitPart, UNCHANGED <<decls, cur, latest, exports>>
  PROVE  CollectorInv'
<1>1. Typed /\ Chained
  BY DEF CollectorInv
<1>2. Typed'
  BY <1>1, TypedCalls
<1>3. /\ stack # << >> /\ ret = Null /\ UNCHANGED <<ast, types, objs, ret>>
      /\ Type = Frame.clang[1] /\ Frame = stack[Len(stack)] /\ Ready(Frame)
  BY <1>1, StackParts DEF EnterUnqualified, VisitSugar, VisitPart, Entered, Looping, Type, Chained, Typed
<1>4. CASE EnterUnqualified
  <2>0. Frame.fn = "VisitQualType" /\ Frame.obj = Null /\ ~ Frame.qualified /\ stack' = Append(stack, Visit(Type))
    BY <1>4 DEF EnterUnqualified, Entered
  <2>1. Waiting(Frame) /\ SameCall(Visit(Type), Asked(Frame)) /\ stack' = Append(stack, Visit(Type))
    BY <1>3, <2>0 DEF Waiting, SameCall, Asked
  <2>2. Visit(Type).obj = Null /\ Visit(Type).got = 0
    BY DEF Visit
  <2> QED
    BY <1>2, <1>3, <2>1, <2>2, StepPush
<1>5. CASE VisitSugar
  <2>1. PICK c : c = VisitQualType(PartsOf(Type)[1])
    OBVIOUS
  <2>2. Waiting(Frame) /\ SameCall(c, Asked(Frame)) /\ stack' = Append(stack, c)
    BY <1>3, <1>5, <2>1 DEF VisitSugar, Entered, Ready, Waiting, SameCall, Asked
  <2>3. c.obj = Null /\ c.got = 0
    BY <2>1 DEF VisitQualType
  <2> QED
    BY <1>2, <1>3, <2>2, <2>3, StepPush
<1>6. CASE VisitPart
  <2>1. PICK c : c = VisitQualType(PartsOf(Type)[Frame.got + 1])
    OBVIOUS
  <2>2. Waiting(Frame) /\ SameCall(c, Asked(Frame)) /\ stack' = Append(stack, c)
    BY <1>3, <1>6, <2>1 DEF VisitPart, Looping, Ready, Waiting, SameCall, Asked
  <2>3. c.obj = Null /\ c.got = 0
    BY <2>1 DEF VisitQualType
  <2> QED
    BY <1>2, <1>3, <2>2, <2>3, StepPush
<1> QED
  BY <1>4, <1>5, <1>6

\* What is known of the call on top.
LEMMA OnTop ==
  ASSUME CollectorInv, stack # << >>
  PROVE  /\ Typed /\ Chained /\ Recorded /\ Indexed /\ Shaped /\ OneDangling /\ Len(types) \in Nat /\ Len(objs) \in Nat
         /\ Frame = stack[Len(stack)] /\ Len(stack) \in 1 .. Len(stack)
         /\ Type = Frame.clang[1] /\ Type \in ClangTypes /\ Frame.clang \in Keys
         /\ Frame \in FrameSet(Len(objs)) /\ WellCalled(Frame)
         /\ Frame.fn = "Visit" => Frame.clang = <<Type, FALSE>>
         /\ ~ Frame.qualified => Frame.clang = <<Type, FALSE>>
         /\ Frame.obj \in 0 .. Len(objs) /\ Frame.got \in Nat
         /\ ret # Null => Waiting(Frame) /\ Means(Asked(Frame), ret) /\ ret \in 1 .. Len(objs)
         /\ ret = Null => Ready(Frame)
         /\ Frame.obj # Null => Built(Frame) /\ Entry(Frame.clang, Frame.obj)
<1>1. /\ Typed /\ Chained /\ Recorded /\ Indexed /\ Shaped /\ OneDangling /\ Len(types) \in Nat /\ Len(objs) \in Nat
      /\ ret \in 0 .. Len(objs)
  BY DEF CollectorInv, Typed
<1>2. PICK m : m = Len(stack)
  OBVIOUS
<1>3. Frame = stack[m] /\ m \in 1 .. m /\ m \in Nat /\ m # 0
  BY <1>1, <1>2, StackParts DEF Typed
<1>4. /\ Type = Frame.clang[1] /\ Type \in ClangTypes /\ Frame.clang \in Keys
      /\ Frame.clang = <<Type, Frame.clang[2]>> /\ Frame.clang[2] \in BOOLEAN
      /\ Frame \in FrameSet(Len(objs)) /\ Frame.obj \in 0 .. Len(objs) /\ Frame.got \in Nat
  BY <1>1, FrameTyped DEF Type
<1>5. WellCalled(Frame)
  BY <1>1, <1>2, <1>3 DEF Chained
<1>6. ~ Frame.clang[2] => Frame.clang = <<Type, FALSE>>
  BY <1>4
<1>7. Frame.fn = "Visit" \/ ~ Frame.qualified => ~ Frame.clang[2]
  BY <1>5 DEF WellCalled
<1>8. ret # Null => Waiting(Frame) /\ Means(Asked(Frame), ret) /\ ret \in 1 .. Len(objs)
  BY <1>1, <1>2, <1>3 DEF Chained, AskedAt, Null
<1>9. ret = Null => Ready(Frame)
  BY <1>1, <1>2, <1>3 DEF Chained
<1>10. Frame.obj # Null => Built(Frame) /\ Entry(Frame.clang, Frame.obj)
  BY <1>1, <1>2, <1>3 DEF Recorded, Shaped, Active
<1> QED
  BY <1>1, <1>2, <1>3, <1>4, <1>5, <1>6, <1>7, <1>8, <1>9, <1>10

LEMMA StepFound ==
  ASSUME CollectorInv, Found, UNCHANGED <<decls, cur, latest, exports>> PROVE CollectorInv'
<1>1. stack # << >>
  BY DEF Found
<1>2. Typed /\ Indexed /\ OneDangling /\ Typed' /\ Len(types) \in Nat
  BY <1>1, OnTop, TypedFound
<1>3. PICK f, o : f = Frame /\ o = find(Frame.clang)
  OBVIOUS
<1>4. Entry(f.clang, o) /\ o \in 1 .. Len(objs) /\ f.obj = Null
  BY <1>2, <1>3, FindIsEntry DEF Found
<1>5. stack' = Popped /\ ret' = o /\ UNCHANGED <<ast, types, objs>>
  BY <1>3 DEF Found, Return
<1>6. Indexed' /\ OneDangling'
  BY <1>2, <1>5, IndexedKept
<1>7. Means(f, o)
  <2>1. CASE f.fn = "Visit"
    <3>1. KindOf(Type) \notin {"sugar", "other"} /\ f.clang = <<Type, FALSE>> /\ Type = f.clang[1]
      BY <1>1, <1>3, <2>1, OnTop DEF Found, Memoised, Leaves, Composites, Records
    <3> QED
      BY <1>4, <2>1, <3>1 DEF Means, Converts
  <2>2. CASE f.fn # "Visit" /\ f.qualified
    BY <1>4, <2>2 DEF Means
  <2>3. CASE f.fn # "Visit" /\ ~ f.qualified
    <3>1. PICK t : t = f.clang[1]
      OBVIOUS
    <3>2. f.clang = <<t, FALSE>>
      BY <1>1, <1>3, <2>3, <3>1, OnTop
    <3>3. Entry(Key(<<t, "none">>), o)
      BY <1>4, <3>2 DEF Key
    <3>4. Stands(<<t, "none">>, o)
      BY <3>3, EntryStands
    <3> QED
      BY <2>3, <3>1, <3>4 DEF Means
  <2> QED
    BY <2>1, <2>2, <2>3
<1>8. Means(f, o)'
  BY <1>2, <1>5, <1>7, Meanings
<1>9. /\ \A x \in 1 .. Len(objs) : x # f.obj => objs'[x] = objs[x]
      /\ \A n \in 1 .. Len(types) : types'[n] = types[n]
      /\ \A n \in 1 .. Len(types') : n \in 1 .. Len(types)
      /\ Len(types') \in Nat /\ Len(types) <= Len(types')
      /\ o # Null /\ ~ (f.obj # Null)
  BY <1>2, <1>4, <1>5 DEF Null
<1> QED
  BY <1>1, <1>2, <1>3, <1>5, <1>6, <1>8, <1>9, StepReturn

LEMMA StepResumeUnqualified ==
  ASSUME CollectorInv, ResumeUnqualified, UNCHANGED <<decls, cur, latest, exports>> PROVE CollectorInv'
<1>1. stack # << >> /\ ret # Null /\ Frame.fn = "VisitQualType" /\ ~ Frame.qualified
  BY DEF ResumeUnqualified, Resumed
<1>2. Typed /\ Indexed /\ OneDangling /\ Typed' /\ Len(types) \in Nat
  BY <1>1, OnTop, TypedResumeUnqualified
<1>3. PICK f, k, t, o : f = Frame /\ k = Frame.clang /\ t = Type /\ o = ret
  OBVIOUS
<1>4. /\ k = <<t, FALSE>> /\ f.obj = Null /\ o \in 1 .. Len(objs) /\ Converts(t, o) /\ k = f.clang
      /\ t \in ClangTypes
  <2>1. Waiting(f) /\ Means(Visit(t), o) /\ k = <<t, FALSE>> /\ o \in 1 .. Len(objs) /\ k = f.clang /\ t \in ClangTypes
    BY <1>1, <1>3, OnTop DEF Asked
  <2> QED
    BY <1>1, <1>3, <2>1 DEF Waiting, Means, Visit
<1>5. stack' = Popped /\ ret' = o /\ UNCHANGED <<ast, objs>> /\ types' = push_back(k, o)
  BY <1>3 DEF ResumeUnqualified, Return
<1>6. KindOf(t) # "sugar" => Entry(k, o)
  BY <1>4 DEF Converts
<1>7. Known(types, k) \/ KindOf(t) = "sugar"
  BY <1>6, EntryIsKnown
<1>8. Known(types, k) \/ ~ Plain(k)
  BY <1>4, <1>7 DEF Plain
<1>9. /\ Indexed' /\ OneDangling'
      /\ Len(types') \in Nat /\ Len(types) <= Len(types')
      /\ \A n \in 1 .. Len(types) : types'[n] = types[n]
      /\ \A n \in 1 .. Len(types') : n \in 1 .. Len(types) \/ (types'[n] = TypeRepr(k, o) /\ ~ Known(types, k))
  BY <1>2, <1>4, <1>5, <1>8, IndexedAlias
<1>10. Converts(t, o)' /\ Stands(<<t, "none">>, o)'
  BY <1>2, <1>4, <1>5, <1>9, ConvertsStands, Meanings
<1>11. Means(f, o)'
  BY <1>1, <1>3, <1>4, <1>10 DEF Means
<1>12. ASSUME NEW n \in 1 .. Len(types'), n \notin 1 .. Len(types)
       PROVE  /\ Right(types[n].clang, types[n].autoffi)'
              /\ AliasOf(types[n].clang, types[n].autoffi)'
  <2>1. types'[n].clang = k /\ types'[n].autoffi = o /\ KindOf(t) = "sugar"
    BY <1>7, <1>9, <1>12 DEF TypeRepr
  <2>2. AliasOf(k, o)'
    BY <1>4, <1>5, <1>10, <2>1 DEF AliasOf, KindOf
  <2>3. AliasOf(types[n].clang, types[n].autoffi)'
    BY <2>1, <2>2 DEF AliasOf
  <2> QED
    BY <2>3 DEF AliasOf, Right, SameShape
<1>13. /\ \A x \in 1 .. Len(objs) : x # f.obj => objs'[x] = objs[x]
       /\ o # Null /\ ~ (f.obj # Null)
  BY <1>2, <1>4, <1>5 DEF Null
<1>14. \A n \in 1 .. Len(types') :
         \/ n \in 1 .. Len(types)
         \/ /\ Right(types[n].clang, types[n].autoffi)'
            /\ AliasOf(types[n].clang, types[n].autoffi)' \/ types'[n].autoffi = Len(objs) + 1
  BY <1>12
<1> QED
  BY <1>1, <1>2, <1>3, <1>5, <1>9, <1>11, <1>13, <1>14, StepReturn

LEMMA StepResumeSugar ==
  ASSUME CollectorInv, ResumeSugar, UNCHANGED <<decls, cur, latest, exports>> PROVE CollectorInv'
<1>1. stack # << >> /\ ret # Null /\ Frame.fn = "Visit" /\ KindOf(Type) = "sugar"
  BY DEF ResumeSugar, Resumed
<1>2. Typed /\ Indexed /\ OneDangling /\ Typed' /\ Len(types) \in Nat
  BY <1>1, OnTop, TypedResumeSugar
<1>3. PICK f, t, o : f = Frame /\ t = Type /\ o = ret
  OBVIOUS
<1>4. f.obj = Null /\ o \in 1 .. Len(objs) /\ Converts(t, o) /\ t = f.clang[1]
  <2>1. /\ Waiting(f) /\ Means(Asked(f), o) /\ o \in 1 .. Len(objs) /\ t = f.clang[1]
        /\ f \in FrameSet(Len(objs))
    BY <1>1, <1>3, OnTop
  <2>2. f.obj = Null /\ f.got = 0
    BY <1>1, <1>3, <2>1 DEF Waiting, Composites, Records
  <2>3. PICK qt : qt = PartsOf(t)[1]
    OBVIOUS
  <2>4. PartsOf(t)[f.got + 1] \in QualTypes
    BY <1>1, <1>2, <1>3, <2>1, PartAsked
  <2>5. qt \in QualTypes /\ Asked(f) = VisitQualType(qt)
    BY <1>1, <1>3, <2>1, <2>2, <2>3, <2>4 DEF Asked
  <2>6. Stands(qt, o)
    BY <2>1, <2>5, MeansStands
  <2> QED
    BY <1>1, <1>3, <2>1, <2>2, <2>3, <2>6 DEF Converts
<1>5. stack' = Popped /\ ret' = o /\ UNCHANGED <<ast, types, objs>>
  BY <1>3 DEF ResumeSugar, Return
<1>6. Indexed' /\ OneDangling'
  BY <1>2, <1>5, IndexedKept
<1>7. Means(f, o)'
  <2>1. Means(f, o)
    BY <1>1, <1>3, <1>4 DEF Means
  <2> QED
    BY <1>2, <1>5, <2>1, Meanings
<1>8. /\ \A x \in 1 .. Len(objs) : x # f.obj => objs'[x] = objs[x]
      /\ \A n \in 1 .. Len(types) : types'[n] = types[n]
      /\ \A n \in 1 .. Len(types') : n \in 1 .. Len(types)
      /\ Len(types') \in Nat /\ Len(types) <= Len(types')
      /\ o # Null /\ ~ (f.obj # Null)
  BY <1>2, <1>4, <1>5 DEF Null
<1> QED
  BY <1>1, <1>2, <1>3, <1>5, <1>6, <1>7, <1>8, StepReturn

LEMMA StepReturnComposite ==
  ASSUME CollectorInv, ReturnComposite, UNCHANGED <<decls, cur, latest, exports>> PROVE CollectorInv'
<1>1. /\ stack # << >> /\ ret = Null /\ Frame.fn = "Visit" /\ Frame.obj # Null
      /\ Frame.got = Len(PartsOf(Type))
  BY DEF ReturnComposite, Looping
<1>2. Typed /\ Indexed /\ OneDangling /\ Typed' /\ Len(types) \in Nat
  BY <1>1, OnTop, TypedReturnComposite
<1>3. PICK f, t, o : f = Frame /\ t = Type /\ o = Frame.obj
  OBVIOUS
<1>4. /\ KindOf(t) \in Composites /\ Built(f) /\ Entry(f.clang, o) /\ f.clang = <<t, FALSE>>
      /\ o = f.obj /\ f.fn = "Visit" /\ f.got = Len(PartsOf(t)) /\ t \in ClangTypes
  <2>1. Ready(f) /\ Built(f) /\ Entry(f.clang, o) /\ f.clang = <<t, FALSE>> /\ t \in ClangTypes
    BY <1>1, <1>3, OnTop
  <2> QED
    BY <1>1, <1>3, <2>1 DEF Ready
<1>5. stack' = Popped /\ ret' = o /\ UNCHANGED <<ast, types, objs>>
  BY <1>3 DEF ReturnComposite, Return
<1>6. Indexed' /\ OneDangling'
  BY <1>2, <1>5, IndexedKept
<1>7. KindOf(t) \notin {"sugar", "other"}
  BY <1>4 DEF Composites, Records
<1>8. Means(f, o)'
  <2>1. Means(f, o)
    BY <1>4, <1>7 DEF Means, Converts
  <2> QED
    BY <1>2, <1>5, <2>1, Meanings
<1>9. Right(f.clang, o)'
  <2>1. Len(PartsOf(t)) \in Nat /\ (KindOf(t) \notin Records => Len(PartsOf(t)) # 0)
    BY <1>2, <1>4, PartsTyped DEF Composites, Records
  <2>2. Len(objs[o].kids) = Len(PartsOf(t)) /\ objs[o].kind = KindOf(t)
    BY <1>4, <2>1 DEF Built
  <2>3. \A n \in 1 .. Len(objs[o].kids) : Stands(PartsOf(t)[n], objs[o].kids[n])
    BY <1>4, <2>2 DEF Built
  <2>4. Right(f.clang, o)
    BY <1>4, <1>7, <2>2, <2>3 DEF SameShape, Right
  <2>5. \A k, x : Entry(k, x) => Entry(k, x)'
    BY <1>2, <1>5, Meanings
  <2> QED
    BY <1>5, <2>4, <2>5, RightKept
<1>10. o # Null /\ Right(f.clang, f.obj)'
  BY <1>1, <1>3, <1>4, <1>9
<1>11. /\ \A x \in 1 .. Len(objs) : x # f.obj => objs'[x] = objs[x]
       /\ \A n \in 1 .. Len(types) : types'[n] = types[n]
       /\ \A n \in 1 .. Len(types') : n \in 1 .. Len(types)
       /\ Len(types') \in Nat /\ Len(types) <= Len(types')
  BY <1>2, <1>5
<1> QED
  BY <1>1, <1>2, <1>3, <1>5, <1>6, <1>8, <1>10, <1>11, StepReturn

LEMMA StepResumeQualified ==
  ASSUME CollectorInv, ResumeQualified, UNCHANGED <<decls, cur, latest, exports>> PROVE CollectorInv'
<1>1. stack # << >> /\ ret # Null /\ Frame.fn = "VisitQualType" /\ Frame.qualified
  BY DEF ResumeQualified, Resumed
<1>2. Typed /\ Indexed /\ OneDangling /\ Typed' /\ Len(types) \in Nat
  BY <1>1, OnTop, TypedResumeQualified
<1>3. PICK f, t, o, r : f = Frame /\ t = Type /\ o = Frame.obj /\ r = ret
  OBVIOUS
<1>4. /\ o \in 1 .. Len(objs) /\ Entry(f.clang, o) /\ objs[o].kind = "qualified" /\ Converts(t, r)
      /\ r \in 1 .. Len(objs) /\ o = f.obj /\ f.clang[1] = t /\ WellCalled(f) /\ KindOf(t) # "other"
  <2>1. /\ Waiting(f) /\ Means(Asked(f), r) /\ f.clang[1] = t /\ f.obj \in 0 .. Len(objs) /\ WellCalled(f)
        /\ f.obj # Null => Built(f) /\ Entry(f.clang, f.obj)
        /\ r \in 1 .. Len(objs) /\ Len(objs) \in Nat
    BY <1>1, <1>3, OnTop
  <2>2. f.obj # Null
    BY <1>1, <1>3, <2>1 DEF Waiting
  <2> QED
    BY <1>1, <1>3, <2>1, <2>2 DEF Null, Built, Asked, Means, Visit
<1>5. stack' = Popped /\ ret' = o /\ UNCHANGED <<ast, types>> /\ objs' = [objs EXCEPT ![o].kids = <<r>>]
  BY <1>3 DEF ResumeQualified, Return
<1>6. /\ Len(objs') = Len(objs) /\ \A x \in 1 .. Len(objs) : x # o => objs'[x] = objs[x]
      /\ objs'[o].kind = objs[o].kind /\ objs'[o].kids = <<r>>
  <2>1. o \in 0 .. Len(objs) /\ o # 0 /\ <<r>> \in Seq(0 .. Len(objs))
    <3>1. Len(objs) \in Nat
      BY <1>2 DEF Typed
    <3>2. r \in 0 .. Len(objs)
      BY <1>4, <3>1
    <3> QED
      BY <1>4, <3>1, <3>2
  <2> QED
    BY <1>2, <1>5, <2>1, KidsChanged
<1>8. Indexed' /\ OneDangling'
  BY <1>2, <1>5, IndexedKept
<1>9. Means(f, o)'
  <2>1. Means(f, o)
    BY <1>1, <1>3, <1>4 DEF Means
  <2> QED
    BY <1>2, <1>5, <2>1, Meanings
<1>10. Right(f.clang, o)'
  <2>1. Converts(t, r)'
    BY <1>2, <1>4, <1>5, Meanings
  <2>2. f.clang[2] \/ Blurred(f.clang)
    BY <1>1, <1>3, <1>4 DEF WellCalled
  <2>3. objs'[o].kids[1] = r /\ Len(objs'[o].kids) = 1 /\ objs'[o].kind = "qualified"
    BY <1>4, <1>6
  <2>4. Qualifies(f.clang[1], o)'
    BY <1>4, <2>1, <2>3 DEF Qualifies, Converts, Stands, EntryOr, Entry, Key
  <2>5. KindOf(f.clang[1])' # "other" /\ (Blurred(f.clang) => Blurred(f.clang)')
    BY <1>4, <1>5, BlurredKept DEF KindOf
  <2> QED
    BY <2>2, <2>4, <2>5 DEF SameShape, Right
<1>11. /\ \A x \in 1 .. Len(objs) : x # f.obj => objs'[x] = objs[x]
       /\ \A n \in 1 .. Len(types) : types'[n] = types[n]
       /\ \A n \in 1 .. Len(types') : n \in 1 .. Len(types)
       /\ Len(types') \in Nat /\ Len(types) <= Len(types')
       /\ o # Null /\ Right(f.clang, f.obj)'
  BY <1>2, <1>4, <1>5, <1>6, <1>10 DEF Null
<1> QED
  BY <1>1, <1>2, <1>3, <1>5, <1>8, <1>9, <1>11, StepReturn

LEMMA StepVisitLeaf ==
  ASSUME CollectorInv, VisitLeaf, UNCHANGED <<decls, cur, latest, exports>> PROVE CollectorInv'
<1>1. stack # << >> /\ Frame.fn = "Visit" /\ Frame.obj = Null /\ KindOf(Type) \in Leaves
  BY DEF VisitLeaf, Entered
<1>2. Typed /\ Indexed /\ OneDangling /\ Typed' /\ Len(types) \in Nat /\ Len(objs) \in Nat
  BY <1>1, OnTop, TypedVisitLeaf
<1>3. PICK f, t, k, o : f = Frame /\ t = Type /\ k = Frame.clang /\ o = Len(objs) + 1
  OBVIOUS
<1>4. /\ k = <<t, FALSE>> /\ ~ Known(types, k) /\ t \in ClangTypes /\ KindOf(t) \in Leaves
      /\ KindOf(t) \notin {"sugar", "other"} /\ f.obj = Null /\ f.clang = k /\ f.fn = "Visit"
      /\ f.clang[1] = t
  <2>1. k = <<t, FALSE>> /\ t \in ClangTypes /\ f.clang[1] = t
    BY <1>1, <1>3, OnTop
  <2> QED
    BY <1>1, <1>3, <2>1 DEF VisitLeaf, Leaves
<1>5. stack' = Popped /\ ret' = o /\ ast' = ast /\ objs' = Append(objs, [kind |-> KindOf(t), kids |-> << >>])
  BY <1>3 DEF VisitLeaf, Return
<1>6. types' = Append(types, TypeRepr(k, o))
  BY <1>3, <1>4 DEF VisitLeaf, push_back
<1>7. /\ Len(objs') = Len(objs) + 1 /\ \A x \in 1 .. Len(objs) : objs'[x] = objs[x]
      /\ objs'[o] = [kind |-> KindOf(t), kids |-> << >>]
  <2>1. << >> \in Seq(0 .. Len(objs) + 1) /\ KindOf(t) \in Leaves \union Composites \union {"qualified"}
    BY <1>4
  <2> QED
    BY <1>2, <1>3, <1>5, <2>1, ObjectAdded
<1>8. /\ Indexed' /\ OneDangling' /\ Len(types') = Len(types) + 1
      /\ \A n \in 1 .. Len(types) : types'[n] = types[n]
      /\ types'[Len(types) + 1] = TypeRepr(k, o)
  BY <1>2, <1>3, <1>4, <1>5, <1>6, <1>7, IndexedNew
<1>9. Entry(k, o)'
  BY <1>2, <1>8 DEF Entry, TypeRepr
<1>10. Means(f, o)'
  BY <1>4, <1>5, <1>9 DEF Means, Converts, KindOf
<1>11. Right(k, o)'
  <2>1. PartsOf(t) = << >>
    BY <1>2, <1>4, PartsTyped
  <2>2. objs'[o].kind = KindOf(t) /\ Len(objs'[o].kids) = 0 /\ Len(PartsOf(t)) = 0
    BY <1>7, <2>1
  <2>3. \A n \in 1 .. Len(objs'[o].kids) : FALSE
    BY <2>2
  <2>4. k[1] = t /\ k[2] = FALSE /\ KindOf(t)' = KindOf(t) /\ PartsOf(t)' = PartsOf(t)
    BY <1>4, <1>5 DEF KindOf, PartsOf
  <2> QED
    BY <1>4, <2>2, <2>3, <2>4 DEF SameShape, Right
<1>12. ASSUME NEW n \in 1 .. Len(types'), n \notin 1 .. Len(types)
       PROVE  Right(types[n].clang, types[n].autoffi)' /\ types'[n].autoffi = Len(objs) + 1
  <2>1. n = Len(types) + 1
    BY <1>2, <1>8, <1>12
  <2>2. types'[n].clang = k /\ types'[n].autoffi = o
    BY <1>8, <2>1 DEF TypeRepr
  <2> QED
    BY <1>3, <1>11, <2>2 DEF Right, SameShape
<1>13. /\ Len(types') \in Nat /\ Len(types) <= Len(types') /\ o # Null /\ ~ (f.obj # Null)
       /\ \A x \in 1 .. Len(objs) : x # f.obj => objs'[x] = objs[x]
  BY <1>2, <1>3, <1>4, <1>7, <1>8 DEF Null
<1>14. \A n \in 1 .. Len(types') :
         \/ n \in 1 .. Len(types)
         \/ /\ Right(types[n].clang, types[n].autoffi)'
            /\ AliasOf(types[n].clang, types[n].autoffi)' \/ types'[n].autoffi = Len(objs) + 1
  BY <1>12
<1> QED
  BY <1>1, <1>2, <1>3, <1>5, <1>8, <1>10, <1>13, <1>14, StepReturn

\* The call on top is given an object, or counts a part.
LEMMA ObjSet ==
  ASSUME NEW m \in Nat, NEW f \in FrameSet(m), NEW o
  PROVE  /\ SameCall([f EXCEPT !.obj = o], f) /\ SameCall([f EXCEPT !.got = @ + 1], f)
         /\ [f EXCEPT !.obj = o].fn = f.fn /\ [f EXCEPT !.obj = o].clang = f.clang
         /\ [f EXCEPT !.obj = o].obj = o /\ [f EXCEPT !.obj = o].got = f.got
         /\ [f EXCEPT !.got = @ + 1].fn = f.fn /\ [f EXCEPT !.got = @ + 1].clang = f.clang
         /\ [f EXCEPT !.got = @ + 1].obj = f.obj /\ [f EXCEPT !.got = @ + 1].got = f.got + 1
BY DEF FrameSet, SameCall

LEMMA TopSet ==
  ASSUME Typed, stack # << >>, NEW m, m = Len(stack), NEW f
  PROVE  /\ m \in Nat /\ m \in 1 .. m /\ Frame = stack[m]
         /\ Len(WithTop(f)) = m /\ WithTop(f)[m] = f
         /\ \A p \in 1 .. m - 1 : WithTop(f)[p] = stack[p]
<1>1. m \in Nat /\ m \in 1 .. m /\ Frame = stack[m]
  BY StackParts DEF Typed
<1>2. PICK F : F = FrameSet(Len(objs)) \union {f}
  OBVIOUS
<1>3. stack \in Seq(F) /\ f \in F
  BY <1>2 DEF Typed
<1>4. /\ Len(WithTop(f)) = Len(stack) /\ WithTop(f)[Len(stack)] = f
      /\ \A p \in 1 .. Len(stack) - 1 : WithTop(f)[p] = stack[p]
  BY <1>3, WithTopParts
<1> QED
  BY <1>1, <1>4

\* Nothing changes but whether a conversion has failed.
LEMMA StutterKeeps ==
  ASSUME CollectorInv, Typed', UNCHANGED <<ast, types, objs, stack, ret, decls, cur, latest, exports>>
  PROVE  CollectorInv'
<1>1. /\ Typed /\ Chained /\ Recorded /\ Indexed /\ Shaped /\ OneDangling /\ Visited /\ Exported
      /\ Len(stack) \in Nat
  BY DEF CollectorInv, Typed
<1>2. /\ \A k, o : Entry(k, o) => Entry(k, o)'
      /\ \A c, o : Means(c, o) => Means(c, o)'
      /\ \A t, o : Converts(t, o) => Converts(t, o)'
      /\ \A d, o : DeclaredAs(d, o) => DeclaredAs(d, o)'
  <2>1. Len(types') \in Nat /\ Len(types) <= Len(types')
    BY <1>1 DEF Typed
  <2> QED
    BY <1>1, <2>1, Meanings
<1>3. Chained'
  <2>1. \A p \in 0 .. Len(stack) : AskedAt(p)' = AskedAt(p)
    BY AsksTheSame DEF SameCall
  <2>2. \A p \in 1 .. Len(stack) : (Waiting(stack[p]) => Waiting(stack[p])') /\ (Ready(stack[p]) => Ready(stack[p])')
    BY DEF Waiting, Ready, KindOf, PartsOf, Null
  <2>3. ret # Null => Means(AskedAt(Len(stack)), ret)'
    <3>1. SUFFICES ASSUME ret # Null PROVE Means(AskedAt(Len(stack)), ret)'
      OBVIOUS
    <3>2. PICK c, o : c = AskedAt(Len(stack)) /\ o = ret
      OBVIOUS
    <3>3. Means(c, o)'
      BY <1>1, <1>2, <3>1, <3>2 DEF Chained
    <3>4. AskedAt(Len(stack))' = c
      BY <1>1, <2>1, <3>2
    <3> QED
      BY <3>2, <3>3, <3>4 DEF Means
  <2>4. \A p \in 0 .. Len(stack) - 1 : SameCall(stack'[p + 1], AskedAt(p)')
    <3>1. \A p \in 0 .. Len(stack) - 1 : p \in 0 .. Len(stack)
      BY <1>1
    <3> QED
      BY <1>1, <2>1, <3>1 DEF Chained, SameCall
  <2>5. stack # << >> => Len(stack) \in 1 .. Len(stack)
    BY <1>1 DEF Typed
  <2>6. \A p \in 1 .. Len(stack) : WellCalled(stack[p])'
    BY <1>1, BlurredKept DEF Chained, WellCalled
  <2> QED
    BY <1>1, <2>2, <2>3, <2>4, <2>5, <2>6 DEF Chained, Null
<1>4. Recorded'
  <2>1. /\ \A n \in 1 .. Len(types') : n \in 1 .. Len(types)
        /\ \A n \in 1 .. Len(types) : types'[n] = types[n]
        /\ \A p \in 1 .. Len(stack') : stack'[p].obj # Null =>
             p \in 1 .. Len(stack) /\ stack'[p].obj = stack[p].obj /\ stack'[p].clang = stack[p].clang
        /\ Len(stack') \in Nat
    BY <1>1
  <2> QED
    BY <1>1, <1>2, <2>1, RecordedKept
<1>5. Indexed' /\ OneDangling'
  BY <1>1, IndexedKept
<1>6. Shaped'
  <2>1. ASSUME NEW p \in 1 .. Len(stack), stack[p].obj # Null PROVE Built(stack[p])'
    <3>1. PICK f : f = stack[p]
      OBVIOUS
    <3>2. Built(f)'
      BY <1>1, <1>2, <2>1, <3>1, BuiltKept DEF Shaped, Active
    <3> QED
      BY <3>1, <3>2 DEF Built
  <2>2. ASSUME NEW n \in 1 .. Len(types)
        PROVE  (Right(types[n].clang, types[n].autoffi) \/ InProgress(types[n].clang, types[n].autoffi))'
    <3>1. PICK k, o : k = types[n].clang /\ o = types[n].autoffi
      OBVIOUS
    <3>2. Right(k, o) \/ InProgress(k, o)
      BY <1>1, <3>1 DEF Shaped
    <3>3. CASE Right(k, o)
      <4>1. Right(k, o)'
        BY <1>2, <3>3, RightKept
      <4> QED
        BY <3>1, <4>1 DEF Right, SameShape
    <3>4. CASE InProgress(k, o)
      BY <3>1, <3>4 DEF InProgress
    <3> QED
      BY <3>2, <3>3, <3>4
  <2> QED
    BY <2>1, <2>2 DEF Shaped, Active, Null
<1>7. Visited'
  <2>1. ASSUME latest # Null, NEW d \in cur PROVE Redeclares(d) /\ Converts(d.type[1], latest)'
    <3>1. PICK x : x = latest
      OBVIOUS
    <3>2. Redeclares(d) /\ Converts(d.type[1], x)'
      BY <1>1, <1>2, <2>1, <3>1 DEF Visited
    <3> QED
      BY <3>1, <3>2 DEF Converts
  <2> QED
    BY <1>1, <2>1 DEF Visited, Null
<1>8. Exported'
  <2>1. ASSUME NEW n \in 1 .. Len(exports) PROVE DeclaredAs(exports[n].decl, exports[n].type)'
    <3>1. PICK d, o : d = exports[n].decl /\ o = exports[n].type
      OBVIOUS
    <3>2. DeclaredAs(d, o)'
      BY <1>1, <1>2, <3>1 DEF Exported
    <3> QED
      BY <3>1, <3>2 DEF DeclaredAs
  <2> QED
    BY <1>1, <2>1 DEF Exported
<1> QED
  BY <1>3, <1>4, <1>5, <1>6, <1>7, <1>8 DEF CollectorInv

LEMMA StepUnconvertible ==
  ASSUME CollectorInv, Unconvertible, UNCHANGED <<decls, cur, latest, exports>> PROVE CollectorInv'
<1>1. Typed'
  BY TypedUnconvertible DEF CollectorInv
<1> QED
  BY <1>1, StutterKeeps DEF Unconvertible

LEMMA StepVisitComposite ==
  ASSUME CollectorInv, VisitComposite, UNCHANGED <<decls, cur, latest, exports>> PROVE CollectorInv'
<1>1. stack # << >> /\ ret = Null /\ Frame.fn = "Visit" /\ Frame.obj = Null /\ KindOf(Type) \in Composites
  BY DEF VisitComposite, Entered
<1>2. /\ Typed /\ Chained /\ Recorded /\ Indexed /\ Shaped /\ OneDangling /\ Typed'
      /\ Len(types) \in Nat /\ Len(objs) \in Nat /\ Visited /\ Exported
  BY <1>1, OnTop, TypedVisitComposite DEF CollectorInv
<1>3. PICK f, t, k, o, m : /\ f = [Frame EXCEPT !.obj = o] /\ t = Type /\ k = Frame.clang
                           /\ o = Len(objs) + 1 /\ m = Len(stack)
  OBVIOUS
<1>4. /\ k = <<t, FALSE>> /\ ~ Known(types, k) /\ t \in ClangTypes /\ KindOf(t) \in Composites
      /\ Frame.got = 0 /\ o # Null
  <2>1. k = <<t, FALSE>> /\ t \in ClangTypes /\ Ready(Frame)
    BY <1>1, <1>3, OnTop
  <2> QED
    BY <1>1, <1>2, <1>3, <2>1 DEF VisitComposite, Composites, Records, Ready, Null
<1>5. f.fn = "Visit" /\ f.clang = k /\ f.obj = o /\ f.got = 0 /\ f.clang[1] = t
  <2>1. f.fn = Frame.fn /\ f.clang = Frame.clang /\ f.obj = o /\ f.got = Frame.got
    BY <1>1, <1>2, <1>3, FrameTyped, ObjSet
  <2>2. f.clang = k
    BY <1>3, <2>1
  <2>3. k[1] = t
    BY <1>4
  <2> QED
    BY <1>1, <1>4, <2>1, <2>2, <2>3
<1>6. /\ stack' = WithTop(f) /\ ast' = ast /\ ret' = Null
      /\ objs' = Append(objs, [kind |-> KindOf(t), kids |-> NewKids(KindOf(t))])
  BY <1>1, <1>3 DEF VisitComposite
<1>7. types' = Append(types, TypeRepr(k, o))
  BY <1>3, <1>4 DEF VisitComposite, push_back
<1>8. /\ Len(objs') = Len(objs) + 1 /\ \A x \in 1 .. Len(objs) : objs'[x] = objs[x]
      /\ objs'[o] = [kind |-> KindOf(t), kids |-> NewKids(KindOf(t))]
  <2>1. NewKids(KindOf(t)) \in Seq(0 .. Len(objs) + 1)
    <3>1. << >> \in Seq(0 .. Len(objs) + 1) /\ <<0>> \in Seq(0 .. Len(objs) + 1)
      BY <1>2
    <3> QED
      BY <3>1 DEF NewKids, Null
  <2> QED
    BY <1>2, <1>3, <1>4, <1>6, <2>1, ObjectAdded
<1>9. /\ Indexed' /\ OneDangling' /\ Len(types') = Len(types) + 1
      /\ \A n \in 1 .. Len(types) : types'[n] = types[n]
      /\ types'[Len(types) + 1] = TypeRepr(k, o)
  BY <1>2, <1>3, <1>4, <1>6, <1>7, <1>8, IndexedNew
<1>10. /\ Entry(k, o)'
       /\ \A l, x : Entry(l, x) => Entry(l, x)'
       /\ \A l, x : Converts(l, x) => Converts(l, x)'
       /\ \A d, x : DeclaredAs(d, x) => DeclaredAs(d, x)'
       /\ Len(types') \in Nat
  <2>1. Entry(k, o)' /\ Len(types') \in Nat /\ Len(types) <= Len(types')
    BY <1>2, <1>9 DEF Entry, TypeRepr
  <2> QED
    BY <1>2, <1>6, <1>9, <2>1, Meanings
<1>11. /\ m \in Nat /\ m \in 1 .. m /\ Len(stack') = m /\ stack'[m] = f /\ Frame = stack[m]
       /\ \A p \in 1 .. m - 1 : stack'[p] = stack[p]
  BY <1>1, <1>2, <1>3, <1>6, TopSet
<1>12. Chained'
  <2>1. SameCall(f, Frame) /\ Ready(f)
    <3>1. Len(PartsOf(t)) \in Nat /\ 0 <= Len(PartsOf(t))
      BY <1>2, <1>4, PartsTyped
    <3>2. SameCall(f, Frame)
      BY <1>1, <1>2, <1>3, FrameTyped, ObjSet
    <3> QED
      BY <1>4, <1>5, <3>1, <3>2 DEF Ready
  <2> QED
    BY <1>1, <1>2, <1>3, <1>6, <1>11, <2>1, ChainedStay
<1>13. Recorded'
  <2>1. \A p \in 1 .. Len(stack') : p # m /\ stack'[p].obj # Null =>
          p \in 1 .. Len(stack) /\ stack'[p].obj = stack[p].obj /\ stack'[p].clang = stack[p].clang
    BY <1>3, <1>11
  <2>2. m \in 1 .. Len(stack) /\ Len(stack) \in Nat /\ Len(stack') \in Nat
    BY <1>3, <1>11
  <2>3. stack'[m].clang = k /\ stack'[m].obj = o /\ o = Len(objs) + 1 /\ ast' = ast
    BY <1>3, <1>5, <1>6, <1>11
  <2>4. \A n \in 1 .. Len(types') : n \in 1 .. Len(types) \/ (types'[n].clang = k /\ types'[n].autoffi = o)
    BY <1>2, <1>9 DEF TypeRepr
  <2>5. Typed /\ Recorded /\ ~ Known(types, k)
    BY <1>2, <1>4
  <2>6. Entry(k, o)' /\ \A l, x : Entry(l, x) => Entry(l, x)'
    BY <1>10
  <2>7. \A n \in 1 .. Len(types) : types'[n] = types[n]
    BY <1>9
  <2> QED
    BY <2>1, <2>2, <2>3, <2>4, <2>5, <2>6, <2>7, RecordedNew
<1>14. Shaped'
  <2>1. Built(f)'
    <3>1. objs'[o].kind = KindOf(t) /\ objs'[o].kids = NewKids(KindOf(t))
      BY <1>8
    <3>2. Len(NewKids(KindOf(t))) = IF KindOf(t) \notin Records THEN 1 ELSE 0
      BY DEF NewKids
    <3>3. \A n \in 1 .. f.got : FALSE
      BY <1>5
    <3>4. KindOf(t)' = KindOf(t) /\ Len(objs'[o].kids) = IF f.got = 0 /\ KindOf(t) \notin Records THEN 1 ELSE f.got
      BY <1>5, <1>6, <3>1, <3>2 DEF KindOf
    <3> QED
      BY <1>5, <3>1, <3>3, <3>4 DEF Built
  <2>2. \A n \in 1 .. Len(types') :
          n \in 1 .. Len(types) \/ (types'[n].clang = f.clang /\ types'[n].autoffi = f.obj)
    BY <1>2, <1>5, <1>9 DEF TypeRepr
  <2>3. /\ Len(stack') \in Nat /\ m <= Len(stack')
        /\ \A p \in 1 .. Len(stack') : p < m => stack'[p] = stack[p]
        /\ \A p \in 1 .. Len(stack') : m < p => stack'[p].obj = Null
    BY <1>11
  <2>4. f.clang = Frame.clang /\ Frame.obj = Null /\ f.obj = Len(objs) + 1
    BY <1>1, <1>3, <1>5
  <2> QED
    BY <1>1, <1>2, <1>3, <1>6, <1>8, <1>9, <1>10, <1>11, <2>1, <2>2, <2>3, <2>4, ShapedOn
<1>15. Visited' /\ Exported'
  BY <1>1, <1>2, <1>6, <1>10, CollectorKept
<1> QED
  BY <1>2, <1>9, <1>12, <1>13, <1>14, <1>15 DEF CollectorInv
LEMMA StepEnterQualified ==
  ASSUME CollectorInv, EnterQualified, UNCHANGED <<decls, cur, latest, exports>> PROVE CollectorInv'
<1>1. stack # << >> /\ ret = Null /\ Frame.fn = "VisitQualType" /\ Frame.obj = Null /\ Frame.qualified
  BY DEF EnterQualified, Entered
<1>2. /\ Typed /\ Chained /\ Recorded /\ Indexed /\ Shaped /\ OneDangling /\ Typed'
      /\ Len(types) \in Nat /\ Len(objs) \in Nat /\ Visited /\ Exported
  BY <1>1, OnTop, TypedEnterQualified DEF CollectorInv
<1>3. PICK f, t, k, o, m : /\ f = [Frame EXCEPT !.obj = o] /\ t = Type /\ k = Frame.clang
                           /\ o = Len(objs) + 1 /\ m = Len(stack)
  OBVIOUS
<1>4. k[1] = t /\ ~ Known(types, k) /\ Frame.got = 0 /\ o # Null
  <2>1. k[1] = t /\ Ready(Frame)
    BY <1>1, <1>3, OnTop
  <2> QED
    BY <1>1, <1>2, <1>3, <2>1 DEF EnterQualified, Ready, Null
<1>5. f.fn = "VisitQualType" /\ f.clang = k /\ f.obj = o /\ f.got = 0
  <2>1. f.fn = Frame.fn /\ f.clang = Frame.clang /\ f.obj = o /\ f.got = Frame.got
    BY <1>1, <1>2, <1>3, FrameTyped, ObjSet
  <2> QED
    BY <1>1, <1>3, <1>4, <2>1
<1>6. /\ stack' = Append(WithTop(f), Visit(t)) /\ ast' = ast /\ ret' = Null
      /\ objs' = Append(objs, [kind |-> "qualified", kids |-> <<Null>>])
  BY <1>1, <1>3 DEF EnterQualified
<1>7. types' = Append(types, TypeRepr(k, o))
  BY <1>3, <1>4 DEF EnterQualified, push_back
<1>8. /\ Len(objs') = Len(objs) + 1 /\ \A x \in 1 .. Len(objs) : objs'[x] = objs[x]
      /\ objs'[o] = [kind |-> "qualified", kids |-> <<Null>>]
  <2>1. <<Null>> \in Seq(0 .. Len(objs) + 1)
    BY <1>2 DEF Null
  <2> QED
    BY <1>2, <1>3, <1>6, <2>1, ObjectAdded
<1>9. /\ Indexed' /\ OneDangling' /\ Len(types') = Len(types) + 1
      /\ \A n \in 1 .. Len(types) : types'[n] = types[n]
      /\ types'[Len(types) + 1] = TypeRepr(k, o)
  BY <1>2, <1>3, <1>4, <1>6, <1>7, <1>8, IndexedNew
<1>10. /\ Entry(k, o)'
       /\ \A l, x : Entry(l, x) => Entry(l, x)'
       /\ \A l, x : Converts(l, x) => Converts(l, x)'
       /\ \A d, x : DeclaredAs(d, x) => DeclaredAs(d, x)'
       /\ Len(types') \in Nat
  <2>1. Entry(k, o)' /\ Len(types') \in Nat /\ Len(types) <= Len(types')
    BY <1>2, <1>9 DEF Entry, TypeRepr
  <2> QED
    BY <1>2, <1>6, <1>9, <2>1, Meanings
<1>11. /\ m \in Nat /\ m \in 1 .. m /\ Len(stack') = m + 1 /\ stack'[m] = f /\ stack'[m + 1] = Visit(t)
       /\ Frame = stack[m] /\ \A p \in 1 .. m - 1 : stack'[p] = stack[p]
  <2>1. PICK w : w = WithTop(f)
    OBVIOUS
  <2>2. /\ m \in Nat /\ m \in 1 .. m /\ Frame = stack[m] /\ Len(w) = m /\ w[m] = f
        /\ \A p \in 1 .. m - 1 : w[p] = stack[p]
    BY <1>1, <1>2, <1>3, <2>1, TopSet
  <2>3. w \in Seq(FrameSet(Len(objs) + 1))
    <3>1. Len(objs) + 1 \in Nat /\ Len(objs) <= Len(objs) + 1 /\ o \in 0 .. Len(objs) + 1
      BY <1>2, <1>3
    <3>2. stack \in Seq(FrameSet(Len(objs) + 1))
      BY <1>2, <3>1, SetsGrow DEF Typed
    <3>3. f \in FrameSet(Len(objs) + 1)
      BY <1>1, <1>2, <1>3, <3>1, FrameTyped, FrameChanged
    <3> QED
      BY <1>1, <2>1, <3>2, <3>3, WithTopParts
  <2>4. PICK c : c = Visit(t)
    OBVIOUS
  <2>5. stack' = Append(w, c)
    BY <1>6, <2>1, <2>4
  <2>6. Len(stack') = m + 1 /\ stack'[m + 1] = c /\ \A p \in 1 .. m : stack'[p] = w[p]
    BY <2>2, <2>3, <2>5
  <2>7. \A p \in 1 .. m - 1 : p \in 1 .. m
    BY <2>2
  <2> QED
    BY <2>2, <2>4, <2>6, <2>7
<1>12. Chained'
  <2>1. SameCall(f, Frame) /\ f.got = Frame.got
    <3>1. Frame \in FrameSet(Len(objs)) /\ Len(objs) \in Nat /\ f = [Frame EXCEPT !.obj = o]
      BY <1>1, <1>2, <1>3, FrameTyped
    <3>2. SameCall([Frame EXCEPT !.obj = o], Frame) /\ [Frame EXCEPT !.obj = o].got = Frame.got
      BY <3>1, ObjSet
    <3> QED
      BY <3>1, <3>2
  <2>2. Waiting(f) /\ SameCall(Visit(t), Asked(f)) /\ WellCalled(Asked(f))
    <3>1. f.qualified
      BY <1>1, <2>1 DEF SameCall
    <3>2. Asked(f) = Visit(t)
      BY <1>4, <1>5 DEF Asked
    <3> QED
      BY <1>4, <1>5, <3>1, <3>2, PlainVisitWell DEF Waiting, SameCall
  <2>3. Visit(t).obj = Null /\ Visit(t).got = 0
    BY DEF Visit
  <2>4. Len(stack') = Len(stack) + 1 /\ stack'[Len(stack)] = f /\ stack'[Len(stack) + 1] = Visit(t)
    BY <1>3, <1>11
  <2>5. \A p \in 1 .. Len(stack) - 1 : stack'[p] = stack[p]
    BY <1>3, <1>11
  <2> QED
    BY <1>1, <1>2, <1>6, <2>1, <2>2, <2>3, <2>4, <2>5, ChainedPush
<1>13. \A p \in 1 .. Len(stack') : m < p => stack'[p].obj = Null
  <2>1. \A p \in 1 .. Len(stack') : m < p => stack'[p] = Visit(t)
    BY <1>11
  <2> QED
    BY <2>1 DEF Visit
<1>14. Recorded'
  <2>1. \A p \in 1 .. Len(stack') : p # m /\ stack'[p].obj # Null =>
          p \in 1 .. Len(stack) /\ stack'[p].obj = stack[p].obj /\ stack'[p].clang = stack[p].clang
    BY <1>3, <1>11, <1>13
  <2>2. m \in 1 .. Len(stack) /\ Len(stack) \in Nat /\ Len(stack') \in Nat
    BY <1>3, <1>11
  <2>3. stack'[m].clang = k /\ stack'[m].obj = o /\ o = Len(objs) + 1 /\ ast' = ast
    BY <1>3, <1>5, <1>6, <1>11
  <2>4. \A n \in 1 .. Len(types') : n \in 1 .. Len(types) \/ (types'[n].clang = k /\ types'[n].autoffi = o)
    BY <1>2, <1>9 DEF TypeRepr
  <2>5. Typed /\ Recorded /\ ~ Known(types, k)
    BY <1>2, <1>4
  <2>6. Entry(k, o)' /\ \A l, x : Entry(l, x) => Entry(l, x)'
    BY <1>10
  <2>7. \A n \in 1 .. Len(types) : types'[n] = types[n]
    BY <1>9
  <2> QED
    BY <2>1, <2>2, <2>3, <2>4, <2>5, <2>6, <2>7, RecordedNew
<1>15. Shaped'
  <2>1. Built(f)'
    BY <1>5, <1>8 DEF Built
  <2>2. \A n \in 1 .. Len(types') :
          n \in 1 .. Len(types) \/ (types'[n].clang = f.clang /\ types'[n].autoffi = f.obj)
    BY <1>2, <1>5, <1>9 DEF TypeRepr
  <2>3. /\ Len(stack') \in Nat /\ m <= Len(stack')
        /\ \A p \in 1 .. Len(stack') : p < m => stack'[p] = stack[p]
    BY <1>11
  <2>4. f.clang = Frame.clang /\ Frame.obj = Null /\ f.obj = Len(objs) + 1
    BY <1>1, <1>3, <1>5
  <2> QED
    <3>1. /\ m = Len(stack) /\ ast' = ast /\ stack'[m] = f
          /\ \A x \in 1 .. Len(objs) : x # f.obj => objs'[x] = objs[x]
      BY <1>3, <1>6, <1>8, <1>11
    <3> QED
      BY <1>1, <1>2, <1>9, <1>10, <1>13, <2>1, <2>2, <2>3, <2>4, <3>1, ShapedOn
<1>16. Visited' /\ Exported'
  BY <1>1, <1>2, <1>6, <1>10, CollectorKept
<1> QED
  BY <1>2, <1>9, <1>12, <1>14, <1>15, <1>16 DEF CollectorInv

\* What ResumePart makes of the members ks of an object, g of which are taken.
LEMMA PartBuilt ==
  ASSUME NEW m \in Nat, NEW ks \in Seq(0 .. m), NEW g \in Nat, NEW r \in 0 .. m, NEW new,
         new = (IF g < Len(ks) THEN [ks EXCEPT ![g + 1] = r] ELSE Append(ks, r)),
         Len(ks) = g \/ (g = 0 /\ Len(ks) = 1)
  PROVE  /\ Len(new) = g + 1 /\ new[g + 1] = r
         /\ \A n \in 1 .. g : new[n] = ks[n]
<1>1. CASE g < Len(ks)
  <2>1. g = 0 /\ Len(ks) = 1 /\ new = [ks EXCEPT ![1] = r]
    <3>1. Len(ks) \in Nat /\ g = 0 /\ Len(ks) = 1
      BY <1>1
    <3>2. g + 1 = 1
      BY <3>1
    <3> QED
      BY <1>1, <3>1, <3>2
  <2> QED
    BY <2>1
<1>2. CASE ~ (g < Len(ks))
  <2>1. Len(ks) = g /\ new = Append(ks, r)
    BY <1>2
  <2> QED
    BY <2>1
<1> QED
  BY <1>1, <1>2

LEMMA StepResumePart ==
  ASSUME CollectorInv, ResumePart, UNCHANGED <<decls, cur, latest, exports>> PROVE CollectorInv'
<1>1. stack # << >> /\ ret # Null /\ Frame.fn = "Visit" /\ KindOf(Type) \in Composites
  BY DEF ResumePart, Resumed
<1>2. /\ Typed /\ Chained /\ Recorded /\ Indexed /\ Shaped /\ OneDangling /\ Typed'
      /\ Len(types) \in Nat /\ Len(objs) \in Nat /\ Visited /\ Exported
  BY <1>1, OnTop, TypedResumePart DEF CollectorInv
<1>3. PICK f, t, o, g, r, m :
        f = [Frame EXCEPT !.got = @ + 1] /\ t = Type /\ o = Frame.obj /\ g = Frame.got /\ r = ret /\ m = Len(stack)
  OBVIOUS
<1>4. /\ o \in 1 .. Len(objs) /\ g \in Nat /\ g < Len(PartsOf(t)) /\ Built(Frame)
      /\ r \in 1 .. Len(objs) /\ r \in 0 .. Len(objs)
      /\ Stands(PartsOf(t)[g + 1], r) /\ Frame.clang[1] = t /\ o # Null /\ t \in ClangTypes
  <2>1. /\ Waiting(Frame) /\ Means(Asked(Frame), r) /\ r \in 1 .. Len(objs) /\ Frame.clang[1] = t /\ t \in ClangTypes
        /\ Frame \in FrameSet(Len(objs))
        /\ Frame.obj # Null => Built(Frame)
        /\ o \in 0 .. Len(objs) /\ g \in Nat
    BY <1>1, <1>3, OnTop
  <2>2. o # Null /\ g < Len(PartsOf(t))
    BY <1>1, <1>3, <2>1 DEF Waiting, Composites, Records
  <2>3. Stands(PartsOf(t)[g + 1], r)
    <3>1. PICK qt : qt = PartsOf(t)[g + 1]
      OBVIOUS
    <3>2. PartsOf(Frame.clang[1])[Frame.got + 1] \in QualTypes
      BY <1>1, <1>2, <2>1, PartAsked
    <3>3. qt \in QualTypes /\ Asked(Frame) = VisitQualType(qt)
      BY <1>1, <1>3, <2>1, <3>1, <3>2 DEF Asked
    <3>4. Stands(qt, r)
      BY <2>1, <3>3, MeansStands
    <3> QED
      BY <3>1, <3>4
  <2> QED
    BY <1>2, <1>3, <2>1, <2>2, <2>3 DEF Null
<1>5. f.fn = "Visit" /\ f.clang = Frame.clang /\ f.obj = o /\ f.got = g + 1 /\ f.clang[1] = t
  <2>1. f.fn = Frame.fn /\ f.clang = Frame.clang /\ f.obj = Frame.obj /\ f.got = Frame.got + 1
    BY <1>1, <1>2, <1>3, FrameTyped, ObjSet
  <2> QED
    BY <1>1, <1>3, <1>4, <2>1
<1>6. PICK ks, new : /\ ks = objs[o].kids
                     /\ new = IF g < Len(ks) THEN [ks EXCEPT ![g + 1] = r] ELSE Append(ks, r)
  OBVIOUS
<1>7. stack' = WithTop(f) /\ UNCHANGED <<ast, types>> /\ ret' = Null /\ objs' = [objs EXCEPT ![o].kids = new]
  BY <1>3, <1>6 DEF ResumePart
<1>8. ks \in Seq(0 .. Len(objs)) /\ new \in Seq(0 .. Len(objs))
  <2>1. objs[o] \in ObjectSet(Len(objs))
    BY <1>2, <1>4 DEF Typed
  <2>2. ks \in Seq(0 .. Len(objs))
    BY <1>6, <2>1 DEF ObjectSet
  <2> QED
    BY <1>2, <1>4, <1>6, <2>2, PartTaken
<1>9. /\ Len(objs') = Len(objs) /\ \A x \in 1 .. Len(objs) : x # o => objs'[x] = objs[x]
      /\ objs'[o].kind = objs[o].kind /\ objs'[o].kids = new
  <2>1. o \in 0 .. Len(objs) /\ o # 0
    BY <1>2, <1>4
  <2> QED
    BY <1>2, <1>7, <1>8, <2>1, KidsChanged
<1>10. /\ \A k, x : Entry(k, x) => Entry(k, x)'
       /\ \A k, x : Stands(k, x) => Stands(k, x)'
       /\ \A k, x : Converts(k, x) => Converts(k, x)'
       /\ \A d, x : DeclaredAs(d, x) => DeclaredAs(d, x)'
  BY <1>2, <1>7, Meanings
<1>11. /\ m \in Nat /\ m \in 1 .. m /\ Len(stack') = m /\ stack'[m] = f /\ Frame = stack[m]
       /\ \A p \in 1 .. m - 1 : stack'[p] = stack[p]
  BY <1>1, <1>2, <1>3, <1>7, TopSet
<1>12. Chained'
  <2>1. SameCall(f, Frame)
    BY <1>1, <1>2, <1>3, FrameTyped, ObjSet
  <2>2. Ready(f)
    <3>1. Len(PartsOf(t)) \in Nat
      BY <1>2, <1>4, PartsTyped
    <3> QED
      BY <1>1, <1>3, <1>4, <1>5, <3>1 DEF Ready
  <2> QED
    BY <1>1, <1>2, <1>3, <1>7, <1>11, <2>1, <2>2, ChainedStay
<1>13. Recorded'
  <2>1. \A p \in 1 .. Len(stack') : stack'[p].obj # Null =>
          p \in 1 .. Len(stack) /\ stack'[p].obj = stack[p].obj /\ stack'[p].clang = stack[p].clang
    <3>1. stack'[m].obj = stack[m].obj /\ stack'[m].clang = stack[m].clang
      BY <1>3, <1>5, <1>11
    <3>2. ASSUME NEW p \in 1 .. m PROVE stack'[p].obj = stack[p].obj /\ stack'[p].clang = stack[p].clang
      <4>1. CASE p = m
        BY <3>1, <4>1
      <4>2. CASE p # m
        BY <1>11, <4>2
      <4> QED
        BY <4>1, <4>2
    <3> QED
      BY <1>3, <1>11, <3>2
  <2>2. Len(stack) \in Nat /\ Len(stack') \in Nat
    BY <1>3, <1>11
  <2>3. /\ \A n \in 1 .. Len(types') : n \in 1 .. Len(types)
        /\ \A n \in 1 .. Len(types) : types'[n] = types[n]
        /\ ast' = ast
    BY <1>7
  <2> QED
    BY <1>2, <1>10, <2>1, <2>2, <2>3, RecordedKept
<1>14. Indexed' /\ OneDangling'
  BY <1>2, <1>7, IndexedKept
<1>15. Built(f)'
  <2>1. /\ objs[o].kind = KindOf(t) /\ Len(ks) = IF g = 0 /\ KindOf(t) \notin Records THEN 1 ELSE g
        /\ \A n \in 1 .. g : Stands(PartsOf(t)[n], ks[n])
    BY <1>1, <1>3, <1>4, <1>6 DEF Built
  <2>2. Len(new) = g + 1 /\ new[g + 1] = r /\ \A n \in 1 .. g : new[n] = ks[n]
    <3>1. Len(ks) = g \/ (g = 0 /\ Len(ks) = 1)
      BY <2>1
    <3> QED
      BY <1>2, <1>4, <1>6, <1>8, <3>1, PartBuilt
  <2>3. \A n \in 1 .. f.got : Stands(PartsOf(t)[n], objs[o].kids[n])'
    <3>1. SUFFICES ASSUME NEW n \in 1 .. g + 1 PROVE Stands(PartsOf(t)[n], objs[o].kids[n])'
      BY <1>5
    <3>2. PICK k, x : k = PartsOf(t)[n] /\ x = new[n]
      OBVIOUS
    <3>3. Stands(k, x)
      <4>1. CASE n = g + 1
        BY <1>4, <2>2, <3>2, <4>1
      <4>2. CASE n # g + 1
        <5>1. n \in 1 .. g
          BY <1>4, <4>2
        <5> QED
          BY <2>1, <2>2, <3>2, <5>1
      <4> QED
        BY <4>1, <4>2
    <3>4. Stands(k, x)' /\ PartsOf(t)'[n] = k /\ objs'[o].kids[n] = x
      BY <1>7, <1>9, <1>10, <3>2, <3>3 DEF PartsOf
    <3> QED
      BY <3>4, PartStands
  <2>4. KindOf(t)' = KindOf(t) /\ g + 1 # 0
    BY <1>4, <1>7 DEF KindOf
  <2> QED
    BY <1>5, <1>9, <2>1, <2>2, <2>3, <2>4 DEF Built
<1>16. Shaped'
  <2>1. /\ Len(stack') \in Nat /\ m <= Len(stack')
        /\ \A p \in 1 .. Len(stack') : p < m => stack'[p] = stack[p]
        /\ \A p \in 1 .. Len(stack') : m < p => stack'[p].obj = Null
    BY <1>11
  <2>2. f.clang = Frame.clang /\ f.obj = Frame.obj
    BY <1>3, <1>5
  <2>3. /\ \A n \in 1 .. Len(types') : n \in 1 .. Len(types)
        /\ \A n \in 1 .. Len(types) : types'[n] = types[n]
        /\ \A x \in 1 .. Len(objs) : x # f.obj => objs'[x] = objs[x]
    BY <1>5, <1>7, <1>9
  <2> QED
    <3>1. m = Len(stack) /\ ast' = ast /\ stack'[m] = f
      BY <1>3, <1>7, <1>11
    <3> QED
      BY <1>1, <1>2, <1>10, <1>15, <2>1, <2>2, <2>3, <3>1, ShapedOn
<1>17. Visited' /\ Exported'
  BY <1>1, <1>2, <1>7, <1>10, CollectorKept
<1> QED
  BY <1>2, <1>12, <1>13, <1>14, <1>16, <1>17 DEF CollectorInv
-------------------------------------------------------------------------------
(* The steps of the collector.                                               *)

\* While no call is active nothing changes but the declarations.
LEMMA Idle ==
  ASSUME Typed, Recorded, Indexed, Shaped, UNCHANGED <<ast, types, objs>>, stack = << >>,
         Len(stack') \in Nat, \A p \in 1 .. Len(stack') : stack'[p].obj = Null
  PROVE  Recorded' /\ Indexed' /\ Shaped'
<1>1. Recorded'
  BY DEF Recorded, Active, Null
<1>2. Indexed'
  BY DEF Indexed, KeysUnique, OwnFirst, Plain, KindOf
<1>3. Shaped'
  <2>1. ASSUME NEW n \in 1 .. Len(types) PROVE Right(types[n].clang, types[n].autoffi)'
    <3>1. PICK k, o : k = types[n].clang /\ o = types[n].autoffi
      OBVIOUS
    <3>2. Right(k, o)
      BY <3>1 DEF Shaped, InProgress
    <3>3. \A l, x : Entry(l, x) => Entry(l, x)'
      BY DEF Entry
    <3>4. Right(k, o)'
      BY <3>2, <3>3, RightKept
    <3> QED
      BY <3>1, <3>4 DEF Right, SameShape
  <2> QED
    BY <2>1 DEF Shaped, Active, Null
<1> QED
  BY <1>1, <1>2, <1>3

\* The exports of the collector keep their types.
LEMMA IdleMeans ==
  ASSUME Typed, UNCHANGED <<ast, types>>
  PROVE  /\ \A t, o : Converts(t, o) => Converts(t, o)'
         /\ \A d, o : DeclaredAs(d, o) => DeclaredAs(d, o)'
<1>1. Len(types) \in Nat /\ Len(types') \in Nat /\ Len(types) <= Len(types')
  BY DEF Typed
<1> QED
  BY <1>1, Meanings

LEMMA ExportedKept ==
  ASSUME Typed, Exported, UNCHANGED <<ast, types, exports>>
  PROVE  \A n \in 1 .. Len(exports) : DeclaredAs(exports[n].decl, exports[n].type)'
<1>1. SUFFICES ASSUME NEW n \in 1 .. Len(exports) PROVE DeclaredAs(exports[n].decl, exports[n].type)'
  OBVIOUS
<1>2. PICK d, o : d = exports[n].decl /\ o = exports[n].type
  OBVIOUS
<1>3. DeclaredAs(d, o)'
  BY <1>2, IdleMeans DEF Exported
<1> QED
  BY <1>2, <1>3 DEF DeclaredAs

\* An export that is no redeclaration, or of the type that is dangling.
LEMMA LastKept ==
  ASSUME NEW d, NEW x, exports' = Append(exports, [decl |-> d, type |-> x]), Len(exports) \in Nat,
         exports \in Seq(ExportSet(Len(objs)))
  PROVE  /\ ~ Redeclares(d) => \A o : LastReplaced(o) => LastReplaced(o)'
         /\ Redeclares(d) => LastReplaced(x)'
<1>1. PICK m : m = Len(exports)
  OBVIOUS
<1>2. PICK e : e = [decl |-> d, type |-> x]
  OBVIOUS
<1>3. m \in Nat /\ Len(exports') = m + 1 /\ exports'[m + 1] = e /\ \A n \in 1 .. m : exports'[n] = exports[n]
  BY <1>1, <1>2
<1>4. exports'[m + 1].decl = d /\ exports'[m + 1].type = x
  BY <1>2, <1>3
<1>5. ASSUME ~ Redeclares(d), NEW o, LastReplaced(o) PROVE LastReplaced(o)'
  <2>1. PICK j \in 1 .. m : /\ Redeclares(exports[j].decl) /\ exports[j].type = o
                            /\ \A l \in j + 1 .. m : ~ Redeclares(exports[l].decl)
    BY <1>1, <1>5 DEF LastReplaced
  <2>2. Redeclares(exports'[j].decl) /\ exports'[j].type = o
    BY <1>3, <2>1
  <2>3. ASSUME NEW l \in j + 1 .. m + 1 PROVE ~ Redeclares(exports'[l].decl)
    <3>1. CASE l = m + 1
      BY <1>4, <1>5, <3>1
    <3>2. CASE l # m + 1
      <4>1. l \in j + 1 .. m /\ l \in 1 .. m
        BY <1>3, <3>2
      <4> QED
        BY <1>3, <2>1, <4>1
    <3> QED
      BY <3>1, <3>2
  <2>4. j \in 1 .. m + 1
    BY <1>3
  <2> QED
    BY <1>3, <2>2, <2>3, <2>4 DEF LastReplaced
<1>6. ASSUME Redeclares(d) PROVE LastReplaced(x)'
  <2>1. m + 1 \in 1 .. m + 1 /\ \A l \in m + 1 + 1 .. m + 1 : FALSE
    BY <1>3
  <2>2. Redeclares(exports'[m + 1].decl)
    BY <1>4, <1>6
  <2> QED
    BY <1>3, <1>4, <2>1, <2>2 DEF LastReplaced
<1> QED
  BY <1>5, <1>6

LEMMA Resting ==
  ASSUME CollectorInv, stack = << >>
  PROVE  /\ Typed /\ Recorded /\ Indexed /\ Shaped /\ OneDangling /\ Visited /\ Exported
         /\ \A n \in 1 .. Len(types) : Right(types[n].clang, types[n].autoffi)
         /\ \A d \in cur : cur = {d} /\ d \in ast.decls /\ d \notin decls /\ (ret # Null => Means(RootCall(d), ret))
         /\ ret \in 0 .. Len(objs) /\ latest \in 0 .. Len(objs) /\ Len(objs) \in Nat /\ Len(types) \in Nat
<1>1. Typed /\ Chained /\ Recorded /\ Indexed /\ Shaped /\ OneDangling /\ Visited /\ Exported
  BY DEF CollectorInv
<1>2. \A n \in 1 .. Len(types) : Right(types[n].clang, types[n].autoffi)
  BY <1>1 DEF Shaped, InProgress
<1>3. ASSUME NEW d \in cur
      PROVE  cur = {d} /\ d \in ast.decls /\ d \notin decls /\ (ret # Null => Means(RootCall(d), ret))
  <2>1. cur = {d} /\ d \in ast.decls /\ d \notin decls
    BY <1>1 DEF Visited, Typed
  <2>2. (CHOOSE x \in cur : TRUE) = d
    BY <2>1
  <2>3. ret # Null => Means(AskedAt(0), ret)
    BY <1>1 DEF Chained
  <2> QED
    BY <2>1, <2>2, <2>3 DEF AskedAt
<1> QED
  BY <1>1, <1>2, <1>3 DEF Typed

\* The answer to the call of a declaration is its type.
LEMMA RootMeans ==
  ASSUME Typed, NEW d \in ast.decls, NEW o, Means(RootCall(d), o)
  PROVE  DeclaredAs(d, o) /\ (d.kind = "record" => Converts(d.type[1], o) /\ KindOf(d.type[1]) # "sugar")
<1>1. CASE d.kind \in {"record", "enum"}
  <2>1. Converts(d.type[1], o)
    BY <1>1 DEF Means, RootCall, Visit
  <2>2. d.kind = "record" => KindOf(d.type[1]) \in Records
    BY DEF Typed, Declared, KindOf
  <2> QED
    BY <1>1, <2>1, <2>2 DEF DeclaredAs, Records
<1>2. CASE d.kind \notin {"record", "enum"}
  <2>1. PICK qt : qt = d.type
    OBVIOUS
  <2>2. qt \in QualTypes
    BY <2>1, RootTyped
  <2>3. Stands(qt, o)
    BY <1>2, <2>1, <2>2, MeansStands DEF RootCall
  <2> QED
    BY <1>2, <2>1, <2>3 DEF DeclaredAs
<1> QED
  BY <1>1, <1>2

\* A call is made for the declaration that is visited.
LEMMA ChainedRoot ==
  ASSUME Typed, NEW d \in ast.decls, ast' = ast, cur' = {d}, stack' = <<RootCall(d)>>, ret' = Null
  PROVE  Chained' /\ Len(stack') \in Nat /\ \A p \in 1 .. Len(stack') : stack'[p].obj = Null
<1>1. PICK c : c = RootCall(d)
  OBVIOUS
<1>2. c.obj = Null /\ c.got = 0 /\ WellCalled(c)
  BY <1>1, RootWell DEF RootCall, Visit, VisitQualType
<1>3. Len(stack') = 1 /\ stack'[1] = c
  BY <1>1
<1>4. Ready(stack[1])'
  BY <1>2, <1>3 DEF Ready, Null
<1>5. AskedAt(0)' = RootCall(d)
  <2>1. (CHOOSE x \in cur' : TRUE) = d
    OBVIOUS
  <2> QED
    BY <2>1 DEF AskedAt, RootCall, Visit, VisitQualType
<1>6. Chained'
  <2>1. \A p \in 1 .. Len(stack') : p = 1
    BY <1>3
  <2>2. \A p \in 0 .. Len(stack') - 1 : p = 0
    BY <1>3
  <2>3. SameCall(stack'[0 + 1], AskedAt(0)')
    BY <1>1, <1>3, <1>5 DEF SameCall
  <2>4. \A p \in 1 .. Len(stack') : ~ (p < Len(stack') \/ ret' # Null)
    BY <1>3, <2>1
  <2>5. \A p \in 1 .. Len(stack') : WellCalled(stack[p])'
    <3>1. WellCalled(c)'
      BY <1>2, BlurredKept DEF WellCalled
    <3> QED
      BY <1>3, <2>1, <3>1 DEF WellCalled
  <2>6. \A p \in 0 .. Len(stack') - 1 : SameCall(stack'[p + 1], AskedAt(p)')
    BY <2>2, <2>3
  <2> QED
    BY <1>3, <1>4, <2>4, <2>5, <2>6 DEF Chained, Null
<1> QED
  BY <1>2, <1>3, <1>6

LEMMA ChainedEnd == ASSUME stack' = << >>, ret' = Null PROVE Chained'
BY DEF Chained, Null

LEMMA StepSkipAlias == ASSUME CollectorInv, NEW d \in decls, SkipAlias(d) PROVE CollectorInv'
<1>1. /\ cur = {} /\ d.kind = "alias" /\ decls' = decls \ {d}
      /\ UNCHANGED <<ast, types, objs, stack, ret, cur, latest, exports>>
  BY DEF SkipAlias, convVars
<1>2. stack = << >> /\ ret = Null /\ latest = Null
  BY <1>1 DEF CollectorInv, Visited
<1>3. Typed /\ Recorded /\ Indexed /\ Shaped /\ OneDangling /\ Visited /\ Exported
  BY DEF CollectorInv
<1>4. Typed'
  BY <1>3, TypedSkipAlias
<1>5. Recorded' /\ Indexed' /\ Shaped' /\ OneDangling'
  <2>1. Recorded' /\ Indexed' /\ Shaped'
    BY <1>1, <1>2, <1>3, Idle
  <2>2. OneDangling'
    BY <1>1, <1>3, IndexedKept
  <2> QED
    BY <2>1, <2>2
<1>6. Chained'
  BY <1>1, <1>2, ChainedEnd
<1>7. Visited'
  BY <1>1, <1>2 DEF Visited, Null
<1>8. Exported'
  <2>1. \A n \in 1 .. Len(exports) : DeclaredAs(exports[n].decl, exports[n].type)'
    BY <1>1, <1>3, ExportedKept
  <2> QED
    BY <1>1, <1>3, <2>1 DEF Exported
<1> QED
  BY <1>4, <1>5, <1>6, <1>7, <1>8 DEF CollectorInv

LEMMA StepVisitDecl == ASSUME CollectorInv, NEW d \in decls, VisitDecl(d) PROVE CollectorInv'
<1>1. /\ cur = {} /\ d.kind # "alias" /\ decls' = decls \ {d} /\ cur' = {d} /\ stack' = <<RootCall(d)>>
      /\ UNCHANGED <<ast, types, objs, ret, latest, exports>>
  BY DEF VisitDecl, RootCall
<1>2. stack = << >> /\ ret = Null /\ latest = Null
  BY <1>1 DEF CollectorInv, Visited
<1>3. Typed /\ Recorded /\ Indexed /\ Shaped /\ OneDangling /\ Visited /\ Exported
  BY DEF CollectorInv
<1>4. Typed'
  BY <1>3, TypedVisitDecl
<1>5. Chained' /\ Len(stack') \in Nat /\ \A p \in 1 .. Len(stack') : stack'[p].obj = Null
  <2>1. d \in ast.decls
    BY <1>3 DEF Typed
  <2> QED
    BY <1>1, <1>2, <1>3, <2>1, ChainedRoot
<1>6. Recorded' /\ Indexed' /\ Shaped' /\ OneDangling'
  <2>1. Recorded' /\ Indexed' /\ Shaped'
    BY <1>1, <1>2, <1>3, <1>5, Idle
  <2>2. OneDangling'
    BY <1>1, <1>3, IndexedKept
  <2> QED
    BY <2>1, <2>2
<1>7. Visited'
  BY <1>1, <1>2 DEF Visited, Null
<1>8. Exported'
  <2>1. \A n \in 1 .. Len(exports) : DeclaredAs(exports[n].decl, exports[n].type)'
    BY <1>1, <1>3, ExportedKept
  <2>2. decls' \union cur' = decls \union cur
    BY <1>1
  <2> QED
    BY <1>1, <1>3, <2>1, <2>2 DEF Exported
<1> QED
  BY <1>4, <1>5, <1>6, <1>7, <1>8 DEF CollectorInv

LEMMA StepVisitPrevious == ASSUME CollectorInv, NEW d \in cur, VisitPreviousDecl(d) PROVE CollectorInv'
<1>1. /\ stack = << >> /\ ret # Null /\ Redeclares(d) /\ latest' = ret /\ ret' = Null
      /\ stack' = <<Visit(PreviousType(d))>>
      /\ UNCHANGED <<ast, types, objs, decls, cur, exports>>
  BY DEF VisitPreviousDecl, Converted
<1>2. /\ Typed /\ Recorded /\ Indexed /\ Shaped /\ OneDangling /\ Visited /\ Exported
      /\ cur = {d} /\ d \in ast.decls /\ Means(RootCall(d), ret)
  BY <1>1, Resting
<1>3. Typed'
  BY <1>2, TypedVisitPrevious
<1>4. stack' = <<RootCall(d)>>
  BY <1>1 DEF RootCall, PreviousType, Redeclares
<1>5. Chained' /\ Len(stack') \in Nat /\ \A p \in 1 .. Len(stack') : stack'[p].obj = Null
  BY <1>1, <1>2, <1>4, ChainedRoot
<1>6. Recorded' /\ Indexed' /\ Shaped' /\ OneDangling'
  <2>1. Recorded' /\ Indexed' /\ Shaped'
    BY <1>1, <1>2, <1>5, Idle
  <2>2. OneDangling'
    BY <1>1, <1>2, IndexedKept
  <2> QED
    BY <2>1, <2>2
<1>7. Visited'
  <2>1. PICK o : o = ret
    OBVIOUS
  <2>2. Converts(d.type[1], o)
    BY <1>1, <1>2, <2>1, RootMeans DEF Redeclares
  <2>3. latest' = o /\ Converts(d.type[1], o)'
    BY <1>1, <1>2, <2>1, <2>2, IdleMeans
  <2>4. \A x \in cur' : Redeclares(x) /\ Converts(x.type[1], latest)'
    BY <1>1, <1>2, <2>3 DEF Converts
  <2> QED
    BY <1>1, <1>2, <2>4 DEF Visited
<1>8. Exported'
  <2>1. \A n \in 1 .. Len(exports) : DeclaredAs(exports[n].decl, exports[n].type)'
    BY <1>1, <1>2, ExportedKept
  <2> QED
    BY <1>1, <1>2, <2>1 DEF Exported
<1> QED
  BY <1>3, <1>5, <1>6, <1>7, <1>8 DEF CollectorInv
\* The declaration that is visited gets its Export.
LEMMA ExportedMore ==
  ASSUME Typed, Exported, NEW d, cur = {d}, d \in ast.decls, d \notin decls, d.kind # "alias",
         cur' = {}, UNCHANGED <<ast, decls>>,
         NEW o, exports' = Append(exports, [decl |-> d, type |-> o]), DeclaredAs(d, o)',
         \A x, p : DeclaredAs(x, p) => DeclaredAs(x, p)'
  PROVE  Exported'
<1>1. PICK m : m = Len(exports)
  OBVIOUS
<1>2. /\ m \in Nat /\ Len(exports') = m + 1 /\ \A n \in 1 .. m : exports'[n] = exports[n]
      /\ exports'[m + 1] = [decl |-> d, type |-> o]
  BY <1>1 DEF Typed
<1>3. exports'[m + 1].decl = d /\ exports'[m + 1].type = o
  BY <1>2
<1>4. /\ ast.decls \ (decls \union cur) = (ast.decls \ (decls' \union cur')) \ {d}
      /\ d \in ast.decls \ (decls' \union cur')
  OBVIOUS
<1>5. ASSUME NEW n \in 1 .. m + 1
      PROVE  /\ exports'[n].decl \in ast.decls \ (decls' \union cur') /\ exports'[n].decl.kind # "alias"
             /\ DeclaredAs(exports[n].decl, exports[n].type)'
             /\ n # m + 1 => exports'[n].decl # d
  <2>1. CASE n = m + 1
    <3>1. DeclaredAs(exports[n].decl, exports[n].type)'
      BY <1>3, <2>1 DEF DeclaredAs
    <3> QED
      BY <1>3, <1>4, <2>1, <3>1
  <2>2. CASE n # m + 1
    <3>1. n \in 1 .. m
      BY <1>2, <2>2
    <3>2. PICK x, p : x = exports[n].decl /\ p = exports[n].type
      OBVIOUS
    <3>3. x \in ast.decls \ (decls \union cur) /\ x.kind # "alias" /\ DeclaredAs(x, p)'
      BY <1>1, <3>1, <3>2 DEF Exported
    <3>4. exports'[n].decl = x /\ exports'[n].type = p
      BY <1>2, <3>1, <3>2
    <3>5. DeclaredAs(exports[n].decl, exports[n].type)'
      BY <3>3, <3>4 DEF DeclaredAs
    <3> QED
      BY <1>4, <3>3, <3>4, <3>5
  <2> QED
    BY <2>1, <2>2
<1>6. \A i, j \in 1 .. m + 1 : exports'[i].decl = exports'[j].decl => i = j
  <2>1. \A i, j \in 1 .. m : exports'[i].decl = exports'[j].decl => i = j
    BY <1>1, <1>2 DEF Exported
  <2> QED
    BY <1>2, <1>3, <1>5, <2>1
<1>7. \A x \in ast.decls \ (decls' \union cur') : x.kind # "alias" => \E n \in 1 .. m + 1 : exports'[n].decl = x
  <2>1. SUFFICES ASSUME NEW x \in ast.decls \ (decls' \union cur'), x.kind # "alias"
                 PROVE  \E n \in 1 .. m + 1 : exports'[n].decl = x
    OBVIOUS
  <2>2. CASE x = d
    BY <1>2, <1>3, <2>2
  <2>3. CASE x # d
    <3>1. PICK n \in 1 .. m : exports[n].decl = x
      BY <1>1, <1>4, <2>1, <2>3 DEF Exported
    <3> QED
      BY <1>2, <3>1
  <2> QED
    BY <2>2, <2>3
<1>8. /\ \A n \in 1 .. Len(exports') : exports'[n].decl \in ast'.decls \ (decls' \union cur')
      /\ \A n \in 1 .. Len(exports') : exports'[n].decl.kind # "alias"
      /\ \A n \in 1 .. Len(exports') : DeclaredAs(exports[n].decl, exports[n].type)'
  BY <1>2, <1>5
<1> QED
  BY <1>2, <1>6, <1>7, <1>8 DEF Exported

LEMMA StepPushExport == ASSUME CollectorInv, NEW d \in cur, PushExport(d) PROVE CollectorInv'
<1>1. /\ stack = << >> /\ ret # Null /\ ~ Redeclares(d) /\ cur' = {} /\ ret' = Null
      /\ exports' = Append(exports, [decl |-> d, type |-> ret])
      /\ UNCHANGED <<ast, types, objs, stack, decls, latest>>
  BY DEF PushExport, Converted
<1>2. /\ Typed /\ Recorded /\ Indexed /\ Shaped /\ OneDangling /\ Visited /\ Exported
      /\ cur = {d} /\ d \in ast.decls /\ d \notin decls /\ Means(RootCall(d), ret)
  BY <1>1, Resting
<1>3. Typed'
  BY <1>2, TypedPushExport
<1>4. Recorded' /\ Indexed' /\ Shaped' /\ OneDangling'
  <2>1. Len(stack') \in Nat /\ \A p \in 1 .. Len(stack') : stack'[p].obj = Null
    BY <1>1
  <2>2. Recorded' /\ Indexed' /\ Shaped'
    BY <1>1, <1>2, <2>1, Idle
  <2>3. \A o : LastReplaced(o) => LastReplaced(o)'
    <3>1. PICK o : o = ret
      OBVIOUS
    <3>2. Len(exports) \in Nat /\ exports \in Seq(ExportSet(Len(objs)))
      BY <1>2 DEF Typed
    <3> QED
      BY <1>1, <3>1, <3>2, LastKept
  <2>4. OneDangling'
    <3>1. SUFFICES ASSUME NEW n \in 1 .. Len(types), types[n].dangling PROVE LastReplaced(types[n].autoffi)'
      BY <1>1 DEF OneDangling
    <3>2. PICK o : o = types[n].autoffi
      OBVIOUS
    <3>3. LastReplaced(o)'
      BY <1>2, <2>3, <3>1, <3>2 DEF OneDangling
    <3> QED
      BY <1>1, <3>2, <3>3 DEF LastReplaced
  <2> QED
    BY <2>2, <2>4
<1>5. Chained'
  BY <1>1, ChainedEnd
<1>6. Visited'
  BY <1>1, <1>2 DEF Visited, Null
<1>7. Exported'
  <2>1. PICK o : o = ret
    OBVIOUS
  <2>2. \A x, p : DeclaredAs(x, p) => DeclaredAs(x, p)'
    BY <1>1, <1>2, IdleMeans
  <2>3. DeclaredAs(d, o)'
    BY <1>2, <2>1, <2>2, RootMeans
  <2>4. d.kind # "alias"
    BY <1>2 DEF Visited
  <2> QED
    BY <1>1, <1>2, <2>1, <2>2, <2>3, <2>4, ExportedMore
<1> QED
  BY <1>3, <1>4, <1>5, <1>6, <1>7 DEF CollectorInv

\* Replacing a type by itself changes nothing.
LEMMA ReplacedByItself ==
  ASSUME Typed, NEW o \in 1 .. Len(objs)
  PROVE  ReplaceAll(objs, o, o) = objs
<1>1. \A x \in 1 .. Len(objs) : ReplaceAll(objs, o, o)[x] = objs[x]
  <2>1. SUFFICES ASSUME NEW x \in 1 .. Len(objs) PROVE ReplaceAll(objs, o, o)[x] = objs[x]
    OBVIOUS
  <2>2. PICK y : y = objs[x]
    OBVIOUS
  <2>3. y \in ObjectSet(Len(objs))
    BY <2>2 DEF Typed
  <2>4. [n \in DOMAIN y.kids |-> IF y.kids[n] = o THEN o ELSE y.kids[n]] = y.kids
    <3>1. y.kids \in Seq(0 .. Len(objs))
      BY <2>3 DEF ObjectSet
    <3>2. PICK m : m = Len(y.kids)
      OBVIOUS
    <3>3. m \in Nat /\ DOMAIN y.kids = 1 .. m /\ y.kids = [n \in 1 .. m |-> y.kids[n]]
      BY <3>1, <3>2
    <3> QED
      BY <3>3
  <2>5. [y EXCEPT !.kids = y.kids] = y
    BY <2>3 DEF ObjectSet
  <2> QED
    BY <2>2, <2>4, <2>5 DEF ReplaceAll
<1>2. ReplaceAll(objs, o, o) = [x \in 1 .. Len(objs) |-> ReplaceAll(objs, o, o)[x]]
  BY DEF ReplaceAll
<1> QED
  BY <1>1, <1>2 DEF Typed

LEMMA StepReplacePrevious == ASSUME CollectorInv, NEW d \in cur, ReplacePrevious(d) PROVE CollectorInv'
<1>1. /\ stack = << >> /\ ret # Null /\ latest # Null /\ cur' = {} /\ ret' = Null /\ latest' = Null
      /\ types' = replaceReprs(ret) /\ objs' = ReplaceAll(objs, ret, latest)
      /\ UNCHANGED <<ast, stack, decls>>
  BY DEF ReplacePrevious, Converted
<1>2. /\ Typed /\ Recorded /\ Indexed /\ Shaped /\ OneDangling /\ Visited /\ Exported
      /\ cur = {d} /\ d \in ast.decls /\ d \notin decls /\ Means(RootCall(d), ret)
      /\ \A n \in 1 .. Len(types) : Right(types[n].clang, types[n].autoffi)
      /\ ret \in 1 .. Len(objs) /\ Len(types) \in Nat
  BY <1>1, Resting DEF Null
<1>3. PICK o, t : o = ret /\ t = d.type[1]
  OBVIOUS
<1>4. d.kind = "record" /\ Redeclares(d) /\ Converts(t, o) /\ Converts(t, latest) /\ KindOf(t) # "sugar"
  BY <1>1, <1>2, <1>3, RootMeans DEF Visited, Redeclares
<1>5. latest = o
  BY <1>2, <1>4, OneConversion DEF Indexed
<1>6. objs' = objs
  BY <1>1, <1>2, <1>3, <1>5, ReplacedByItself
<1>7. /\ Len(types') = Len(types)
      /\ \A n \in 1 .. Len(types) : types'[n].clang = types[n].clang /\ types'[n].autoffi = types[n].autoffi
      /\ \A n \in 1 .. Len(types) : types'[n].dangling => types[n].autoffi = o
  <2>1. ASSUME NEW n \in 1 .. Len(types)
        PROVE  /\ types'[n].clang = types[n].clang /\ types'[n].autoffi = types[n].autoffi
               /\ types'[n].dangling => types[n].autoffi = o
    <3>1. types[n] \in ReprSet(Len(objs))
      BY <1>2, EntryTyped
    <3>2. types'[n] = IF types[n].autoffi = o THEN [types[n] EXCEPT !.dangling = TRUE]
                      ELSE TypeRepr(types[n].clang, types[n].autoffi)
      BY <1>1, <1>3 DEF replaceReprs
    <3> QED
      BY <3>1, <3>2 DEF TypeRepr, ReprSet
  <2>2. Len(types') = Len(types)
    BY <1>1, <1>2 DEF replaceReprs
  <2> QED
    BY <2>1, <2>2
<1>8. /\ \A k, x : Entry(k, x) => Entry(k, x)'
      /\ \A x, p : DeclaredAs(x, p) => DeclaredAs(x, p)'
  BY <1>1, <1>2, <1>7, MeaningKept
<1>9. Typed'
  BY <1>2, TypedReplacePrevious
<1>10. Chained'
  BY <1>1, ChainedEnd
<1>11. Recorded'
  BY <1>1 DEF Recorded
<1>12. Indexed'
  <2>1. KeysUnique'
    BY <1>2, <1>7 DEF Indexed, KeysUnique
  <2>2. OwnFirst'
    BY <1>1, <1>2, <1>7 DEF Indexed, OwnFirst, Plain, KindOf
  <2> QED
    BY <2>1, <2>2 DEF Indexed
<1>13. Shaped'
  <2>1. ASSUME NEW n \in 1 .. Len(types) PROVE Right(types[n].clang, types[n].autoffi)'
    <3>1. PICK k, x : k = types[n].clang /\ x = types[n].autoffi
      OBVIOUS
    <3>2. Right(k, x)'
      BY <1>1, <1>2, <1>6, <1>8, <3>1, RightKept
    <3>3. types'[n].clang = k /\ types'[n].autoffi = x
      BY <1>7, <3>1
    <3> QED
      BY <3>2, <3>3 DEF Right, SameShape
  <2> QED
    BY <1>1, <1>7, <2>1 DEF Shaped
<1>15. Visited'
  BY <1>1 DEF Visited, Null
<1>14. exports' = Append(exports, [decl |-> d, type |-> o])
  <2>1. [n \in 1 .. Len(exports) |-> IF exports[n].type = ret THEN [exports[n] EXCEPT !.type = latest] ELSE exports[n]]
          = exports
    <3>1. \A n \in 1 .. Len(exports) : exports[n].type = ret => [exports[n] EXCEPT !.type = latest] = exports[n]
      <4>1. \A n \in 1 .. Len(exports) : exports[n] \in ExportSet(Len(objs))
        BY <1>2 DEF Typed
      <4> QED
        BY <1>3, <1>5, <4>1 DEF ExportSet
    <3>2. exports = [n \in 1 .. Len(exports) |-> exports[n]]
      BY <1>2 DEF Typed
    <3> QED
      BY <3>1, <3>2
  <2> QED
    BY <1>3, <1>5, <2>1 DEF ReplacePrevious
<1>16. Exported'
  <2>1. DeclaredAs(d, o)'
    BY <1>2, <1>3, <1>8, RootMeans
  <2>2. d.kind # "alias"
    BY <1>4
  <2> QED
    BY <1>1, <1>2, <1>8, <1>14, <2>1, <2>2, ExportedMore
<1>17. OneDangling'
  <2>1. Len(exports) \in Nat /\ exports \in Seq(ExportSet(Len(objs)))
    BY <1>2 DEF Typed
  <2>2. LastReplaced(o)'
    BY <1>4, <1>14, <2>1, LastKept
  <2>3. ASSUME NEW n \in 1 .. Len(types), types'[n].dangling PROVE LastReplaced(types[n].autoffi)'
    <3>1. types'[n].autoffi = o
      BY <1>7, <2>3
    <3> QED
      BY <2>2, <3>1 DEF LastReplaced
  <2> QED
    BY <1>7, <2>3 DEF OneDangling
<1> QED
  BY <1>9, <1>10, <1>11, <1>12, <1>13, <1>15, <1>16, <1>17 DEF CollectorInv
-------------------------------------------------------------------------------
(* The theorems.                                                             *)

LEMMA InvInit == Init => CollectorInv
<1> SUFFICES ASSUME Init PROVE CollectorInv
  OBVIOUS
<1>1. /\ types = << >> /\ objs = << >> /\ stack = << >> /\ ret = Null /\ decls = ast.decls /\ cur = {}
      /\ latest = Null /\ exports = << >>
  BY DEF Init
<1>2. Typed
  BY TypedInit
<1>3. Chained /\ Recorded /\ Shaped /\ OneDangling
  BY <1>1 DEF Chained, Recorded, Shaped, OneDangling
<1>4. Indexed
  BY <1>1 DEF Indexed, KeysUnique, OwnFirst
<1>5. Visited /\ Exported
  BY <1>1 DEF Visited, Exported
<1> QED
  BY <1>2, <1>3, <1>4, <1>5 DEF CollectorInv

LEMMA InvStep == ASSUME CollectorInv, [Next]_collVars PROVE CollectorInv'
<1>1. CASE UNCHANGED collVars
  <2>1. UNCHANGED <<ast, types, objs, stack, ret, failed, decls, cur, latest, exports>>
    BY <1>1 DEF collVars, convVars
  <2>2. Typed'
    BY <1>1, TypedStep DEF CollectorInv
  <2> QED
    BY <2>1, <2>2, StutterKeeps
<1>2. CASE CollStep
  <2>1. ASSUME NEW d \in decls, SkipAlias(d) \/ VisitDecl(d) PROVE CollectorInv'
    BY <2>1, StepSkipAlias, StepVisitDecl
  <2>2. ASSUME NEW d \in cur, PushExport(d) \/ VisitPreviousDecl(d) \/ ReplacePrevious(d) PROVE CollectorInv'
    BY <2>2, StepPushExport, StepVisitPrevious, StepReplacePrevious
  <2>3. ASSUME ConvStep, UNCHANGED <<decls, cur, latest, exports>> PROVE CollectorInv'
    BY <2>3, StepFound, StepEnterQualified, StepResumeQualified, StepResumeUnqualified, StepResumeSugar,
       StepVisitLeaf, StepVisitComposite, StepCalls, StepResumePart, StepReturnComposite, StepUnconvertible
       DEF ConvStep
  <2> QED
    BY <1>2, <2>1, <2>2, <2>3 DEF CollStep
<1> QED
  BY <1>1, <1>2 DEF Next, Done

THEOREM AlwaysCollectorInv == Spec => []CollectorInv
<1>1. Init => CollectorInv
  BY InvInit
<1>2. CollectorInv /\ [Next]_collVars => CollectorInv'
  BY InvStep
<1> QED
  BY <1>1, <1>2, PTL DEF Spec

\* Two calls that make an object have different keys, because the container
\* refuses to start on a key it has: the recursion is bounded by the number of
\* clang types, whatever the types refer to.
THEOREM NeverReentered == Spec => []NoReentry
<1>1. CollectorInv => NoReentry
  BY DEF CollectorInv, Recorded, Active, NoReentry
<1> QED
  BY <1>1, AlwaysCollectorInv, PTL

-------------------------------------------------------------------------------
(* The objects. A program that runs a collector for one unit after the other *)
(* keeps the objects of the earlier ones: b is how many there were.          *)

\* o has entries, and the first of them is under a key of no sugar, or under
\* that of a form of sugar that has extended qualifiers.
Own(k) == Plain(k) \/ Blurred(k)
EnteredFirst(o) ==
  \E n \in 1 .. Len(types) :
    /\ types[n].autoffi = o /\ Own(types[n].clang)
    /\ \A m \in 1 .. Len(types) : types[m].autoffi = o => n <= m

\* The entries are of the objects made since then, and each of those has one of
\* its own.
EnteredSince(b) ==
  /\ b \in 0 .. Len(objs)
  /\ \A n \in 1 .. Len(types) : types[n].autoffi > b
  /\ \A o \in b + 1 .. Len(objs) : EnteredFirst(o)

\* What an object holds has an entry. A member is still NULL only while the call
\* that makes the object is active.
HasEntry(c) == \E n \in 1 .. Len(types) : types[n].autoffi = c
ActiveAt(o) == \E p \in 1 .. Len(stack) : stack[p].obj = o
Filled(o) == \A r \in 1 .. Len(objs[o].kids) : HasEntry(objs[o].kids[r]) \/ (objs[o].kids[r] = Null /\ ActiveAt(o))

Since(b) == EnteredSince(b) /\ \A o \in b + 1 .. Len(objs) : Filled(o)

\* What a step of the collector may do to the container and the objects: add an
\* object with an entry of its own, add at most an entry of an object that has
\* one, change the members of an object that has one, or mark entries.
NewObject ==
  \E k \in Keys : \E x :
    /\ Own(k)
    /\ objs' = Append(objs, x)
    /\ types' = Append(types, TypeRepr(k, Len(objs) + 1))

NewEntry ==
  /\ objs' = objs
  /\ \E k \in Keys : \E n \in 1 .. Len(types) : types' = push_back(k, types[n].autoffi)

NewMember ==
  /\ types' = types
  /\ \E n \in 1 .. Len(types) : \E ks : objs' = [objs EXCEPT ![types[n].autoffi].kids = ks]

Marked ==
  /\ objs' = objs
  /\ \E o : types' = replaceReprs(o)

\* What stands for a type is an object with an entry.
LEMMA StandsIsEntry ==
  ASSUME NEW qt, NEW o, Stands(qt, o)
  PROVE  \E n \in 1 .. Len(types) : types[n].autoffi = o
<1> SUFFICES ASSUME \A n \in 1 .. Len(types) : types[n].autoffi # o PROVE FALSE
  OBVIOUS
<1>1. \A q : ~ EntryOr({}, q, o)
  BY DEF EntryOr, Entry
<1> QED
  BY <1>1 DEF Stands

LEMMA ConvertsIsEntry ==
  ASSUME NEW t, NEW o, Converts(t, o)
  PROVE  \E n \in 1 .. Len(types) : types[n].autoffi = o
BY StandsIsEntry DEF Converts, Entry

\* An object that a call holds or returns has an entry.
LEMMA AnswerIsEntry ==
  ASSUME CollectorInv
  PROVE  /\ ret # Null => \E n \in 1 .. Len(types) : types[n].autoffi = ret
         /\ stack # << >> /\ Frame.obj # Null => \E n \in 1 .. Len(types) : types[n].autoffi = Frame.obj
<1>1. Typed /\ Chained /\ Recorded
  BY DEF CollectorInv
<1>2. ASSUME ret # Null PROVE \E n \in 1 .. Len(types) : types[n].autoffi = ret
  <2>1. PICK c : c = AskedAt(Len(stack))
    OBVIOUS
  <2>2. Means(c, ret)
    BY <1>1, <1>2, <2>1 DEF Chained
  <2> QED
    BY <2>2, StandsIsEntry, ConvertsIsEntry DEF Means, Entry
<1>3. ASSUME stack # << >>, Frame.obj # Null PROVE \E n \in 1 .. Len(types) : types[n].autoffi = Frame.obj
  <2>1. Len(stack) \in 1 .. Len(stack) /\ Frame = stack[Len(stack)]
    BY <1>1, <1>3, StackParts DEF Typed
  <2> QED
    BY <1>1, <1>3, <2>1 DEF Recorded, Active, Entry
<1> QED
  BY <1>2, <1>3

LEMMA EffectOfConversion ==
  ASSUME CollectorInv, ConvStep
  PROVE  UNCHANGED <<types, objs>> \/ NewObject \/ NewEntry \/ NewMember
<1>1. Typed /\ Chained /\ Len(types) \in Nat
  BY DEF CollectorInv, Typed
<1>2. CASE Found \/ EnterUnqualified \/ VisitSugar \/ ResumeSugar \/ VisitPart \/ ReturnComposite \/ Unconvertible
  BY <1>2 DEF Found, EnterUnqualified, VisitSugar, ResumeSugar, VisitPart, ReturnComposite, Unconvertible
<1>3. CASE EnterQualified
  <2>1. Frame.clang \in Keys /\ WellCalled(Frame) /\ Frame.qualified
    BY <1>3, OnTop DEF EnterQualified, Entered
  <2>3. Own(Frame.clang)
    BY <2>1 DEF WellCalled, Own, Plain
  <2>2. types' = Append(types, TypeRepr(Frame.clang, Len(objs) + 1))
    BY <1>3 DEF EnterQualified, push_back
  <2> QED
    BY <1>3, <2>1, <2>2, <2>3 DEF EnterQualified, NewObject
<1>4. CASE VisitLeaf \/ VisitComposite
  <2>1. stack # << >> /\ KindOf(Type) \in Leaves \union Composites /\ ~ Known(types, Frame.clang)
    BY <1>4 DEF VisitLeaf, VisitComposite, Entered
  <2>2. Frame.clang \in Keys /\ Frame.clang[1] = Type
    BY <1>1, <2>1, FrameTyped DEF Type
  <2>3. Own(Frame.clang)
    BY <2>1, <2>2 DEF Own, Plain, Leaves, Composites, Records
  <2>4. types' = Append(types, TypeRepr(Frame.clang, Len(objs) + 1))
    BY <1>4, <2>1 DEF VisitLeaf, VisitComposite, push_back
  <2>5. \E x : objs' = Append(objs, x)
    BY <1>4 DEF VisitLeaf, VisitComposite
  <2> QED
    BY <2>2, <2>3, <2>4, <2>5 DEF NewObject
<1>5. CASE ResumeUnqualified
  <2>1. Frame.clang \in Keys
    BY <1>1, <1>5, FrameTyped DEF ResumeUnqualified, Resumed
  <2>2. PICK n \in 1 .. Len(types) : types[n].autoffi = ret
    BY <1>5, AnswerIsEntry DEF ResumeUnqualified, Resumed
  <2> QED
    BY <1>5, <2>1, <2>2 DEF ResumeUnqualified, NewEntry
<1>6. CASE ResumeQualified \/ ResumePart
  <2>1. stack # << >> /\ ret # Null
    BY <1>6 DEF ResumeQualified, ResumePart, Resumed
  <2>2. Frame.obj # Null
    <3>2. Waiting(Frame)
      BY <2>1, OnTop
    <3>3. CASE ResumeQualified
      <4>1. Frame.fn = "VisitQualType" /\ Frame.qualified
        BY <3>3 DEF ResumeQualified, Resumed
      <4> QED
        BY <3>2, <4>1 DEF Waiting
    <3>4. CASE ResumePart
      <4>1. Frame.fn = "Visit" /\ KindOf(Frame.clang[1]) # "sugar"
        BY <3>4 DEF ResumePart, Resumed, Type, Composites, Records
      <4> QED
        BY <3>2, <4>1 DEF Waiting
    <3> QED
      BY <1>6, <3>3, <3>4
  <2>3. PICK n \in 1 .. Len(types) : types[n].autoffi = Frame.obj
    BY <2>1, <2>2, AnswerIsEntry
  <2>4. \E ks : objs' = [objs EXCEPT ![Frame.obj].kids = ks]
    BY <1>6 DEF ResumeQualified, ResumePart
  <2>5. types' = types
    BY <1>6 DEF ResumeQualified, ResumePart
  <2> QED
    BY <2>3, <2>4, <2>5 DEF NewMember
<1> QED
  BY <1>2, <1>3, <1>4, <1>5, <1>6 DEF ConvStep

\* The second conversion of a record gives what the first one gave.
LEMMA ReplacesNothing ==
  ASSUME CollectorInv, NEW d \in cur, ReplacePrevious(d)
  PROVE  objs' = objs
<1>1. /\ stack = << >> /\ ret # Null /\ latest # Null
      /\ objs' = ReplaceAll(objs, ret, latest)
  BY DEF ReplacePrevious, Converted
<1>2. Typed /\ Indexed /\ Visited /\ Means(RootCall(d), ret) /\ ret \in 1 .. Len(objs)
  BY <1>1, Resting DEF Null
<1>3. PICK o, t : o = ret /\ t = d.type[1]
  OBVIOUS
<1>4. d \in ast.decls
  BY <1>1, Resting
<1>5. d.kind = "record" /\ Converts(t, o) /\ Converts(t, latest) /\ KindOf(t) # "sugar"
  BY <1>1, <1>2, <1>3, <1>4, RootMeans DEF Visited, Redeclares
<1>6. latest = o
  BY <1>2, <1>5, OneConversion DEF Indexed
<1> QED
  BY <1>1, <1>2, <1>3, <1>6, ReplacedByItself

LEMMA EffectOfStep ==
  ASSUME CollectorInv, CollStep
  PROVE  ast' = ast /\ (UNCHANGED <<types, objs>> \/ NewObject \/ NewEntry \/ NewMember \/ Marked)
<1>1. ASSUME NEW d \in decls, SkipAlias(d) \/ VisitDecl(d) PROVE UNCHANGED <<ast, types, objs>>
  BY <1>1 DEF SkipAlias, VisitDecl, convVars
<1>2. ASSUME NEW d \in cur, PushExport(d) \/ VisitPreviousDecl(d) PROVE UNCHANGED <<ast, types, objs>>
  BY <1>2 DEF PushExport, VisitPreviousDecl
<1>3. ASSUME NEW d \in cur, ReplacePrevious(d) PROVE ast' = ast /\ Marked
  BY <1>3, ReplacesNothing DEF ReplacePrevious, Marked
<1>4. ASSUME ConvStep PROVE ast' = ast
  BY <1>4 DEF ConvStep, Found, EnterQualified, EnterUnqualified, ResumeQualified, ResumeUnqualified, VisitSugar,
     ResumeSugar, VisitLeaf, VisitComposite, VisitPart, ResumePart, ReturnComposite, Unconvertible
<1> QED
  BY <1>1, <1>2, <1>3, <1>4, EffectOfConversion DEF CollStep

\* The entries of the container, apart from whether they are dangling.
LEMMA EnteredIs ==
  ASSUME CollectorInv, NEW b \in Nat
  PROVE  EnteredSince(b) <=>
           /\ b <= Len(objs)
           /\ \A n \in 1 .. Len(types) : types[n].autoffi \in b + 1 .. Len(objs)
           /\ \A o \in b + 1 .. Len(objs) : EnteredFirst(o)
<1>1. Typed /\ Len(objs) \in Nat
  BY DEF CollectorInv, Typed
<1>2. \A n \in 1 .. Len(types) : types[n].autoffi \in 1 .. Len(objs)
  BY <1>1, EntryTyped
<1>3. \A n \in 1 .. Len(types) : types[n].autoffi > b <=> types[n].autoffi \in b + 1 .. Len(objs)
  BY <1>1, <1>2
<1> QED
  BY <1>1, <1>3 DEF EnteredSince

\* An object keeps its first entry.
LEMMA EnteredStays ==
  ASSUME ast' = ast, NEW t \in Nat, Len(types) = t, NEW u \in Nat, Len(types') = u, t <= u,
         \A n \in 1 .. t : types'[n].clang = types[n].clang /\ types'[n].autoffi = types[n].autoffi,
         NEW o, EnteredFirst(o)
  PROVE  EnteredFirst(o)'
<1>1. PICK n \in 1 .. t : /\ types[n].autoffi = o /\ Own(types[n].clang)
                          /\ \A m \in 1 .. t : types[m].autoffi = o => n <= m
  BY DEF EnteredFirst
<1>2. PICK k : k = types[n].clang
  OBVIOUS
<1>3. types'[n].autoffi = o /\ types'[n].clang = k /\ n \in 1 .. u
  BY <1>1, <1>2
<1>4. \A m \in 1 .. u : types'[m].autoffi = o => n <= m
  <2>1. SUFFICES ASSUME NEW m \in 1 .. u, types'[m].autoffi = o PROVE n <= m
    OBVIOUS
  <2>2. CASE m \in 1 .. t
    BY <1>1, <2>1, <2>2
  <2>3. CASE m \notin 1 .. t
    BY <2>3
  <2> QED
    BY <2>2, <2>3
<1>5. Own(k)'
  BY <1>1, <1>2, BlurredKept DEF Own, Plain, KindOf
<1>6. Own(types[n].clang)'
  BY <1>3, <1>5 DEF Own, Plain, Blurred
<1> QED
  BY <1>3, <1>4, <1>6 DEF EnteredFirst

LEMMA EnteredGrows ==
  ASSUME NEW b \in Nat, NEW m \in Nat, Len(objs) = m, ast' = ast, EnteredSince(b),
         NEW t \in Nat, Len(types) = t, NEW u \in Nat, Len(types') = u, t <= u,
         \A n \in 1 .. t : types'[n].clang = types[n].clang /\ types'[n].autoffi = types[n].autoffi,
         \A n \in 1 .. u : types'[n].autoffi > b,
         Len(objs') = m
  PROVE  EnteredSince(b)'
<1>1. b \in 0 .. m /\ \A o \in b + 1 .. m : EnteredFirst(o)
  BY DEF EnteredSince
<1>2. \A o \in b + 1 .. m : EnteredFirst(o)'
  BY <1>1, EnteredStays
<1> QED
  BY <1>1, <1>2 DEF EnteredSince

\* Old objects stay as they are, and new ones get an entry.
LEMMA EnteredStep ==
  ASSUME CollectorInv, CollStep, NEW b \in Nat, EnteredSince(b)
  PROVE  /\ EnteredSince(b)'
         /\ Len(objs) <= Len(objs')
         /\ \A o \in 1 .. b : objs'[o] = objs[o]
<1>1. PICK m, t : m = Len(objs) /\ t = Len(types)
  OBVIOUS
<1>2. Typed /\ m \in Nat /\ t \in Nat
  BY <1>1 DEF CollectorInv, Typed
<1>3. /\ b <= m
      /\ \A n \in 1 .. t : types[n].autoffi \in b + 1 .. m
      /\ \A o \in b + 1 .. m : EnteredFirst(o)
  BY <1>1, EnteredIs
<1>4. ast' = ast
  BY EffectOfStep
<1>5. CASE UNCHANGED <<types, objs>>
  <2>1. t <= t /\ \A n \in 1 .. t : types'[n].autoffi > b
    BY <1>2, <1>3, <1>5
  <2>2. EnteredSince(b)'
    BY <1>1, <1>2, <1>4, <1>5, <2>1, EnteredGrows
  <2> QED
    BY <1>1, <1>2, <1>3, <1>5, <2>2
<1>6. CASE NewObject
  <2>1. PICK k \in Keys : \E x : /\ Own(k)
                                 /\ objs' = Append(objs, x)
                                 /\ types' = Append(types, TypeRepr(k, Len(objs) + 1))
    BY <1>6 DEF NewObject
  <2>2. Len(objs') = m + 1 /\ \A o \in 1 .. m : objs'[o] = objs[o]
    BY <1>1, <1>2, <2>1 DEF Typed
  <2>3. /\ Len(types') = t + 1
        /\ \A n \in 1 .. t : types'[n] = types[n]
        /\ types'[t + 1] = TypeRepr(k, m + 1)
    BY <1>1, <1>2, <2>1 DEF Typed
  <2>4. types'[t + 1].clang = k /\ types'[t + 1].autoffi = m + 1
    BY <2>3 DEF TypeRepr
  <2>5. \A n \in 1 .. t + 1 : types'[n].autoffi > b
    BY <1>2, <1>3, <2>3, <2>4
  <2>6. ASSUME NEW o \in b + 1 .. m + 1 PROVE EnteredFirst(o)'
    <3>1. CASE o = m + 1
      <4>1. t + 1 \in 1 .. t + 1
        BY <1>2
      <4>2. \A n \in 1 .. t + 1 : types'[n].autoffi = o => t + 1 <= n
        <5>1. \A n \in 1 .. t : types[n].autoffi # o
          BY <1>2, <1>3, <3>1
        <5>2. \A n \in 1 .. t + 1 : n \in 1 .. t \/ n = t + 1
          BY <1>2
        <5>3. t + 1 <= t + 1
          BY <1>2
        <5> QED
          BY <2>3, <5>1, <5>2, <5>3
      <4>3. Own(k)'
        BY <1>4, <2>1, BlurredKept DEF Own, Plain, KindOf
      <4>4. Own(types[t + 1].clang)'
        BY <2>4, <4>3 DEF Own, Plain, Blurred
      <4> QED
        BY <2>3, <2>4, <3>1, <4>1, <4>2, <4>4 DEF EnteredFirst
    <3>2. CASE o # m + 1
      <4>1. o \in b + 1 .. m
        BY <1>2, <3>2
      <4>2. t + 1 \in Nat /\ t <= t + 1
        BY <1>2
      <4> QED
        BY <1>1, <1>2, <1>3, <1>4, <2>3, <4>1, <4>2, EnteredStays
    <3> QED
      BY <3>1, <3>2
  <2>7. EnteredSince(b)'
    <3>1. b \in 0 .. Len(objs')
      BY <1>2, <1>3, <2>2
    <3> QED
      BY <2>2, <2>3, <2>5, <2>6, <3>1 DEF EnteredSince
  <2>8. m <= m + 1 /\ \A o \in 1 .. b : o \in 1 .. m
    BY <1>2, <1>3
  <2> QED
    BY <1>1, <2>2, <2>7, <2>8
<1>7. CASE NewEntry
  <2>1. PICK k \in Keys : \E n \in 1 .. Len(types) : types' = push_back(k, types[n].autoffi)
    BY <1>7 DEF NewEntry
  <2>2. PICK i \in 1 .. t : types' = push_back(k, types[i].autoffi)
    BY <1>1, <2>1
  <2>3. objs' = objs
    BY <1>7 DEF NewEntry
  <2>4. CASE Known(types, k)
    <3>1. types' = types
      BY <2>2, <2>4 DEF push_back
    <3>2. t <= t /\ \A n \in 1 .. t : types'[n].autoffi > b
      BY <1>2, <1>3, <3>1
    <3>3. EnteredSince(b)'
      BY <1>1, <1>2, <1>4, <2>3, <3>1, <3>2, EnteredGrows
    <3> QED
      BY <1>1, <1>2, <2>3, <3>3
  <2>5. CASE ~ Known(types, k)
    <3>1. types' = Append(types, TypeRepr(k, types[i].autoffi))
      BY <2>2, <2>5 DEF push_back
    <3>2. /\ Len(types') = t + 1
          /\ \A n \in 1 .. t : types'[n] = types[n]
          /\ types'[t + 1] = TypeRepr(k, types[i].autoffi)
      BY <1>1, <1>2, <3>1 DEF Typed
    <3>3. types'[t + 1].autoffi = types[i].autoffi
      BY <3>2 DEF TypeRepr
    <3>4. \A n \in 1 .. t + 1 : types'[n].autoffi > b
      <4>1. types[i].autoffi > b /\ \A n \in 1 .. t : types[n].autoffi > b
        BY <1>2, <1>3
      <4>2. ASSUME NEW n \in 1 .. t + 1 PROVE types'[n].autoffi > b
        <5>1. n \in 1 .. t \/ n = t + 1
          BY <1>2
        <5> QED
          BY <3>2, <3>3, <4>1, <5>1
      <4> QED
        BY <4>2
    <3>5. EnteredSince(b)'
      <4>1. t + 1 \in Nat /\ t <= t + 1
        BY <1>2
      <4> QED
        BY <1>1, <1>2, <1>4, <2>3, <3>2, <3>4, <4>1, EnteredGrows
    <3> QED
      BY <1>1, <1>2, <2>3, <3>5
  <2> QED
    BY <2>4, <2>5
<1>8. CASE NewMember
  <2>1. PICK i \in 1 .. t : \E ks : objs' = [objs EXCEPT ![types[i].autoffi].kids = ks]
    BY <1>1, <1>8 DEF NewMember
  <2>2. types' = types
    BY <1>8 DEF NewMember
  <2>3. PICK x : x = types[i].autoffi
    OBVIOUS
  <2>4. x \in b + 1 .. m /\ \E ks : objs' = [objs EXCEPT ![x].kids = ks]
    BY <1>3, <2>1, <2>3
  <2>5. Len(objs') = m /\ \A o \in 1 .. m : o # x => objs'[o] = objs[o]
    BY <1>1, <1>2, <2>4 DEF Typed
  <2>6. \A o \in 1 .. b : o \in 1 .. m /\ o # x
    BY <1>2, <1>3, <2>4
  <2>7. t <= t /\ \A n \in 1 .. t : types'[n].autoffi > b
    BY <1>2, <1>3, <2>2
  <2>8. EnteredSince(b)'
    BY <1>1, <1>2, <1>4, <2>2, <2>5, <2>7, EnteredGrows
  <2> QED
    BY <1>1, <1>2, <2>5, <2>6, <2>8
<1>9. CASE Marked
  <2>1. PICK x : types' = replaceReprs(x)
    BY <1>9 DEF Marked
  <2>2. objs' = objs
    BY <1>9 DEF Marked
  <2>3. Len(types') = t
    BY <1>1, <1>2, <2>1 DEF replaceReprs
  <2>4. \A n \in 1 .. t : types'[n].clang = types[n].clang /\ types'[n].autoffi = types[n].autoffi
    <3>1. SUFFICES ASSUME NEW n \in 1 .. t
                   PROVE  types'[n].clang = types[n].clang /\ types'[n].autoffi = types[n].autoffi
      OBVIOUS
    <3>2. types[n] \in ReprSet(Len(objs))
      BY <1>1, <1>2, EntryTyped
    <3>3. types'[n] = IF types[n].autoffi = x THEN [types[n] EXCEPT !.dangling = TRUE]
                      ELSE TypeRepr(types[n].clang, types[n].autoffi)
      BY <1>1, <2>1 DEF replaceReprs
    <3> QED
      BY <3>2, <3>3 DEF TypeRepr, ReprSet
  <2>5. t <= t /\ \A n \in 1 .. t : types'[n].autoffi > b
    BY <1>2, <1>3, <2>4
  <2>6. EnteredSince(b)'
    BY <1>1, <1>2, <1>4, <2>2, <2>3, <2>4, <2>5, EnteredGrows
  <2> QED
    BY <1>1, <1>2, <2>2, <2>6
<1> QED
  BY <1>5, <1>6, <1>7, <1>8, <1>9, EffectOfStep

\* The objects that were entered stay so.
LEMMA EntriesStay ==
  ASSUME CollectorInv, CollStep, NEW c, HasEntry(c)
  PROVE  HasEntry(c)'
<1>1. PICK t : t = Len(types)
  OBVIOUS
<1>2. Typed /\ t \in Nat
  BY <1>1 DEF CollectorInv, Typed
<1>3. PICK n \in 1 .. t : types[n].autoffi = c
  BY <1>1 DEF HasEntry
<1>4. HasEntry(c)'
  <2>1. CASE UNCHANGED <<types, objs>> \/ NewMember
    BY <1>1, <1>2, <1>3, <2>1 DEF NewMember, HasEntry
  <2>2. CASE Marked
    <3>1. PICK x : types' = replaceReprs(x)
      BY <2>2 DEF Marked
    <3>2. Len(types') = t
      BY <1>1, <1>2, <3>1 DEF replaceReprs
    <3>3. types[n] \in ReprSet(Len(objs))
      BY <1>1, <1>2, EntryTyped
    <3>4. types'[n] = IF types[n].autoffi = x THEN [types[n] EXCEPT !.dangling = TRUE]
                      ELSE TypeRepr(types[n].clang, types[n].autoffi)
      BY <1>1, <3>1 DEF replaceReprs
    <3>5. types'[n].autoffi = c
      BY <1>3, <3>3, <3>4 DEF TypeRepr, ReprSet
    <3> QED
      BY <1>3, <3>2, <3>5 DEF HasEntry
  <2>3. CASE NewObject \/ NewEntry
    <3>1. types' = types \/ \E x : types' = Append(types, x)
      BY <2>3 DEF NewObject, NewEntry, push_back
    <3>2. n \in 1 .. Len(types') /\ types'[n] = types[n]
      <4>1. CASE types' = types
        BY <1>1, <4>1
      <4>2. CASE \E x : types' = Append(types, x)
        <5>1. PICK x : types' = Append(types, x)
          BY <4>2
        <5>2. Len(types') = t + 1 /\ types'[n] = types[n]
          BY <1>1, <1>2, <5>1 DEF Typed
        <5> QED
          BY <1>2, <5>2
      <4> QED
        BY <3>1, <4>1, <4>2
    <3> QED
      BY <1>3, <3>2 DEF HasEntry
  <2> QED
    BY <2>1, <2>2, <2>3, EffectOfStep
<1> QED
  BY <1>4

\* An object whose members stay, and whose call stays active if a member is NULL.
LEMMA FilledKept ==
  ASSUME CollectorInv, CollStep, NEW o, Filled(o), objs'[o] = objs[o], ActiveAt(o) => ActiveAt(o)'
  PROVE  Filled(o)'
<1>1. SUFFICES ASSUME NEW r \in 1 .. Len(objs[o].kids)
               PROVE  HasEntry(objs[o].kids[r])' \/ (objs[o].kids[r] = Null /\ ActiveAt(o)')
  <2>1. PICK ks : ks = objs[o].kids /\ ks = objs'[o].kids
    OBVIOUS
  <2>2. \A r \in 1 .. Len(ks) : HasEntry(ks[r])' \/ (ks[r] = Null /\ ActiveAt(o)')
    BY <1>1, <2>1 DEF HasEntry
  <2> QED
    BY <2>1, <2>2 DEF Filled, HasEntry
<1>2. PICK c : c = objs[o].kids[r]
  OBVIOUS
<1>3. HasEntry(c) \/ (c = Null /\ ActiveAt(o))
  BY <1>2 DEF Filled
<1>4. HasEntry(c)' \/ (c = Null /\ ActiveAt(o)')
  BY <1>3, EntriesStay
<1> QED
  BY <1>2, <1>4 DEF HasEntry

\* The calls below the top stay, with the objects that they make.
LEMMA ActiveStays ==
  ASSUME Typed, stack # << >>, NEW o, Frame.obj # o, NEW l \in Nat, Len(stack') = l,
         \A p \in 1 .. Len(stack) - 1 : p <= l /\ stack'[p] = stack[p], ActiveAt(o)
  PROVE  ActiveAt(o)'
<1>1. PICK m : m = Len(stack)
  OBVIOUS
<1>2. m \in Nat /\ Frame = stack[m]
  BY <1>1, StackParts DEF Typed
<1>3. PICK p \in 1 .. m : stack[p].obj = o
  BY <1>1 DEF ActiveAt
<1>4. p \in 1 .. m - 1
  BY <1>2, <1>3
<1>5. p \in 1 .. l /\ stack'[p].obj = o
  BY <1>1, <1>3, <1>4
<1> QED
  BY <1>5 DEF ActiveAt

LEMMA ActivePopped ==
  ASSUME Typed, stack # << >>, NEW o, Frame.obj # o, stack' = Popped, ActiveAt(o)
  PROVE  ActiveAt(o)'
<1>1. /\ Len(stack) \in Nat /\ Len(stack) > 0 /\ Len(stack') = Len(stack) - 1
      /\ \A p \in 1 .. Len(stack) - 1 : stack'[p] = stack[p]
  BY StackParts DEF Typed
<1>2. Len(stack') \in Nat /\ \A p \in 1 .. Len(stack) - 1 : p <= Len(stack')
  BY <1>1
<1> QED
  BY <1>1, <1>2, ActiveStays

LEMMA ActivePushed ==
  ASSUME Typed, stack # << >>, NEW o, NEW c, stack' = Append(stack, c), ActiveAt(o)
  PROVE  ActiveAt(o)'
<1>1. PICK m : m = Len(stack)
  OBVIOUS
<1>2. m \in Nat /\ Len(stack') = m + 1 /\ \A p \in 1 .. m : stack'[p] = stack[p]
  BY <1>1 DEF Typed
<1>3. PICK p \in 1 .. m : stack[p].obj = o
  BY <1>1 DEF ActiveAt
<1>4. p \in 1 .. m + 1 /\ stack'[p].obj = o
  BY <1>2, <1>3
<1> QED
  BY <1>2, <1>4 DEF ActiveAt

\* A new object waits for its members, in the call on top or in the one below.
LEMMA FilledNew ==
  ASSUME CollectorInv, EnterQualified \/ VisitComposite, NEW o, o = Len(objs) + 1
  PROVE  /\ \A x \in 1 .. Len(objs) : objs'[x] = objs[x] /\ (ActiveAt(x) => ActiveAt(x)')
         /\ Filled(o)'
<1>1. /\ stack # << >> /\ Frame.obj = Null /\ ast' = ast
      /\ VisitComposite => KindOf(Type) \in Composites
  BY DEF EnterQualified, VisitComposite, Entered
<1>2. Typed /\ Len(objs) \in Nat
  BY DEF CollectorInv, Typed
<1>3. PICK f, m : f = [Frame EXCEPT !.obj = o] /\ m = Len(stack)
  OBVIOUS
<1>4. f.obj = o
  <2>1. Frame \in FrameSet(Len(objs))
    BY <1>1, <1>2, FrameTyped
  <2> QED
    BY <1>2, <1>3, <2>1, ObjSet
<1>5. PICK w : w = WithTop(f)
  OBVIOUS
<1>6. m \in Nat /\ m \in 1 .. m /\ Len(w) = m /\ w[m] = f /\ \A p \in 1 .. m - 1 : w[p] = stack[p]
  BY <1>1, <1>2, <1>3, <1>5, TopSet
<1>7. \E l \in Nat : Len(stack') = l /\ m <= l /\ \A p \in 1 .. m : stack'[p] = w[p]
  <2>1. CASE VisitComposite
    <3>1. stack' = w
      BY <1>3, <1>5, <2>1 DEF VisitComposite
    <3> QED
      BY <1>6, <3>1
  <2>2. CASE EnterQualified
    <3>1. PICK c : c = Visit(Type)
      OBVIOUS
    <3>2. stack' = Append(w, c)
      BY <1>3, <1>5, <2>2, <3>1 DEF EnterQualified
    <3>3. w \in Seq(FrameSet(Len(objs) + 1))
      <4>1. Len(objs) + 1 \in Nat /\ Len(objs) <= Len(objs) + 1 /\ o \in 0 .. Len(objs) + 1
        BY <1>2, <1>3
      <4>2. stack \in Seq(FrameSet(Len(objs) + 1))
        BY <1>2, <4>1, SetsGrow DEF Typed
      <4>3. f \in FrameSet(Len(objs) + 1)
        BY <1>1, <1>2, <1>3, <4>1, FrameTyped, FrameChanged
      <4> QED
        BY <1>1, <1>5, <4>2, <4>3, WithTopParts
    <3>4. Len(stack') = m + 1 /\ \A p \in 1 .. m : stack'[p] = w[p]
      BY <1>6, <3>2, <3>3
    <3> QED
      BY <1>6, <3>4
  <2> QED
    BY <2>1, <2>2
<1>8. PICK l \in Nat : Len(stack') = l /\ m <= l /\ \A p \in 1 .. m : stack'[p] = w[p]
  BY <1>7
<1>9. ActiveAt(o)'
  <2>1. m \in 1 .. l /\ stack'[m].obj = o
    BY <1>4, <1>6, <1>8
  <2> QED
    BY <1>8, <2>1 DEF ActiveAt
<1>10. PICK kind \in Leaves \union Composites \union {"qualified"}, ks \in {<< >>, <<Null>>} :
         objs' = Append(objs, [kind |-> kind, kids |-> ks])
  <2>1. CASE EnterQualified
    <3>1. objs' = Append(objs, [kind |-> "qualified", kids |-> <<Null>>])
      BY <2>1 DEF EnterQualified
    <3> QED
      BY <3>1
  <2>2. CASE VisitComposite
    <3>1. /\ objs' = Append(objs, [kind |-> KindOf(Type), kids |-> NewKids(KindOf(Type))])
          /\ KindOf(Type) \in Composites
      BY <1>1, <2>2 DEF VisitComposite
    <3>2. NewKids(KindOf(Type)) \in {<< >>, <<Null>>}
      BY DEF NewKids
    <3> QED
      BY <3>1, <3>2
  <2> QED
    BY <2>1, <2>2
<1>11. /\ \A x \in 1 .. Len(objs) : objs'[x] = objs[x]
       /\ objs'[o] = [kind |-> kind, kids |-> ks]
  <2>1. << >> \in Seq(0 .. Len(objs) + 1) /\ <<0>> \in Seq(0 .. Len(objs) + 1)
    BY <1>2
  <2>2. ks \in Seq(0 .. Len(objs) + 1)
    BY <2>1 DEF Null
  <2> QED
    BY <1>2, <1>3, <1>10, <2>2, ObjectAdded
<1>12. Filled(o)'
  <2>1. \A r \in 1 .. Len(ks) : ks[r] = Null
    OBVIOUS
  <2>2. objs'[o].kids = ks
    BY <1>11
  <2> QED
    BY <1>9, <2>1, <2>2 DEF Filled
<1>13. \A x \in 1 .. Len(objs) : ActiveAt(x) => ActiveAt(x)'
  <2>1. \A p \in 1 .. m - 1 : p <= l /\ stack'[p] = stack[p]
    BY <1>6, <1>8
  <2>2. \A x \in 1 .. Len(objs) : x # Frame.obj
    BY <1>1, <1>2 DEF Null
  <2> QED
    BY <1>1, <1>2, <1>3, <1>8, <2>1, <2>2, ActiveStays
<1> QED
  BY <1>3, <1>11, <1>12, <1>13

\* The parts of a type take the place of NULL one by one.
LEMMA FilledPart ==
  ASSUME CollectorInv, ResumePart, CollStep, NEW o, o = Frame.obj
  PROVE  /\ o \in 1 .. Len(objs) /\ (Filled(o) => Filled(o)')
         /\ \A x \in 1 .. Len(objs) : x # o => objs'[x] = objs[x] /\ (ActiveAt(x) => ActiveAt(x)')
<1>1. stack # << >> /\ ret # Null /\ Frame.fn = "Visit" /\ KindOf(Type) \in Composites
  BY DEF ResumePart, Resumed
<1>2. Typed /\ Len(objs) \in Nat
  BY DEF CollectorInv, Typed
<1>3. PICK f, t, g, r, m :
        f = [Frame EXCEPT !.got = @ + 1] /\ t = Type /\ g = Frame.got /\ r = ret /\ m = Len(stack)
  OBVIOUS
<1>4. /\ o \in 1 .. Len(objs) /\ g \in Nat /\ r \in 0 .. Len(objs) /\ Built(Frame) /\ Frame.clang[1] = t
  <2>1. /\ Waiting(Frame) /\ r \in 1 .. Len(objs) /\ Frame.clang[1] = t
        /\ Frame.obj # Null => Built(Frame)
        /\ o \in 0 .. Len(objs) /\ g \in Nat
    BY <1>1, <1>3, OnTop
  <2>2. o # Null
    BY <1>1, <1>3, <2>1 DEF Waiting, Composites, Records
  <2> QED
    BY <1>2, <1>3, <2>1, <2>2 DEF Null
<1>5. f.obj = o
  <2>1. Frame \in FrameSet(Len(objs))
    BY <1>1, <1>2, FrameTyped
  <2> QED
    BY <1>2, <1>3, <2>1, ObjSet
<1>6. PICK ks, new : /\ ks = objs[o].kids
                     /\ new = IF g < Len(ks) THEN [ks EXCEPT ![g + 1] = r] ELSE Append(ks, r)
  OBVIOUS
<1>7. stack' = WithTop(f) /\ objs' = [objs EXCEPT ![o].kids = new]
  BY <1>3, <1>6 DEF ResumePart
<1>8. ks \in Seq(0 .. Len(objs)) /\ new \in Seq(0 .. Len(objs))
  <2>1. objs[o] \in ObjectSet(Len(objs))
    BY <1>2, <1>4 DEF Typed
  <2>2. ks \in Seq(0 .. Len(objs))
    BY <1>6, <2>1 DEF ObjectSet
  <2> QED
    BY <1>2, <1>4, <1>6, <2>2, PartTaken
<1>9. /\ \A x \in 1 .. Len(objs) : x # o => objs'[x] = objs[x]
      /\ objs'[o].kids = new
  <2>1. o \in 0 .. Len(objs) /\ o # 0
    BY <1>2, <1>4
  <2> QED
    BY <1>2, <1>7, <1>8, <2>1, KidsChanged
<1>10. m \in Nat /\ m \in 1 .. m /\ Len(stack') = m /\ stack'[m] = f /\ \A p \in 1 .. m - 1 : stack'[p] = stack[p]
  BY <1>1, <1>2, <1>3, <1>7, TopSet
<1>11. ActiveAt(o)'
  <2>1. m \in 1 .. Len(stack') /\ stack'[m].obj = o
    BY <1>5, <1>10
  <2> QED
    BY <2>1 DEF ActiveAt
<1>12. /\ Len(new) = g + 1 /\ new[g + 1] = r
       /\ \A n \in 1 .. g : new[n] = ks[n]
       /\ g <= Len(ks)
  <2>1. Len(ks) = IF g = 0 /\ KindOf(t) \notin Records THEN 1 ELSE g
    BY <1>1, <1>3, <1>4, <1>6 DEF Built
  <2>2. Len(ks) = g \/ (g = 0 /\ Len(ks) = 1)
    BY <2>1
  <2>3. Len(new) = g + 1 /\ new[g + 1] = r /\ \A n \in 1 .. g : new[n] = ks[n]
    BY <1>2, <1>4, <1>6, <1>8, <2>2, PartBuilt
  <2> QED
    BY <1>4, <2>2, <2>3
<1>13. ASSUME Filled(o) PROVE Filled(o)'
  <2>1. SUFFICES ASSUME NEW n \in 1 .. g + 1 PROVE HasEntry(new[n])' \/ (new[n] = Null /\ ActiveAt(o)')
    BY <1>9, <1>12 DEF Filled, HasEntry
  <2>2. PICK c : c = new[n]
    OBVIOUS
  <2>3. HasEntry(c)' \/ (c = Null /\ ActiveAt(o)')
    <3>1. CASE n = g + 1
      <4>1. HasEntry(r)
        BY <1>1, <1>3, AnswerIsEntry DEF HasEntry
      <4> QED
        BY <1>12, <2>2, <3>1, <4>1, EntriesStay
    <3>2. CASE n # g + 1
      <4>1. n \in 1 .. g /\ n \in 1 .. Len(ks)
        BY <1>4, <1>8, <1>12, <3>2
      <4>2. c = ks[n]
        BY <1>12, <2>2, <4>1
      <4>3. HasEntry(c) \/ c = Null
        BY <1>6, <1>13, <4>1, <4>2 DEF Filled
      <4> QED
        BY <1>11, <4>3, EntriesStay
    <3> QED
      BY <3>1, <3>2
  <2> QED
    BY <2>2, <2>3 DEF HasEntry
<1>14. ASSUME NEW x \in 1 .. Len(objs), x # o PROVE ActiveAt(x) => ActiveAt(x)'
  <2>1. \A p \in 1 .. Len(stack) - 1 : p <= m /\ stack'[p] = stack[p]
    BY <1>3, <1>10
  <2> QED
    BY <1>1, <1>2, <1>3, <1>10, <1>14, <2>1, ActiveStays
<1> QED
  BY <1>4, <1>9, <1>13, <1>14

\* An object that is returned has its members.
LEMMA FilledReturn ==
  ASSUME CollectorInv, ResumeQualified \/ ReturnComposite, CollStep, NEW o, o = Frame.obj
  PROVE  /\ o \in 1 .. Len(objs) /\ Filled(o)'
         /\ \A x \in 1 .. Len(objs) : x # o => objs'[x] = objs[x] /\ (ActiveAt(x) => ActiveAt(x)')
<1>1. stack # << >> /\ stack' = Popped
  BY DEF ResumeQualified, ReturnComposite, Resumed, Looping, Return
<1>2. Typed /\ Len(objs) \in Nat
  BY DEF CollectorInv, Typed
<1>3. PICK t : t = Type
  OBVIOUS
<1>4. \A x \in 1 .. Len(objs) : x # o /\ ActiveAt(x) => ActiveAt(x)'
  BY <1>1, <1>2, <1>3, ActivePopped
<1>5. CASE ResumeQualified
  <2>1. ret # Null /\ Frame.fn = "VisitQualType" /\ Frame.qualified
    BY <1>5 DEF ResumeQualified, Resumed
  <2>2. o \in 1 .. Len(objs) /\ ret \in 1 .. Len(objs)
    <3>1. Waiting(Frame) /\ ret \in 1 .. Len(objs) /\ o \in 0 .. Len(objs)
      BY <1>1, <1>3, <2>1, OnTop
    <3>2. o # Null
      BY <1>3, <2>1, <3>1 DEF Waiting
    <3> QED
      BY <1>2, <3>1, <3>2 DEF Null
  <2>3. PICK c : c = ret
    OBVIOUS
  <2>4. objs' = [objs EXCEPT ![o].kids = <<c>>]
    BY <1>3, <1>5, <2>3 DEF ResumeQualified
  <2>5. objs'[o].kids = <<c>> /\ \A x \in 1 .. Len(objs) : x # o => objs'[x] = objs[x]
    <3>1. o \in 0 .. Len(objs) /\ o # 0 /\ c \in 0 .. Len(objs)
      BY <1>2, <2>2, <2>3
    <3>2. <<c>> \in Seq(0 .. Len(objs))
      BY <3>1
    <3> QED
      BY <1>2, <2>4, <3>1, <3>2, KidsChanged
  <2>6. HasEntry(c)'
    BY <2>1, <2>3, AnswerIsEntry, EntriesStay DEF HasEntry
  <2>7. Filled(o)'
    <3>1. \A r \in 1 .. Len(<<c>>) : <<c>>[r] = c
      OBVIOUS
    <3> QED
      BY <2>5, <2>6, <3>1 DEF Filled, HasEntry
  <2> QED
    BY <1>3, <1>4, <2>2, <2>5, <2>7
<1>6. CASE ReturnComposite
  <2>1. ret = Null /\ Frame.fn = "Visit" /\ o # Null /\ Frame.got = Len(PartsOf(t)) /\ objs' = objs
    BY <1>3, <1>6 DEF ReturnComposite, Looping
  <2>2. /\ Ready(Frame) /\ Built(Frame) /\ Frame.clang[1] = t /\ t \in ClangTypes /\ o \in 1 .. Len(objs)
    <3>1. /\ Ready(Frame) /\ Built(Frame) /\ Frame.clang[1] = t /\ t \in ClangTypes /\ o \in 0 .. Len(objs)
      BY <1>1, <1>3, <2>1, OnTop
    <3> QED
      BY <1>2, <1>3, <2>1, <3>1 DEF Null
  <2>3. KindOf(t) \in Composites
    BY <2>1, <2>2 DEF Ready
  <2>4. Len(PartsOf(t)) \in Nat /\ (KindOf(t) \notin Records => Len(PartsOf(t)) # 0)
    BY <1>2, <2>2, <2>3, PartsTyped DEF Composites, Records
  <2>5. /\ Len(objs[o].kids) = Len(PartsOf(t))
        /\ \A n \in 1 .. Len(PartsOf(t)) : Stands(PartsOf(t)[n], objs[o].kids[n])
    <3>1. /\ Len(objs[o].kids) = IF Frame.got = 0 /\ KindOf(t) \notin Records THEN 1 ELSE Frame.got
          /\ \A n \in 1 .. Frame.got : Stands(PartsOf(t)[n], objs[o].kids[n])
      BY <2>1, <2>2 DEF Built
    <3> QED
      BY <2>1, <2>4, <3>1
  <2>6. ASSUME NEW r \in 1 .. Len(objs[o].kids) PROVE HasEntry(objs[o].kids[r])'
    <3>1. PICK c : c = objs[o].kids[r]
      OBVIOUS
    <3>2. HasEntry(c)
      BY <2>5, <2>6, <3>1, StandsIsEntry DEF HasEntry
    <3>3. HasEntry(c)'
      BY <3>2, EntriesStay
    <3> QED
      BY <2>1, <3>1, <3>3 DEF HasEntry
  <2>7. Filled(o)'
    BY <2>1, <2>6 DEF Filled, HasEntry
  <2> QED
    BY <1>3, <1>4, <2>1, <2>2, <2>7
<1> QED
  BY <1>5, <1>6

LEMMA FilledStep ==
  ASSUME CollectorInv, CollStep, NEW b \in Nat, Since(b)
  PROVE  \A o \in b + 1 .. Len(objs') : Filled(o)'
<1>1. PICK m : m = Len(objs)
  OBVIOUS
<1>2. Typed /\ m \in Nat /\ \A o \in b + 1 .. m : o \in 1 .. m /\ Filled(o)
  BY <1>1 DEF CollectorInv, Typed, Since
<1>3. ASSUME Len(objs') = m, \A o \in 1 .. m : objs'[o] = objs[o] /\ (ActiveAt(o) => ActiveAt(o)')
      PROVE  \A o \in b + 1 .. Len(objs') : Filled(o)'
  BY <1>2, <1>3, FilledKept
<1>4. ASSUME objs' = objs, \A o \in 1 .. m : ActiveAt(o) => ActiveAt(o)'
      PROVE  \A o \in b + 1 .. Len(objs') : Filled(o)'
  BY <1>1, <1>3, <1>4
<1>5. CASE \/ \E d \in decls : SkipAlias(d) \/ VisitDecl(d)
           \/ \E d \in cur : PushExport(d) \/ VisitPreviousDecl(d) \/ ReplacePrevious(d)
  <2>1. objs' = objs
    BY <1>5, ReplacesNothing DEF SkipAlias, VisitDecl, convVars, PushExport, VisitPreviousDecl
  <2>2. stack = << >> \/ stack' = stack
    <3>1. ASSUME NEW d \in decls, SkipAlias(d) \/ VisitDecl(d) PROVE stack = << >>
      BY <3>1 DEF SkipAlias, VisitDecl, CollectorInv, Visited
    <3>2. ASSUME NEW d \in cur, PushExport(d) \/ VisitPreviousDecl(d) \/ ReplacePrevious(d) PROVE stack = << >>
      BY <3>2 DEF PushExport, VisitPreviousDecl, ReplacePrevious, Converted
    <3> QED
      BY <1>5, <3>1, <3>2
  <2>3. \A o : ActiveAt(o) => ActiveAt(o)'
    BY <2>2 DEF ActiveAt
  <2> QED
    BY <1>4, <2>1, <2>3
<1>6. CASE EnterUnqualified \/ VisitSugar \/ VisitPart \/ Unconvertible
  <2>1. /\ stack # << >> /\ objs' = objs
        /\ stack' = stack \/ \E c : stack' = Append(stack, c)
    BY <1>6 DEF EnterUnqualified, VisitSugar, VisitPart, Unconvertible, Entered, Looping
  <2>2. \A o \in 1 .. m : ActiveAt(o) => ActiveAt(o)'
    BY <1>2, <2>1, ActivePushed DEF ActiveAt
  <2> QED
    BY <1>4, <2>1, <2>2
<1>7. CASE Found \/ ResumeUnqualified \/ ResumeSugar
  <2>1. stack # << >> /\ objs' = objs /\ stack' = Popped
    BY <1>7 DEF Found, ResumeUnqualified, ResumeSugar, Resumed, Return
  <2>2. Frame.obj = Null
    <3>1. CASE Found
      BY <3>1 DEF Found
    <3>2. CASE ResumeUnqualified \/ ResumeSugar
      <4>1. ret # Null /\ (ResumeUnqualified => Frame.fn = "VisitQualType" /\ ~ Frame.qualified)
            /\ (ResumeSugar => Frame.fn = "Visit" /\ KindOf(Type) = "sugar")
        BY <3>2 DEF ResumeUnqualified, ResumeSugar, Resumed
      <4>2. Waiting(Frame) /\ Type = Frame.clang[1]
        BY <2>1, <4>1, OnTop
      <4> QED
        BY <3>2, <4>1, <4>2 DEF Waiting, Composites, Records
    <3> QED
      BY <1>7, <3>1, <3>2
  <2>3. \A o \in 1 .. m : o # Frame.obj
    BY <1>2, <2>2 DEF Null
  <2>4. \A o \in 1 .. m : ActiveAt(o) => ActiveAt(o)'
    BY <1>2, <2>1, <2>3, ActivePopped
  <2> QED
    BY <1>4, <2>1, <2>4
<1>8. CASE EnterQualified \/ VisitComposite
  <2>1. /\ \A o \in 1 .. m : objs'[o] = objs[o] /\ (ActiveAt(o) => ActiveAt(o)')
        /\ \A o : o = m + 1 => Filled(o)'
    BY <1>1, <1>8, FilledNew
  <2>2. Len(objs') = m + 1
    BY <1>1, <1>2, <1>8 DEF EnterQualified, VisitComposite, Typed
  <2>3. ASSUME NEW o \in b + 1 .. m + 1 PROVE Filled(o)'
    <3>1. CASE o = m + 1
      BY <2>1, <3>1
    <3>2. CASE o # m + 1
      <4>1. o \in b + 1 .. m
        BY <1>2, <3>2
      <4> QED
        BY <1>2, <2>1, <4>1, FilledKept
    <3> QED
      BY <3>1, <3>2
  <2> QED
    BY <2>2, <2>3
<1>9. CASE VisitLeaf
  <2>1. /\ stack # << >> /\ Frame.obj = Null /\ stack' = Popped /\ KindOf(Type) \in Leaves
        /\ objs' = Append(objs, [kind |-> KindOf(Type), kids |-> << >>])
    BY <1>9 DEF VisitLeaf, Entered, Return
  <2>2. << >> \in Seq(0 .. Len(objs) + 1)
    OBVIOUS
  <2>3. /\ Len(objs') = m + 1 /\ \A o \in 1 .. m : objs'[o] = objs[o]
        /\ objs'[m + 1] = [kind |-> KindOf(Type), kids |-> << >>]
    BY <1>1, <1>2, <2>1, <2>2, ObjectAdded
  <2>4. Filled(m + 1)'
    BY <2>3 DEF Filled
  <2>5. \A o \in 1 .. m : o # Frame.obj
    BY <1>2, <2>1 DEF Null
  <2>6. \A o \in 1 .. m : ActiveAt(o) => ActiveAt(o)'
    BY <1>2, <2>1, <2>5, ActivePopped
  <2>7. ASSUME NEW o \in b + 1 .. m + 1 PROVE Filled(o)'
    <3>1. CASE o = m + 1
      BY <2>4, <3>1
    <3>2. CASE o # m + 1
      <4>1. o \in b + 1 .. m
        BY <1>2, <3>2
      <4> QED
        BY <1>2, <2>3, <2>6, <4>1, FilledKept
    <3> QED
      BY <3>1, <3>2
  <2> QED
    BY <2>3, <2>7
<1>10. CASE ResumeQualified \/ ResumePart \/ ReturnComposite
  <2>1. PICK x : x = Frame.obj
    OBVIOUS
  <2>2. Len(objs') = m
    BY <1>1, <1>2, <1>10 DEF ResumeQualified, ResumePart, ReturnComposite, Typed
  <2>3. SUFFICES ASSUME NEW o \in b + 1 .. m PROVE Filled(o)'
    BY <2>2
  <2>4. CASE o = x
    BY <1>2, <1>10, <2>1, <2>4, FilledPart, FilledReturn
  <2>5. CASE o # x
    <3>1. CASE ResumePart
      BY <1>1, <1>2, <2>1, <2>5, <3>1, FilledPart, FilledKept
    <3>2. CASE ResumeQualified \/ ReturnComposite
      BY <1>1, <1>2, <2>1, <2>5, <3>2, FilledReturn, FilledKept
    <3> QED
      BY <1>10, <3>1, <3>2
  <2> QED
    BY <2>4, <2>5
<1> QED
  BY <1>5, <1>6, <1>7, <1>8, <1>9, <1>10 DEF CollStep, ConvStep

\* The entries of the container, and the objects.
LEMMA SinceIs ==
  ASSUME CollectorInv, NEW b \in Nat
  PROVE  /\ Since(b) <=>
              /\ b <= Len(objs)
              /\ \A n \in 1 .. Len(types) : types[n].autoffi \in b + 1 .. Len(objs)
              /\ \A o \in b + 1 .. Len(objs) : EnteredFirst(o) /\ Filled(o)
BY EnteredIs DEF Since

LEMMA SinceStep ==
  ASSUME CollectorInv, CollStep, NEW b \in Nat, Since(b)
  PROVE  /\ Since(b)'
         /\ Len(objs) <= Len(objs')
         /\ \A o \in 1 .. b : objs'[o] = objs[o]
<1>1. EnteredSince(b)
  BY DEF Since
<1>2. EnteredSince(b)' /\ Len(objs) <= Len(objs') /\ \A o \in 1 .. b : objs'[o] = objs[o]
  BY <1>1, EnteredStep
<1>3. \A o \in b + 1 .. Len(objs') : Filled(o)'
  BY FilledStep
<1> QED
  BY <1>2, <1>3 DEF Since

\* Between two conversions the members of the objects are objects that are
\* entered.
LEMMA MembersEntered ==
  ASSUME CollectorInv, NEW b \in Nat, Since(b), stack = << >>,
         NEW o \in b + 1 .. Len(objs), NEW r \in 1 .. Len(objs[o].kids)
  PROVE  objs[o].kids[r] \in b + 1 .. Len(objs)
<1>1. Filled(o) /\ \A n \in 1 .. Len(types) : types[n].autoffi \in b + 1 .. Len(objs)
  BY SinceIs
<1>2. ~ ActiveAt(o)
  BY DEF ActiveAt
<1> QED
  BY <1>1, <1>2 DEF Filled, HasEntry

\* What an object is, between two conversions, that stands for a type.
Wraps(t, o) ==
  objs[o].kind = "qualified" /\ Len(objs[o].kids) = 1 /\ Stands(<<t, "none">>, objs[o].kids[1])
Unwrapped(t, o) ==
  IF KindOf(t) = "sugar" THEN Stands(PartsOf(t)[1], o)
  ELSE /\ objs[o].kind = KindOf(t)
       /\ Len(objs[o].kids) = Len(PartsOf(t))
       /\ \A r \in 1 .. Len(objs[o].kids) : Stands(PartsOf(t)[r], objs[o].kids[r])

LEMMA StandsShape ==
  ASSUME CollectorInv, stack = << >>, NEW qt \in QualTypes, NEW o, Stands(qt, o)
  PROVE  /\ o \in 1 .. Len(objs)
         /\ IF qt[2] = "fast" THEN Wraps(qt[1], o)
            ELSE Unwrapped(qt[1], o) \/ (Mixed(ast, qt[1]) /\ Wraps(qt[1], o))
<1>1. Typed /\ \A n \in 1 .. Len(types) : Right(types[n].clang, types[n].autoffi)
  BY Resting
<1>2. o \in 1 .. Len(objs)
  <2>1. PICK n \in 1 .. Len(types) : types[n].autoffi = o
    BY StandsIsEntry
  <2> QED
    BY <1>1, <2>1, EntryTyped
<1>3. PICK t, k : t = qt[1] /\ k = Key(qt)
  OBVIOUS
<1>4. t \in ClangTypes /\ k[1] = t /\ (k[2] <=> qt[2] = "fast")
  BY <1>3, KeyTyped DEF Key
<1>5. Qualifies(t, o) => Wraps(t, o)
  BY <1>4, ConvertsStands DEF Qualifies, Wraps
<1>6. CASE Entry(k, o)
  <2>1. Right(k, o)
    BY <1>1, <1>6 DEF Entry
  <2>2. CASE k[2]
    <3>1. Qualifies(t, o)
      BY <1>4, <2>1, <2>2 DEF Right, SameShape, Blurred
    <3> QED
      BY <1>2, <1>3, <1>4, <1>5, <2>2, <3>1
  <2>3. CASE ~ k[2]
    <3>1. SameShape(k, o) => Unwrapped(t, o)
      BY <1>4, <2>3 DEF SameShape, Unwrapped, Converts
    <3>2. Unwrapped(t, o) \/ (Mixed(ast, t) /\ Wraps(t, o))
      BY <1>4, <1>5, <2>1, <3>1 DEF Right, Blurred
    <3> QED
      BY <1>2, <1>3, <1>4, <2>3, <3>2
  <2> QED
    BY <2>2, <2>3
<1>7. CASE qt[2] = "none" /\ t \in Sugar /\ Stands(PartsOf(t)[1], o)
  <2>1. Unwrapped(t, o) /\ ~ (qt[2] = "fast")
    BY <1>7 DEF Unwrapped, Sugar
  <2> QED
    BY <1>2, <1>3, <2>1
<1> QED
  BY <1>3, <1>6, <1>7, StandsInversion

\* However a clang type is reached, through whatever typedefs and however often,
\* it is converted to one object, from the moment its conversion starts: what
\* comes after the entry of an object is entries of sugar.
THEOREM OneObjectPerType == Spec => []OneObjectEach
<1>1. Init => EnteredSince(0)
  BY DEF Init, EnteredSince
<1>2. ASSUME CollectorInv, EnteredSince(0), [Next]_collVars PROVE EnteredSince(0)'
  <2>1. CASE CollStep
    BY <1>2, <2>1, EnteredStep
  <2>2. CASE UNCHANGED collVars
    <3>1. ast' = ast /\ types' = types /\ objs' = objs
      BY <2>2 DEF collVars, convVars
    <3>2. PICK m, t : m = Len(objs) /\ t = Len(types)
      OBVIOUS
    <3>3. m \in Nat /\ t \in Nat /\ t <= t
      BY <1>2, <3>2 DEF CollectorInv, Typed
    <3>4. \A n \in 1 .. t : types'[n].autoffi > 0
      BY <1>2, <3>1, <3>2 DEF EnteredSince
    <3> QED
      BY <1>2, <3>1, <3>2, <3>3, <3>4, EnteredGrows
  <2> QED
    BY <1>2, <2>1, <2>2 DEF Next, Done
<1>3. CollectorInv /\ EnteredSince(0) => OneObjectEach
  <2> SUFFICES ASSUME CollectorInv, EnteredSince(0), NEW o \in 1 .. Len(objs)
               PROVE  \E n \in 1 .. Len(types) :
                        /\ types[n].autoffi = o
                        /\ Plain(types[n].clang) \/ Blurred(types[n].clang)
                        /\ \A m \in 1 .. Len(types) :
                             types[m].autoffi = o => m = n \/ (n < m /\ ~ Plain(types[m].clang))
    BY DEF OneObjectEach, Objects
  <2>1. OwnFirst
    BY DEF CollectorInv, Indexed
  <2>2. PICK n \in 1 .. Len(types) : /\ types[n].autoffi = o /\ Own(types[n].clang)
                                     /\ \A m \in 1 .. Len(types) : types[m].autoffi = o => n <= m
    <3>1. o \in 0 + 1 .. Len(objs)
      OBVIOUS
    <3> QED
      BY <3>1 DEF EnteredSince, EnteredFirst
  <2>3. ASSUME NEW m \in 1 .. Len(types), types[m].autoffi = o, m # n
        PROVE  n < m /\ ~ Plain(types[m].clang)
    <3>1. n < m
      BY <2>2, <2>3
    <3>2. ~ (m <= n)
      BY <3>1
    <3>3. ~ Plain(types[m].clang)
      BY <2>1, <2>2, <2>3, <3>2 DEF OwnFirst
    <3> QED
      BY <3>1, <3>3
  <2> QED
    BY <2>2, <2>3 DEF Own
<1>4. Spec => []EnteredSince(0)
  BY <1>1, <1>2, AlwaysCollectorInv, PTL DEF Spec
<1> QED
  BY <1>3, <1>4, AlwaysCollectorInv, PTL

\* Whenever no call is active, every entry of the container is the faithful
\* image of its clang type, recursive types and second entries included. Where
\* the container cannot tell a type from a form of it with qualifiers, it is the
\* image of one of the two.
THEOREM ConversionIsFaithful == Spec => []FaithfulConversion
<1>1. CollectorInv => FaithfulConversion
  <2> SUFFICES ASSUME CollectorInv, stack = << >>, NEW n \in 1 .. Len(types), NEW k, NEW o,
                      k = types[n].clang, o = types[n].autoffi
               PROVE  SameShape(k, o) \/ (Blurred(k) /\ Qualifies(k[1], o))
    BY DEF FaithfulConversion
  <2>1. Right(k, o)
    BY Resting
  <2> QED
    BY <2>1 DEF Right
<1> QED
  BY <1>1, AlwaysCollectorInv, PTL

\* Every declaration that has been visited has one Export, of the type that it
\* was declared with; the replacement of previous declarations disturbs none.
THEOREM ExportsAreFaithful == Spec => []ExportsFaithful
<1>1. CollectorInv => ExportsFaithful
  <2> SUFFICES ASSUME CollectorInv, NEW d \in ast.decls \ (decls \union cur), NEW its,
                      its = {n \in 1 .. Len(exports) : exports[n].decl = d}
               PROVE  /\ Cardinality(its) = IF d.kind = "alias" THEN 0 ELSE 1
                      /\ \A n \in its : DeclaredAs(d, exports[n].type)
    BY DEF ExportsFaithful
  <2>1. Exported
    BY DEF CollectorInv
  <2>2. \A n \in its : DeclaredAs(d, exports[n].type)
    BY <2>1 DEF Exported
  <2>3. CASE d.kind = "alias"
    <3>1. its = {}
      BY <2>1, <2>3 DEF Exported
    <3> QED
      BY <2>2, <2>3, <3>1, FS_EmptySet
  <2>4. CASE d.kind # "alias"
    <3>1. PICK m \in 1 .. Len(exports) : exports[m].decl = d
      BY <2>1, <2>4 DEF Exported
    <3>2. its = {m}
      BY <2>1, <3>1 DEF Exported
    <3> QED
      BY <2>2, <2>4, <3>2, FS_Singleton
  <2> QED
    BY <2>3, <2>4
<1> QED
  BY <1>1, AlwaysCollectorInv, PTL

\* At any time the types whose entries are all dangling are at most the record
\* of the redeclaration that was exported last: each call of replaceType gives
\* back the entries that an earlier one marked.
THEOREM LostIsOneRecord == Spec => []AtMostOneLost
<1>1. CollectorInv => AtMostOneLost
  <2> SUFFICES ASSUME CollectorInv, NEW o \in Lost PROVE LastReplaced(o)
    BY DEF AtMostOneLost, LastReplaced
  <2>1. OneDangling
    BY DEF CollectorInv
  <2>2. PICK m \in 1 .. Len(types) : types[m].autoffi = o /\ types[m].dangling
    BY DEF Lost
  <2> QED
    BY <2>1, <2>2 DEF OneDangling
<1> QED
  BY <1>1, AlwaysCollectorInv, PTL

-------------------------------------------------------------------------------
(* What the caller of a collector may rely on.                               *)

\* S holds the types of the declarations, and with each type its parts.
Covers(S) ==
  /\ \A d \in ast.decls : d.kind # "alias" => d.type[1] \in S
  /\ \A t \in S : \A n \in 1 .. Len(PartsOf(t)) : PartsOf(t)[n][1] \in S

\* A call is for the type of a declaration, or a part of the type of the call
\* below it.
LEMMA CallsCovered ==
  ASSUME CollectorInv, NEW S, Covers(S)
  PROVE  /\ stack # << >> => stack[1].clang[1] \in S
         /\ \A p \in 1 .. Len(stack) - 1 : stack[p].clang[1] \in S => stack[p + 1].clang[1] \in S
<1>1. Typed /\ Chained /\ Visited /\ Len(stack) \in Nat
  BY DEF CollectorInv, Typed
<1>2. ASSUME stack # << >> PROVE stack[1].clang[1] \in S
  <2>1. PICK d : d \in cur /\ d = CHOOSE x \in cur : TRUE
    BY <1>1, <1>2 DEF Visited
  <2>2. d.type[1] \in S
    BY <1>1, <2>1 DEF Visited, Typed, Covers
  <2>3. RootCall(d).clang[1] = d.type[1]
    BY DEF RootCall, Visit, VisitQualType, Key
  <2>4. SameCall(stack[0 + 1], AskedAt(0))
    <3>1. 0 \in 0 .. Len(stack) - 1
      BY <1>1, <1>2
    <3> QED
      BY <1>1, <3>1 DEF Chained
  <2>5. AskedAt(0) = RootCall(d)
    BY <2>1 DEF AskedAt
  <2> QED
    BY <2>2, <2>3, <2>4, <2>5 DEF SameCall
<1>3. ASSUME NEW p \in 1 .. Len(stack) - 1, stack[p].clang[1] \in S PROVE stack[p + 1].clang[1] \in S
  <2>1. PICK f : f = stack[p]
    OBVIOUS
  <2>2. /\ Waiting(f) /\ SameCall(stack[p + 1], Asked(f)) /\ f.clang[1] \in ClangTypes
         /\ f.fn \in {"VisitQualType", "Visit"} /\ f.got \in Nat
    <3>1. p \in 1 .. Len(stack) /\ p \in 0 .. Len(stack) - 1 /\ p < Len(stack) /\ p # 0
      BY <1>1
    <3>2. f \in FrameSet(Len(objs))
      BY <1>1, <2>1, <3>1 DEF Typed
    <3>3. f.clang \in Keys
      BY <3>2 DEF FrameSet
    <3> QED
      BY <1>1, <2>1, <3>1, <3>2, <3>3 DEF Chained, AskedAt, FrameSet, Keys
  <2>3. CASE f.fn = "VisitQualType"
    <3>1. Asked(f).clang = <<f.clang[1], FALSE>>
      BY <2>3 DEF Asked, Visit
    <3> QED
      BY <1>3, <2>1, <2>2, <3>1 DEF SameCall
  <2>4. CASE f.fn = "Visit"
    <3>1. f.got + 1 \in 1 .. Len(PartsOf(f.clang[1]))
      <4>1. f \in FrameSet(Len(objs))
        BY <1>1, <2>1 DEF Typed
      <4> QED
        BY <1>1, <2>2, <2>4, <4>1, PartAsked
    <3>2. PartsOf(f.clang[1])[f.got + 1][1] \in S
      BY <1>3, <2>1, <3>1 DEF Covers
    <3>3. PICK qt : qt = PartsOf(f.clang[1])[f.got + 1]
      OBVIOUS
    <3>4. Asked(f).clang[1] = qt[1]
      BY <2>4, <3>3 DEF Asked, VisitQualType, Key
    <3> QED
      BY <2>2, <3>2, <3>3, <3>4 DEF SameCall
  <2> QED
    BY <2>2, <2>3, <2>4
<1> QED
  BY <1>2, <1>3

\* Only a type without a Visit function makes a conversion fail, and then
\* nothing more happens.
LEMMA FailsAtOther ==
  ASSUME CollectorInv, failed = FALSE, CollStep, failed' # FALSE
  PROVE  UNCHANGED <<ast, stack>> /\ stack # << >> /\ KindOf(stack[Len(stack)].clang[1]) = "other"
<1>1. Unconvertible
  BY DEF CollStep, SkipAlias, VisitDecl, PushExport, VisitPreviousDecl, ReplacePrevious, convVars, ConvStep, Found,
     EnterQualified, EnterUnqualified, ResumeQualified, ResumeUnqualified, VisitSugar, ResumeSugar, VisitLeaf,
     VisitComposite, VisitPart, ResumePart, ReturnComposite
<1> QED
  BY <1>1 DEF Unconvertible, Entered, Type, Frame

LEMMA FailedStops ==
  ASSUME CollectorInv, failed = TRUE, stack # << >>
  PROVE  ~ CollStep
<1>1. cur # {}
  BY DEF CollectorInv, Visited
<1>2. ~ ConvStep
  BY DEF ConvStep, Found, EnterQualified, EnterUnqualified, ResumeQualified, ResumeUnqualified, VisitSugar, ResumeSugar,
     VisitLeaf, VisitComposite, VisitPart, ResumePart, ReturnComposite, Unconvertible, Entered, Resumed, Looping
<1> QED
  BY <1>1, <1>2 DEF CollStep, SkipAlias, VisitDecl, PushExport, VisitPreviousDecl, ReplacePrevious, Converted

\* The parts of a type may be missing from S where it was visited with extended
\* qualifiers: if that came first, the type itself was never looked at.
CoversBut(S) ==
  /\ \A d \in ast.decls : d.kind # "alias" => d.type[1] \in S
  /\ \A t \in S : \/ Mixed(ast, t) /\ KindOf(t) # "sugar"
                  \/ \A n \in 1 .. Len(PartsOf(t)) : PartsOf(t)[n][1] \in S

\* When all declarations have been visited, what has been converted covers them,
\* with that exception.
LEMMA CollectedIsCovered ==
  ASSUME CollectorInv, Collected
  PROVE  \E S \in SUBSET ClangTypes : CoversBut(S) /\ \A t \in S : KindOf(t) # "other"
<1>1. stack = << >> /\ decls = {} /\ cur = {}
  BY DEF Collected, CollectorInv, Visited
<1>2. Typed /\ Exported /\ \A n \in 1 .. Len(types) : Right(types[n].clang, types[n].autoffi)
  BY <1>1, Resting
<1>3. PICK S : S = {t \in ClangTypes : \E o : Converts(t, o)}
  OBVIOUS
<1>4. ASSUME NEW k, NEW o, Entry(k, o)
      PROVE  k \in Keys /\ k[1] \in S /\ o \in 1 .. Len(objs) /\ Right(k, o)
  <2>1. PICK n \in 1 .. Len(types) : types[n].clang = k /\ types[n].autoffi = o
    BY <1>4 DEF Entry
  <2>2. k \in Keys /\ o \in 1 .. Len(objs)
    BY <1>2, <2>1, EntryTyped
  <2>3. Right(k, o)
    BY <1>2, <2>1 DEF Right, SameShape
  <2>4. k[1] \in ClangTypes /\ k[2] \in BOOLEAN /\ k = <<k[1], k[2]>>
    BY <2>2 DEF Keys
  <2>5. ASSUME Qualifies(k[1], o) PROVE k[1] \in S
    BY <1>3, <2>4, <2>5 DEF Qualifies
  <2>6. ASSUME KindOf(k[1]) # "sugar", ~ k[2] PROVE k[1] \in S
    <3>1. k = <<k[1], FALSE>>
      BY <2>4, <2>6
    <3>2. Converts(k[1], o)
      BY <1>4, <2>6, <3>1 DEF Converts
    <3> QED
      BY <1>3, <2>4, <3>2
  <2>7. ASSUME KindOf(k[1]) = "sugar", ~ k[2], SameShape(k, o) PROVE k[1] \in S
    BY <1>3, <2>4, <2>7 DEF SameShape
  <2>8. k[2] /\ SameShape(k, o) => Qualifies(k[1], o)
    BY DEF SameShape
  <2>9. k[1] \in S
    <3>1. CASE k[2]
      BY <2>3, <2>5, <2>8, <3>1 DEF Right, Blurred
    <3>2. CASE ~ k[2]
      BY <2>3, <2>5, <2>6, <2>7, <3>2 DEF Right
    <3> QED
      BY <3>1, <3>2
  <2> QED
    BY <2>2, <2>3, <2>9
<1>5. ASSUME NEW qt \in QualTypes, NEW o, Stands(qt, o) PROVE qt[1] \in S
  <2>1. qt[1] \in ClangTypes /\ Key(qt)[1] = qt[1]
    BY KeyTyped DEF Key
  <2>2. CASE Entry(Key(qt), o)
    BY <1>4, <2>1, <2>2
  <2>3. CASE qt[1] \in Sugar /\ Stands(PartsOf(qt[1])[1], o)
    <3>1. Converts(qt[1], o)
      BY <2>3 DEF Converts, Sugar
    <3> QED
      BY <1>3, <2>1, <3>1
  <2> QED
    BY <1>5, <2>2, <2>3, StandsInversion
<1>6. ASSUME NEW t \in S
      PROVE  /\ KindOf(t) # "other"
             /\ (Mixed(ast, t) /\ KindOf(t) # "sugar") \/ \A n \in 1 .. Len(PartsOf(t)) : PartsOf(t)[n][1] \in S
  <2>1. PICK o : Converts(t, o)
    BY <1>3
  <2>2. t \in ClangTypes
    BY <1>3
  <2>3. \A n \in 1 .. Len(PartsOf(t)) : PartsOf(t)[n] \in QualTypes
    BY <1>2, <2>2, PartsTyped
  <2>4. CASE KindOf(t) = "sugar"
    <3>1. Len(PartsOf(t)) = 1
      BY <1>2, <2>2, <2>4, PartsTyped
    <3>2. PartsOf(t)[1] \in QualTypes
      BY <2>3, <3>1
    <3>3. PartsOf(t)[1][1] \in S
      BY <1>5, <2>1, <2>4, <3>2 DEF Converts
    <3> QED
      BY <2>4, <3>1, <3>3
  <2>5. CASE KindOf(t) # "sugar"
    <3>1. PICK k : k = <<t, FALSE>>
      OBVIOUS
    <3>2. Entry(k, o) /\ k[1] = t /\ ~ k[2]
      BY <2>1, <2>5, <3>1 DEF Converts
    <3>3. o \in 1 .. Len(objs) /\ Right(k, o)
      BY <1>4, <3>2
    <3>4. CASE SameShape(k, o)
      <4>1. /\ objs[o].kind = KindOf(t)
            /\ Len(objs[o].kids) = Len(PartsOf(t))
            /\ \A n \in 1 .. Len(objs[o].kids) : Stands(PartsOf(t)[n], objs[o].kids[n])
        BY <2>5, <3>2, <3>4 DEF SameShape
      <4>2. objs[o].kind # "other"
        <5>1. objs[o] \in ObjectSet(Len(objs))
          BY <1>2, <3>3 DEF Typed
        <5> QED
          BY <5>1 DEF ObjectSet, Leaves, Composites, Records
      <4> QED
        BY <1>5, <2>3, <4>1, <4>2
    <3>5. CASE ~ SameShape(k, o)
      BY <2>5, <3>2, <3>3, <3>5 DEF Right, Blurred
    <3> QED
      BY <3>4, <3>5
  <2> QED
    BY <2>4, <2>5
<1>7. ASSUME NEW d \in ast.decls, d.kind # "alias" PROVE d.type[1] \in S
  <2>1. PICK n \in 1 .. Len(exports) : exports[n].decl = d
    BY <1>1, <1>2, <1>7 DEF Exported
  <2>2. PICK o : o = exports[n].type
    OBVIOUS
  <2>3. DeclaredAs(d, o)
    BY <1>2, <2>1, <2>2 DEF Exported
  <2>4. d.type \in QualTypes /\ d.type[1] \in ClangTypes
    BY <1>2, RootTyped, KeyTyped
  <2> QED
    BY <1>3, <1>5, <2>3, <2>4 DEF DeclaredAs
<1>8. CoversBut(S)
  BY <1>6, <1>7 DEF CoversBut
<1> QED
  BY <1>3, <1>6, <1>8

\* Entries are marked for the sake of a redeclared record only.
Blamed == (\E n \in 1 .. Len(types) : types[n].dangling) => \E d \in ast.decls : Redeclares(d)

LEMMA BlamedStep ==
  ASSUME CollectorInv, Blamed, CollStep
  PROVE  Blamed'
<1>1. Typed /\ Visited /\ ast' = ast /\ Len(types) \in Nat
  BY EffectOfStep DEF CollectorInv, Typed
<1>2. CASE \E d \in cur : ReplacePrevious(d)
  <2>1. PICK d \in cur : ReplacePrevious(d)
    BY <1>2
  <2>2. Redeclares(d) /\ d \in ast.decls
    BY <1>1, <2>1 DEF ReplacePrevious, Visited, Typed
  <2> QED
    BY <1>1, <2>2 DEF Blamed, Redeclares
<1>3. CASE ~ \E d \in cur : ReplacePrevious(d)
  <2>1. UNCHANGED types \/ NewObject \/ NewEntry \/ NewMember
    <3>1. CASE ConvStep
      BY <3>1, EffectOfConversion
    <3>2. CASE ~ ConvStep
      BY <1>3, <3>2 DEF CollStep, SkipAlias, VisitDecl, PushExport, VisitPreviousDecl, convVars
    <3> QED
      BY <3>1, <3>2
  <2>2. UNCHANGED types \/ \E k, o : types' = Append(types, TypeRepr(k, o))
    <3>1. CASE NewEntry
      BY <3>1 DEF NewEntry, push_back
    <3> QED
      BY <2>1, <3>1 DEF NewObject, NewMember
  <2>3. ASSUME NEW n \in 1 .. Len(types'), types'[n].dangling PROVE n \in 1 .. Len(types) /\ types[n].dangling
    <3>1. CASE UNCHANGED types
      BY <2>3, <3>1
    <3>2. ASSUME NEW k, NEW o, types' = Append(types, TypeRepr(k, o)) PROVE n \in 1 .. Len(types) /\ types[n].dangling
      <4>1. /\ Len(types') = Len(types) + 1
            /\ \A m \in 1 .. Len(types) : types'[m] = types[m]
            /\ types'[Len(types) + 1] = TypeRepr(k, o)
        BY <1>1, <3>2 DEF Typed
      <4>2. CASE n = Len(types) + 1
        <5>1. types'[n] = TypeRepr(k, o)
          BY <4>1, <4>2
        <5>2. TypeRepr(k, o).dangling = FALSE
          BY DEF TypeRepr
        <5> QED
          BY <2>3, <5>1, <5>2, Zenon
      <4>3. CASE n # Len(types) + 1
        <5>1. n \in 1 .. Len(types) /\ types'[n] = types[n]
          BY <1>1, <4>1, <4>3
        <5> QED
          BY <2>3, <5>1, Zenon
      <4> QED
        BY <4>2, <4>3
    <3> QED
      BY <2>2, <3>1, <3>2
  <2> QED
    BY <1>1, <2>3 DEF Blamed, Redeclares
<1> QED
  BY <1>2, <1>3
===============================================================================
