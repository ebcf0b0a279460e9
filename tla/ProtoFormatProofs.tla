--------------------------- MODULE ProtoFormatProofs --------------------------
(*****************************************************************************)
(* For any catalog: the writer prints all of it or nothing, and the numbers  *)
(* in what it prints are the positions of the types meant.  And what it is   *)
(* given: the Catalog, for any types, exports and calls, and the SymbolTable *)
(* of its exports, for any exports, names and ranges, whatever is renamed    *)
(* and removed.                                                              *)
(*****************************************************************************)
EXTENDS ProtoFormat, Numbers, Catalog, SymbolTable, FiniteSetTheorems, NaturalsInduction,
        WellFoundedInduction, TLAPS

Typed ==
  /\ catTypes \in Seq(DOMAIN objs)
  /\ \A t \in DOMAIN objs : objs[t].kids \in Seq(DOMAIN objs)
  /\ IsFiniteSet(catExports)
  /\ wpc \in {"new", "types", "written", "error", "overflow"}

ListedTypes == {catTypes[k] : k \in 1 .. Len(catTypes)}

\* The message of the type at a position of the catalog.
Message(k) ==
  [id |-> getID(catTypes[k]), kind |-> objs[catTypes[k]].kind,
   refs |-> [n \in 1 .. Len(objs[catTypes[k]].kids) |-> getID(objs[catTypes[k]].kids[n])]]

\* The types of the catalog are numbered before the first message is made.
Numbered ==
  IF wpc = "new" THEN messages = << >> /\ exported = {} ELSE index = CountMap(catTypes)

\* Every message is the one of its position, and refers to numbered types only.
TypesDone ==
  /\ messages \in Seq({Message(k) : k \in 1 .. Len(catTypes)})
  /\ Len(messages) <= Len(catTypes)
  /\ \A k \in 1 .. Len(messages) :
       /\ messages[k] = Message(k)
       /\ \A n \in 1 .. Len(objs[catTypes[k]].kids) : HasID(objs[catTypes[k]].kids[n])

\* Every export written is one of the catalog, with its number.
ExportsDone ==
  \A x \in exported :
    /\ x = [export |-> x.export, type |-> getID(x.export.type)]
    /\ x.export \in catExports /\ HasID(x.export.type)

\* What ended the writer.
Ended ==
  /\ wpc = "written" => Len(messages) = Len(catTypes) /\ Remaining = {}
  /\ wpc \in {"error", "overflow"} => Unlisted # {}

IInv == Typed /\ Numbered /\ TypesDone /\ ExportsDone /\ Ended

-------------------------------------------------------------------------------
LEMMA Domains ==
  ASSUME IInv, wpc # "new" PROVE DOMAIN index = ListedTypes
BY DEF IInv, Numbered, CountMap, ListedTypes

LEMMA LengthIsNat == ASSUME Typed PROVE Len(catTypes) \in Nat
BY DEF Typed

\* What Unlisted is made of.
Kids(t) == {objs[t].kids[n] : n \in 1 .. Len(objs[t].kids)}
KidSets == {Kids(t) : t \in ListedTypes}
ExportTypes == {e.type : e \in catExports}

LEMMA UnlistedIs == Unlisted = ((UNION KidSets) \union ExportTypes) \ ListedTypes
BY Zenon DEF Unlisted, KidSets, Kids, ExportTypes, ListedTypes

LEMMA UnlistedMembers ==
  ASSUME NEW x
  PROVE  x \in Unlisted <=> (x \in UNION KidSets \/ x \in ExportTypes) /\ x \notin ListedTypes
BY UnlistedIs

LEMMA UnlistedStays ==
  ASSUME UNCHANGED <<objs, catTypes, catExports>> PROVE Unlisted' = Unlisted
<1>1. objs' = objs /\ catTypes' = catTypes /\ catExports' = catExports
  OBVIOUS
<1>2. QED
  <2>1. ListedTypes' = ListedTypes /\ ExportTypes' = ExportTypes
    BY <1>1 DEF ListedTypes, ExportTypes
  <2>2. \A t : Kids(t)' = Kids(t)
    BY <1>1 DEF Kids
  <2>3. KidSets' = KidSets
    BY <2>1, <2>2 DEF KidSets
  <2>4. (Unlisted = ((UNION KidSets) \union ExportTypes) \ ListedTypes)'
    BY <1>1, Zenon DEF Unlisted, KidSets, Kids, ExportTypes, ListedTypes
  <2>5. QED
    BY <2>1, <2>3, <2>4, UnlistedIs, Zenon

\* A reference without a number leads out of the catalog.
LEMMA MissingKid ==
  ASSUME IInv, wpc # "new",
         NEW k \in 1 .. Len(catTypes), NEW n \in 1 .. Len(objs[catTypes[k]].kids),
         ~ HasID(objs[catTypes[k]].kids[n])
  PROVE  Unlisted # {}
<1>1. objs[catTypes[k]].kids[n] \notin ListedTypes
  BY Domains DEF HasID
<1>2. catTypes[k] \in ListedTypes
  BY DEF ListedTypes
<1>3. objs[catTypes[k]].kids[n] \in Kids(catTypes[k])
  BY DEF Kids
<1>4. Kids(catTypes[k]) \in KidSets
  BY <1>2 DEF KidSets
<1>5. objs[catTypes[k]].kids[n] \in Unlisted
  BY <1>1, <1>3, <1>4, UnlistedMembers
<1>6. QED
  BY <1>5

LEMMA MissingExport ==
  ASSUME IInv, wpc # "new", NEW e \in catExports, ~ HasID(e.type)
  PROVE  Unlisted # {}
<1>1. e.type \notin ListedTypes
  BY Domains DEF HasID
<1>2. e.type \in Unlisted
  <2>1. e.type \in ExportTypes
    BY DEF ExportTypes
  <2>2. QED
    BY <1>1, <2>1, UnlistedMembers
<1>3. QED
  BY <1>2

LEMMA TypesStay ==
  ASSUME TypesDone, UNCHANGED <<objs, catTypes, index, messages>> PROVE TypesDone'
<1>1. objs' = objs /\ catTypes' = catTypes /\ index' = index /\ messages' = messages
  OBVIOUS
<1>2. \A k : Message(k)' = Message(k)
  BY <1>1 DEF Message, getID
<1>3. {Message(k) : k \in 1 .. Len(catTypes)}' = {Message(k) : k \in 1 .. Len(catTypes)}
  BY <1>1, <1>2
<1>4. QED
  BY <1>1, <1>2, <1>3 DEF TypesDone, HasID

LEMMA InitHolds == Init => IInv
<1>1. SUFFICES ASSUME Init PROVE IInv
  OBVIOUS
<1>2. Typed
  BY <1>1, CatalogsAssumption DEF Init, Typed
<1>3. Len(catTypes) \in Nat
  BY <1>2, LengthIsNat
<1>4. Numbered /\ TypesDone /\ ExportsDone /\ Ended
  BY <1>1, <1>3 DEF Init, Numbered, TypesDone, ExportsDone, Ended
<1>5. QED
  BY <1>2, <1>4 DEF IInv

LEMMA StartKeeps == ASSUME IInv, Start PROVE IInv'
<1>1. Typed'
  BY DEF IInv, Typed, Start, input
<1>2. Len(catTypes') \in Nat
  BY <1>1, LengthIsNat DEF Typed, Start, input
<1>3. (Numbered /\ TypesDone /\ ExportsDone /\ Ended)'
  BY <1>2 DEF Start, input, Numbered, CountMap, First, TypesDone, ExportsDone, Ended
<1>4. QED
  BY <1>1, <1>3 DEF IInv

LEMMA WriteTypeKeeps == ASSUME IInv, WriteType PROVE IInv'
<1> DEFINE m == Len(messages) + 1
           All == {Message(k) : k \in 1 .. Len(catTypes)}
<1>1. UNCHANGED <<objs, catTypes, catExports, index, exported, wpc>>
  BY DEF WriteType, input
<1>2. /\ Len(catTypes) \in Nat /\ Len(messages) \in Nat
      /\ m \in 1 .. Len(catTypes) /\ Current = catTypes[m]
  BY LengthIsNat DEF IInv, TypesDone, WriteType, Current
<1>3. messages' = Append(messages, Message(m))
  BY <1>2 DEF WriteType, Message, Refs, Current
<1>4. Message(m) \in All /\ messages \in Seq(All)
  BY <1>2 DEF IInv, TypesDone
<1>5. \A k : Message(k)' = Message(k)
  BY <1>1 DEF Message, getID
<1>6. TypesDone'
  <2>1. messages' \in Seq(All) /\ Len(messages') = m
    <3> HIDE DEF All
    <3>1. QED
      BY <1>2, <1>3, <1>4
  <2>2. \A k \in 1 .. m : messages'[k] = Message(k)
    <3> HIDE DEF All
    <3>1. \A k \in 1 .. Len(messages) : messages'[k] = messages[k]
      BY <1>2, <1>3, <1>4
    <3>2. messages'[m] = Message(m)
      BY <1>2, <1>3, <1>4
    <3>3. \A k \in 1 .. Len(messages) : messages[k] = Message(k)
      BY DEF IInv, TypesDone
    <3>4. QED
      BY <1>2, <3>1, <3>2, <3>3
  <2>3. \A k \in 1 .. m : \A n \in 1 .. Len(objs[catTypes[k]].kids) : HasID(objs[catTypes[k]].kids[n])
    <3>1. \A n \in 1 .. Len(objs[catTypes[m]].kids) : HasID(objs[catTypes[m]].kids[n])
      BY <1>2 DEF WriteType, Refs
    <3>2. \A k \in 1 .. Len(messages) :
            \A n \in 1 .. Len(objs[catTypes[k]].kids) : HasID(objs[catTypes[k]].kids[n])
      BY DEF IInv, TypesDone
    <3>3. QED
      BY <1>2, <3>1, <3>2
  <2>4. QED
    BY <1>1, <1>2, <1>5, <2>1, <2>2, <2>3 DEF TypesDone, HasID
<1>7. (Typed /\ Numbered /\ ExportsDone)'
  BY <1>1 DEF IInv, Typed, Numbered, CountMap, First, ExportsDone, HasID, getID, WriteType
<1>8. Ended'
  BY <1>1 DEF WriteType, Ended
<1>9. QED
  BY <1>6, <1>7, <1>8 DEF IInv

LEMMA WriteExportKeeps ==
  ASSUME IInv, NEW e \in Remaining, WriteExport(e) PROVE IInv'
<1>1. UNCHANGED <<objs, catTypes, catExports, index, messages, wpc>> /\ wpc = "types"
  BY DEF WriteExport, input
<1>2. e \in catExports
  BY DEF Remaining
<1>3. ExportsDone'
  BY <1>1, <1>2 DEF IInv, ExportsDone, WriteExport, HasID, getID
<1>4. (Typed /\ Numbered /\ TypesDone /\ Ended)'
  <2>1. Typed' /\ Numbered'
    BY <1>1 DEF IInv, Typed, Numbered
  <2>2. TypesDone'
    BY <1>1, TypesStay DEF IInv
  <2>3. Ended'
    BY <1>1 DEF Ended
  <2>4. QED
    BY <2>1, <2>2, <2>3
<1>5. QED
  BY <1>3, <1>4 DEF IInv

\* The steps that end the writer, and the one that does nothing, leave all but
\* wpc alone.
LEMMA EndKeeps ==
  ASSUME IInv, UNCHANGED <<objs, catTypes, catExports, index, messages, exported>>,
         wpc # "new", wpc' \in {"types", "written", "error", "overflow"}, Ended'
  PROVE  IInv'
<1>1. Typed' /\ Numbered'
  BY DEF IInv, Typed, Numbered
<1>2. TypesDone'
  BY TypesStay DEF IInv
<1>3. ExportsDone'
  BY DEF IInv, ExportsDone, HasID, getID
<1>4. QED
  BY <1>1, <1>2, <1>3 DEF IInv

LEMMA TypeMissingKeeps == ASSUME IInv, TypeMissing PROVE IInv'
<1>1. wpc = "types" /\ wpc' \in {"error", "overflow"}
  BY DEF TypeMissing, NoID
<1>2. Len(messages) + 1 \in 1 .. Len(catTypes)
  BY LengthIsNat DEF IInv, TypesDone, TypeMissing
<1>3. PICK n \in 1 .. Len(Refs) : ~ HasID(Refs[n])
  BY DEF TypeMissing
<1>4. Unlisted # {}
  BY <1>1, <1>2, <1>3, MissingKid DEF Refs, Current
<1>5. UNCHANGED <<objs, catTypes, catExports, index, messages, exported>>
  BY DEF TypeMissing, input
<1>6. Ended'
  BY <1>1, <1>4, <1>5, UnlistedStays DEF Ended
<1>7. QED
  BY <1>1, <1>5, <1>6, EndKeeps

LEMMA ExportMissingKeeps ==
  ASSUME IInv, NEW e \in Remaining, ExportMissing(e) PROVE IInv'
<1>1. wpc = "types" /\ wpc' \in {"error", "overflow"}
  BY DEF ExportMissing, NoID
<1>2. Unlisted # {}
  BY <1>1, MissingExport DEF Remaining, ExportMissing
<1>3. UNCHANGED <<objs, catTypes, catExports, index, messages, exported>>
  BY DEF ExportMissing, input
<1>4. Ended'
  BY <1>1, <1>2, <1>3, UnlistedStays DEF Ended
<1>5. QED
  BY <1>1, <1>3, <1>4, EndKeeps

LEMMA PrintCatalogKeeps == ASSUME IInv, PrintCatalog PROVE IInv'
<1>1. /\ wpc = "types" /\ wpc' = "written"
      /\ UNCHANGED <<objs, catTypes, catExports, index, messages, exported>>
      /\ Len(messages) = Len(catTypes) /\ Remaining = {}
  BY DEF PrintCatalog, input
<1>2. Ended'
  BY <1>1 DEF Ended, Remaining
<1>3. QED
  BY <1>1, <1>2, EndKeeps

LEMMA NextKeeps == IInv /\ [Next]_vars => IInv'
<1>1. SUFFICES ASSUME IInv, [Next]_vars PROVE IInv'
  OBVIOUS
<1>2. CASE Step
  BY <1>1, <1>2, StartKeeps, WriteTypeKeeps, TypeMissingKeeps, WriteExportKeeps,
     ExportMissingKeeps, PrintCatalogKeeps DEF Step
<1>3. CASE UNCHANGED vars
  <2>1. UNCHANGED <<objs, catTypes, catExports, index, messages, exported, wpc>>
    BY <1>3 DEF vars, input
  <2>2. Ended'
    BY <1>1, <2>1, UnlistedStays DEF IInv, Ended, Remaining
  <2>3. Typed' /\ Numbered' /\ ExportsDone'
    BY <1>1, <2>1 DEF IInv, Typed, Numbered, ExportsDone, HasID, getID
  <2>4. TypesDone'
    BY <1>1, <2>1, TypesStay DEF IInv
  <2>5. QED
    BY <2>2, <2>3, <2>4 DEF IInv
<1>4. QED
  BY <1>1, <1>2, <1>3 DEF Next, Finished

-------------------------------------------------------------------------------
\* At the end every export has one message, and none has two.
LEMMA AllExported ==
  ASSUME IInv, Remaining = {} PROVE Cardinality(exported) = Cardinality(catExports)
<1> DEFINE f == [e \in catExports |-> [export |-> e, type |-> getID(e.type)]]
<1>1. \A e \in catExports : f[e] \in exported
  BY DEF IInv, ExportsDone, Remaining
<1>2. \A x \in exported : x.export \in catExports /\ f[x.export] = x
  BY DEF IInv, ExportsDone
<1>3. \A d, e \in catExports : f[d] = f[e] => d = e
  <2>1. \A e \in catExports : f[e].export = e
    OBVIOUS
  <2>2. QED
    BY <2>1
<1>4. f \in Bijection(catExports, exported)
  <2>1. f \in [catExports -> exported]
    BY <1>1
  <2> HIDE DEF f
  <2>2. f \in Injection(catExports, exported)
    BY <1>3, <2>1 DEF Injection, IsInjective
  <2>3. f \in Surjection(catExports, exported)
    BY <1>2, <2>1 DEF Surjection
  <2>4. QED
    BY <2>2, <2>3 DEF Bijection
<1>5. QED
  <2>1. ExistsBijection(catExports, exported)
    BY <1>4 DEF ExistsBijection
  <2>2. QED
    BY <2>1, FS_Bijection DEF IInv, Typed

\* The output is complete or there is none, for any catalog: it is printed
\* exactly when no reference leads out of the catalog (ProtoFormat.cpp:123).
THEOREM WrittenAsWhole == Spec => []AllOrNothing
<1>1. IInv => AllOrNothing
  <2>1. SUFFICES ASSUME IInv PROVE AllOrNothing
    OBVIOUS
  <2>2. ASSUME wpc = "written" PROVE Unlisted = {}
    <3>1. Len(messages) = Len(catTypes) /\ Remaining = {}
      BY <2>1, <2>2 DEF IInv, Ended
    <3>2. DOMAIN index = ListedTypes
      BY <2>1, <2>2, Domains
    <3>3. \A k \in 1 .. Len(catTypes) : \A n \in 1 .. Len(objs[catTypes[k]].kids) :
            objs[catTypes[k]].kids[n] \in ListedTypes
      BY <2>1, <3>1, <3>2 DEF IInv, TypesDone, HasID
    <3>4. \A e \in catExports : e.type \in ListedTypes
      BY <2>1, <3>1, <3>2 DEF IInv, ExportsDone, Remaining, HasID
    <3>5. QED
      <4>1. \A t \in ListedTypes : Kids(t) \subseteq ListedTypes
        <5>1. SUFFICES ASSUME NEW k \in 1 .. Len(catTypes) PROVE Kids(catTypes[k]) \subseteq ListedTypes
          BY DEF ListedTypes
        <5>2. QED
          BY <3>3 DEF Kids
      <4>2. UNION KidSets \subseteq ListedTypes
        BY <4>1 DEF KidSets
      <4>3. ExportTypes \subseteq ListedTypes
        BY <3>4 DEF ExportTypes
      <4>4. QED
        BY <4>2, <4>3, UnlistedMembers
  <2>3. QED
    BY <2>1, <2>2, AllExported DEF IInv, Ended, AllOrNothing
<1>2. QED
  BY <1>1, InitHolds, NextKeeps, PTL DEF Spec

\* The numbers of a catalog without repetitions are positions: of each message,
\* and of what it refers to (CountMap.hpp:35).
THEOREM NumbersAreFaithful == Spec => []NumbersArePositions
<1>1. IInv => NumbersArePositions
  <2>1. SUFFICES ASSUME IInv, \A a, b \in 1 .. Len(catTypes) : catTypes[a] = catTypes[b] => a = b,
                        NEW k \in 1 .. Len(messages)
                 PROVE  /\ messages[k].id = k
                        /\ \A n \in 1 .. Len(messages[k].refs) :
                             messages[k].refs[n] \in 1 .. Len(catTypes)
                               /\ catTypes[messages[k].refs[n]] = objs[catTypes[k]].kids[n]
    BY DEF NumbersArePositions
  <2>2. Len(catTypes) \in Nat /\ k \in 1 .. Len(catTypes) /\ Len(messages) \in Nat
    BY <2>1, LengthIsNat DEF IInv, TypesDone
  <2>3. wpc # "new"
    BY <2>1, <2>2 DEF IInv, Numbered
  <2>4. ASSUME NEW p \in 1 .. Len(catTypes) PROVE getID(catTypes[p]) = p
    <3>1. First(catTypes, catTypes[p], p)
      BY <2>1, <2>2 DEF First
    <3>2. \A q \in 1 .. Len(catTypes) : First(catTypes, catTypes[p], q) => q = p
      BY <2>1 DEF First
    <3>3. index[catTypes[p]] = CHOOSE q \in 1 .. Len(catTypes) : First(catTypes, catTypes[p], q)
      BY <2>1, <2>3 DEF IInv, Numbered, CountMap
    <3>4. QED
      BY <3>1, <3>2, <3>3 DEF getID
  <2>5. messages[k] = Message(k)
    BY <2>1 DEF IInv, TypesDone
  <2>6. messages[k].id = k
    BY <2>2, <2>4, <2>5 DEF Message
  <2>7. messages[k].refs = [n \in 1 .. Len(objs[catTypes[k]].kids) |-> getID(objs[catTypes[k]].kids[n])]
    BY <2>5 DEF Message
  <2>8. Len(objs[catTypes[k]].kids) \in Nat
    BY <2>1, <2>2 DEF IInv, Typed
  <2>9. Len(messages[k].refs) = Len(objs[catTypes[k]].kids)
    BY <2>7, <2>8
  <2>10. ASSUME NEW n \in 1 .. Len(objs[catTypes[k]].kids)
         PROVE  /\ messages[k].refs[n] \in 1 .. Len(catTypes)
                /\ catTypes[messages[k].refs[n]] = objs[catTypes[k]].kids[n]
    <3>1. objs[catTypes[k]].kids[n] \in ListedTypes
      BY <2>1, <2>3, Domains DEF IInv, TypesDone, HasID
    <3>2. PICK p \in 1 .. Len(catTypes) : objs[catTypes[k]].kids[n] = catTypes[p]
      BY <3>1 DEF ListedTypes
    <3>3. messages[k].refs[n] = p
      BY <2>4, <2>7, <3>2
    <3>4. QED
      BY <3>2, <3>3
  <2>11. QED
    BY <2>6, <2>9, <2>10
<1>2. QED
  BY <1>1, InitHolds, NextKeeps, PTL DEF Spec
-------------------------------------------------------------------------------
(* Powers of two.                                                            *)

\* Every non-empty set of numbers has a least member.
LEMMA LeastNumber ==
  ASSUME NEW T \in SUBSET Nat, T # {}
  PROVE  \E x \in T : \A y \in T : x <= y
<1>1. IsWellFoundedOn(OpToRel(<, Nat), Nat)
  BY NatLessThanWellFounded
<1>2. PICK x \in T : \A y \in T : ~ (<<y, x>> \in OpToRel(<, Nat))
  BY <1>1, WFMin
<1>3. ASSUME NEW y \in T, y < x PROVE FALSE
  <2>1. y \in Nat /\ x \in Nat
    OBVIOUS
  <2>2. <<y, x>> \in OpToRel(<, Nat)
    BY <1>3, <2>1, Zenon DEF OpToRel
  <2> QED
    BY <2>2, <1>2
<1>4. \A y \in T : x <= y
  BY <1>3
<1> QED
  BY <1>4

\* What holds at a number, and with every number at the next, holds from there.
LEMMA FromThere ==
  ASSUME NEW a \in Nat, NEW G, a \in G,
         \A m \in Nat : m > a /\ m - 1 \in G => m \in G
  PROVE  \A m \in Nat : m >= a => m \in G
<1> DEFINE T == {m \in Nat : m >= a /\ m \notin G}
<1> SUFFICES ASSUME T # {} PROVE FALSE
  OBVIOUS
<1>1. T \in SUBSET Nat
  OBVIOUS
<1>2. PICK x \in T : \A y \in T : x <= y
  BY <1>1, LeastNumber
<1>3. x \in Nat /\ x > a /\ x - 1 \in Nat /\ x - 1 >= a /\ x - 1 \notin T
  BY <1>2
<1>4. x - 1 \in G
  BY <1>3
<1> QED
  BY <1>2, <1>3, <1>4

\* There is a function that the definition of Pow2 describes: every part of it
\* extends to the next number.
LEMMA Pow2Def == Pow2 = [n \in Nat |-> IF n = 0 THEN 1 ELSE 2 * Pow2[n - 1]]
<1> DEFINE At(f, m) == IF m = 0 THEN 1 ELSE 2 * f[m - 1]
           Part(f, n) == f = [m \in 0 .. n |-> At(f, m)]
           G == {n \in Nat : \E f : Part(f, n)}
<1>1. 0 \in G
  <2> DEFINE f == [m \in 0 .. 0 |-> 1]
  <2>1. Part(f, 0)
    OBVIOUS
  <2> QED
    BY <2>1
<1>2. ASSUME NEW n \in Nat, n > 0, n - 1 \in G PROVE n \in G
  <2>1. PICK f : Part(f, n - 1)
    BY <1>2
  <2> DEFINE g == [m \in 0 .. n |-> IF m = n THEN 2 * f[n - 1] ELSE f[m]]
  <2>2. \A m \in 0 .. n : g[m] = At(g, m)
    <3> SUFFICES ASSUME NEW m \in 0 .. n PROVE g[m] = At(g, m)
      OBVIOUS
    <3>1. CASE m = n
      <4>1. g[m] = 2 * f[n - 1] /\ g[m - 1] = f[m - 1] /\ m # 0
        BY <1>2, <3>1
      <4> QED
        BY <4>1, <3>1
    <3>2. CASE m # n
      <4>1. m \in 0 .. n - 1 /\ g[m] = f[m]
        BY <3>2
      <4>2. f[m] = At(f, m)
        BY <4>1, <2>1
      <4>3. m # 0 => g[m - 1] = f[m - 1]
        BY <4>1
      <4> QED
        BY <4>1, <4>2, <4>3
    <3> QED
      BY <3>1, <3>2
  <2>3. g = [m \in 0 .. n |-> At(g, m)]
    BY <2>2
  <2> HIDE DEF g
  <2> QED
    BY <2>3
<1>3. \A n \in Nat : \E f : Part(f, n)
  <2> HIDE DEF G
  <2>1. \A n \in Nat : n >= 0 => n \in G
    BY <1>1, <1>2, FromThere
  <2>2. \A n \in Nat : n \in G
    BY <2>1
  <2> QED
    BY <2>2, Zenon DEF G
<1> DEFINE part(n) == CHOOSE f : Part(f, n)
           whole == [n \in Nat |-> part(n)[n]]
<1>4. \A n \in Nat : Part(part(n), n)
  BY <1>3
<1> HIDE DEF part
<1>5. \A n \in Nat : part(n)[n] = IF n = 0 THEN 1 ELSE 2 * part(n)[n - 1]
  BY <1>4
<1>6. \A n \in Nat : n > 0 => \A m \in 0 .. n - 1 : part(n)[m] = part(n - 1)[m]
  <2> SUFFICES ASSUME NEW n \in Nat, n > 0
               PROVE  \A m \in 0 .. n - 1 : part(n)[m] = part(n - 1)[m]
    OBVIOUS
  <2> DEFINE H == {m \in Nat : m <= n - 1 => part(n)[m] = part(n - 1)[m]}
  <2>1. /\ \A m \in 0 .. n : part(n)[m] = At(part(n), m)
        /\ \A m \in 0 .. n - 1 : part(n - 1)[m] = At(part(n - 1), m)
    BY <1>4
  <2>2. 0 \in H
    BY <2>1
  <2>3. ASSUME NEW m \in Nat, m > 0, m - 1 \in H PROVE m \in H
    BY <2>1, <2>3
  <2>4. \A m \in Nat : m >= 0 => m \in H
    <3> HIDE DEF H
    <3> QED
      BY <2>2, <2>3, FromThere
  <2> QED
    BY <2>4
<1>7. \A n \in Nat : whole[n] = At(whole, n)
  <2> SUFFICES ASSUME NEW n \in Nat PROVE whole[n] = At(whole, n)
    OBVIOUS
  <2>1. CASE n = 0
    BY <1>5, <2>1
  <2>2. CASE n # 0
    <3>1. n - 1 \in Nat /\ n - 1 \in 0 .. n - 1 /\ n > 0
      BY <2>2
    <3>2. part(n)[n - 1] = part(n - 1)[n - 1]
      BY <1>6, <3>1
    <3>3. whole[n] = part(n)[n] /\ whole[n - 1] = part(n - 1)[n - 1]
      BY <3>1
    <3> QED
      BY <1>5, <2>2, <3>2, <3>3
  <2> QED
    BY <2>1, <2>2
<1>8. whole = [n \in Nat |-> At(whole, n)]
  BY <1>7
<1> HIDE DEF whole
<1>9. \E f : f = [n \in Nat |-> At(f, n)]
  BY <1>8
<1> QED
  BY <1>9, Zenon DEF Pow2

LEMMA Pow2Parts ==
  /\ Pow2[0] = 1
  /\ \A n \in Nat : n > 0 => Pow2[n] = 2 * Pow2[n - 1]
  /\ \A n \in Nat : Pow2[n] \in Nat \ {0}
<1>1. Pow2[0] = 1 /\ \A n \in Nat : n > 0 => Pow2[n] = 2 * Pow2[n - 1]
  <2>1. \A n \in Nat : Pow2[n] = IF n = 0 THEN 1 ELSE 2 * Pow2[n - 1]
    <3>1. \A n \in Nat : [m \in Nat |-> IF m = 0 THEN 1 ELSE 2 * Pow2[m - 1]][n] = IF n = 0 THEN 1 ELSE 2 * Pow2[n - 1]
      BY Zenon
    <3> QED
      BY <3>1, Pow2Def, Zenon
  <2> QED
    BY <2>1
<1>2. \A n \in Nat : Pow2[n] \in Nat \ {0}
  <2> DEFINE G == {n \in Nat : Pow2[n] \in Nat \ {0}}
  <2>1. 0 \in G
    BY <1>1
  <2>2. ASSUME NEW m \in Nat, m > 0, m - 1 \in G PROVE m \in G
    BY <1>1, <2>2
  <2>3. \A n \in Nat : n >= 0 => n \in G
    <3> HIDE DEF G
    <3> QED
      BY <2>1, <2>2, FromThere
  <2> QED
    BY <2>3
<1> QED
  BY <1>1, <1>2

\* A power of two divides every larger one.
LEMMA Pow2Divides ==
  ASSUME NEW m \in Nat, NEW n \in Nat, m <= n
  PROVE  \E k \in Nat \ {0} : Pow2[n] = k * Pow2[m]
<1> DEFINE G == {i \in Nat : \E k \in Nat \ {0} : Pow2[i] = k * Pow2[m]}
<1>1. m \in G
  <2>1. Pow2[m] = 1 * Pow2[m]
    BY Pow2Parts
  <2> QED
    BY <2>1
<1>2. ASSUME NEW i \in Nat, i > m, i - 1 \in G PROVE i \in G
  <2>1. PICK k \in Nat \ {0} : Pow2[i - 1] = k * Pow2[m]
    BY <1>2
  <2>2. Pow2[i] = 2 * Pow2[i - 1] /\ Pow2[m] \in Nat
    BY <1>2, Pow2Parts
  <2>3. 2 * (k * Pow2[m]) = (2 * k) * Pow2[m] /\ 2 * k \in Nat \ {0}
    BY <2>2
  <2> QED
    BY <2>1, <2>2, <2>3
<1>3. \A i \in Nat : i >= m => i \in G
  <2> HIDE DEF G
  <2> QED
    BY <1>1, <1>2, FromThere
<1> QED
  BY <1>3

-------------------------------------------------------------------------------
(* The remainder.                                                            *)

LEMMA Remainder ==
  ASSUME NEW M \in Nat \ {0}, NEW q \in Int, NEW r \in 0 .. M - 1
  PROVE  (q * M + r) % M = r
<1> DEFINE x == q * M + r
<1>1. x \in Int /\ x % M \in 0 .. M - 1 /\ x \div M \in Int /\ x = M * (x \div M) + (x % M)
  OBVIOUS
<1> PICK p \in Int, s \in 0 .. M - 1 : p = x \div M /\ s = x % M
  BY <1>1
<1>2. q * M + r = M * p + s
  BY <1>1
<1>3. CASE q = p
  BY <1>2, <1>3
<1>4. CASE q > p
  <2>1. PICK d \in Nat : q = p + 1 + d
    <3>1. q - p - 1 \in Nat /\ q = p + 1 + (q - p - 1)
      BY <1>4
    <3> QED
      BY <3>1
  <2>2. q * M = p * M + M + d * M /\ d * M \in Nat
    BY <2>1
  <2> QED
    BY <1>2, <2>2
<1>5. CASE q < p
  <2>1. PICK d \in Nat : p = q + 1 + d
    <3>1. p - q - 1 \in Nat /\ p = q + 1 + (p - q - 1)
      BY <1>5
    <3> QED
      BY <3>1
  <2>2. M * p = q * M + M + d * M /\ d * M \in Nat
    BY <2>1
  <2> QED
    BY <1>2, <2>2
<1> QED
  BY <1>3, <1>4, <1>5

LEMMA SmallRemainder ==
  ASSUME NEW M \in Nat \ {0}, NEW r \in 0 .. M - 1
  PROVE  r % M = r /\ (r - M) % M = r
<1>1. \A q \in Int : (q * M + r) % M = r
  BY Remainder
<1>2. (0 * M + r) % M = r /\ ((-1) * M + r) % M = r
  <2>1. 0 \in Int /\ -1 \in Int
    OBVIOUS
  <2> QED
    BY <1>1, <2>1, Zenon
<1>3. 0 * M + r = r /\ (-1) * M + r = r - M
  OBVIOUS
<1> QED
  BY <1>2, <1>3

\* Whole multiples do not count.
LEMMA RemainderOfSum ==
  ASSUME NEW M \in Nat \ {0}, NEW x \in Int, NEW k \in Int
  PROVE  (x + k * M) % M = x % M
<1>1. x % M \in 0 .. M - 1 /\ x \div M \in Int /\ x = M * (x \div M) + (x % M)
  OBVIOUS
<1> PICK p \in Int, s \in 0 .. M - 1 : p = x \div M /\ s = x % M
  BY <1>1
<1>2. x + k * M = (p + k) * M + s /\ p + k \in Int
  BY <1>1
<1> QED
  BY <1>2, Remainder

-------------------------------------------------------------------------------
(* What a field makes of a number.                                           *)

Half32 == Pow2[IntBits - 1]

LEMMA Widths ==
  /\ Half32 \in Nat \ {0} /\ Pow2[IntBits] = 2 * Half32
  /\ Pow2[LongBits] \in Nat
  /\ \E k \in Nat \ {0} : Pow2[LongBits] = k * Pow2[IntBits]
<1>1. IntBits \in Nat /\ IntBits > 0 /\ IntBits - 1 \in Nat /\ LongBits \in Nat /\ IntBits <= LongBits
  BY WidthsAssumption
<1> QED
  BY <1>1, Pow2Parts, Pow2Divides DEF Half32

LEMMA Int32Parts ==
  ASSUME NEW v \in Int
  PROVE  /\ Int32(v) \in -Half32 .. Half32 - 1
         /\ v \in -Half32 .. Half32 - 1 => Int32(v) = v
         /\ Int32(v) = 0 <=> v % Pow2[IntBits] = 0
         /\ \A w \in Int : Int32(v) = Int32(w) => v % Pow2[IntBits] = w % Pow2[IntBits]
         /\ \A k \in Int : Int32(v + k * Pow2[IntBits]) = Int32(v)
<1> PICK H, M : H = Half32 /\ M = Pow2[IntBits]
  OBVIOUS
<1>1. H \in Nat \ {0} /\ M = 2 * H
  BY Widths
<1>2. \A w : Int32(w) = IF w % M < H THEN w % M ELSE (w % M) - M
  BY DEF Int32, Half32
<1>3. \A w \in Int : w % M \in 0 .. M - 1
  BY <1>1
<1>4. ASSUME v \in -H .. H - 1 PROVE Int32(v) = v
  <2>1. CASE v >= 0
    <3>1. v % M = v
      <4>1. v \in 0 .. M - 1 /\ M \in Nat \ {0}
        BY <1>1, <1>4, <2>1
      <4> QED
        BY <4>1, SmallRemainder
    <3>2. Int32(v) = IF v < H THEN v ELSE v - M
      BY <1>2, <3>1, Zenon
    <3> QED
      BY <1>1, <1>4, <3>2
  <2>2. CASE v < 0
    <3>1. v % M = v + M
      <4>1. v + M \in 0 .. M - 1 /\ M \in Nat \ {0} /\ (v + M) - M = v
        BY <1>1, <1>4, <2>2
      <4>2. ((v + M) - M) % M = v + M
        BY <4>1, SmallRemainder
      <4> QED
        BY <4>1, <4>2, Zenon
    <3>2. ~ (v + M < H) /\ (v + M) - M = v
      BY <1>1, <1>4
    <3> QED
      BY <1>2, <3>1, <3>2
  <2> QED
    BY <2>1, <2>2
<1>5. ASSUME NEW k \in Int PROVE (v + k * M) % M = v % M
  <2>1. M \in Nat \ {0}
    BY <1>1
  <2> QED
    BY <2>1, RemainderOfSum
<1>6. \A k \in Int : Int32(v + k * M) = Int32(v)
  BY <1>2, <1>5
<1>7. Int32(v) \in -H .. H - 1 /\ (Int32(v) = 0 <=> v % M = 0)
  <2> PICK r \in 0 .. M - 1 : r = v % M
    BY <1>3
  <2>1. Int32(v) = IF r < H THEN r ELSE r - M
    BY <1>2
  <2>2. Int32(v) \in -H .. H - 1 /\ (Int32(v) = 0 <=> r = 0)
    <3> PICK i : i = Int32(v)
      OBVIOUS
    <3>1. i = IF r < H THEN r ELSE r - M
      BY <2>1, Zenon
    <3>2. i \in -H .. H - 1 /\ (i = 0 <=> r = 0)
      BY <1>1, <3>1
    <3> QED
      BY <3>2, Zenon
  <2> QED
    BY <2>2, Zenon
<1>8. \A w \in Int : Int32(v) = Int32(w) => v % M = w % M
  <2> SUFFICES ASSUME NEW w \in Int, Int32(v) = Int32(w) PROVE v % M = w % M
    OBVIOUS
  <2>1. v % M \in 0 .. M - 1 /\ w % M \in 0 .. M - 1
    BY <1>3
  <2>2. (IF v % M < H THEN v % M ELSE (v % M) - M) = (IF w % M < H THEN w % M ELSE (w % M) - M)
    BY <1>2
  <2> QED
    BY <1>1, <2>1, <2>2
<1> QED
  BY <1>4, <1>6, <1>7, <1>8

\* The number that the bits of an enumerator are.
LEMMA Bits ==
  ASSUME NEW n \in [bits : Nat \ {0}, value : Int], SignedNumber(n) \/ UnsignedNumber(n)
  PROVE  /\ Pow2[n.bits] = 2 * Pow2[n.bits - 1] /\ Pow2[n.bits - 1] \in Nat \ {0}
         /\ n.value \in -Pow2[n.bits - 1] .. Pow2[n.bits] - 1
         /\ n.value % Pow2[n.bits] = IF n.value >= 0 THEN n.value ELSE n.value + Pow2[n.bits]
<1> PICK b \in Nat \ {0}, v \in Int : b = n.bits /\ v = n.value
  OBVIOUS
<1> PICK B, C : B = Pow2[b] /\ C = Pow2[b - 1]
  OBVIOUS
<1>1. B = 2 * C /\ C \in Nat \ {0}
  <2>1. b \in Nat /\ b > 0 /\ b - 1 \in Nat
    OBVIOUS
  <2> QED
    BY <2>1, Pow2Parts
<1>2. v \in -C .. B - 1
  <2>1. v \in -C .. C - 1 \/ v \in 0 .. B - 1
    BY DEF SignedNumber, UnsignedNumber
  <2> QED
    BY <1>1, <2>1
<1>3. CASE v >= 0
  <2>1. v \in 0 .. B - 1 /\ B \in Nat \ {0}
    BY <1>1, <1>2, <1>3
  <2>2. v % B = v
    BY <2>1, SmallRemainder
  <2> QED
    BY <1>1, <1>2, <1>3, <2>2
<1>4. CASE v < 0
  <2>1. v + B \in 0 .. B - 1 /\ B \in Nat \ {0} /\ (v + B) - B = v
    BY <1>1, <1>2, <1>4
  <2>2. ((v + B) - B) % B = v + B
    BY <2>1, SmallRemainder
  <2>3. v % B = v + B
    BY <2>1, <2>2, Zenon
  <2> QED
    BY <1>1, <1>2, <1>4, <2>3
<1> QED
  BY <1>3, <1>4

\* What arrives of an enumerator that has at least as many bits as the largest
\* unsigned number.
LEMMA LimitArrives == Int32(Pow2[LongBits] - 1) = -1
<1> PICK M, k \in Nat \ {0} : M = Pow2[IntBits] /\ Pow2[LongBits] = k * M
  BY Widths
<1>1. M \in Nat /\ -1 \in -Half32 .. Half32 - 1 /\ Half32 \in Nat \ {0}
  BY Widths
<1>2. Int32(-1 + k * M) = Int32(-1) /\ Int32(-1) = -1
  <2> PICK v \in Int : v = -1
    OBVIOUS
  <2>1. Int32(v) = v
    BY <1>1, Int32Parts
  <2>2. \A j \in Int : Int32(v + j * M) = Int32(v)
    BY Int32Parts
  <2> QED
    BY <2>1, <2>2
<1>3. Pow2[LongBits] - 1 = -1 + k * M
  BY <1>1
<1> QED
  BY <1>2, <1>3

-------------------------------------------------------------------------------
(* What arrives.                                                             *)

LEMMA WidthsDivide ==
  ASSUME NEW b \in Nat \ {0}
  PROVE  /\ b <= LongBits => \E j \in Nat \ {0} : Pow2[LongBits] = j * Pow2[b]
         /\ b >= IntBits => \E j \in Nat \ {0} : Pow2[b] = j * Pow2[IntBits]
         /\ b < IntBits => \E j \in Nat \ {0} : Half32 = j * Pow2[b]
         /\ b <= IntBits => \E j \in Nat \ {0} : Pow2[IntBits] = j * Pow2[b]
         /\ LongBits < b => \E j \in Nat \ {0} : Pow2[b - 1] = j * Pow2[LongBits]
<1>1. \A m, n \in Nat : m <= n => \E j \in Nat \ {0} : Pow2[n] = j * Pow2[m]
  BY Pow2Divides
<1>2. /\ b \in Nat /\ b - 1 \in Nat /\ IntBits \in Nat /\ IntBits - 1 \in Nat /\ LongBits \in Nat
      /\ b < IntBits => b <= IntBits - 1
      /\ LongBits < b => LongBits <= b - 1
      /\ b >= IntBits => IntBits <= b
  BY WidthsAssumption
<1> QED
  BY <1>1, <1>2, Zenon DEF Half32

\* An enumerator arrives as it is, or for the reasons given by EnumeratorsKept
\* as another number.
LEMMA EnumeratorArrives ==
  ASSUME NEW n \in [bits : Nat \ {0}, value : Int], SignedNumber(n) \/ UnsignedNumber(n)
  PROVE  Int32(getLimitedValue(n)) = n.value <=>
           /\ InField(n.value)
           /\ n.value >= 0 \/ (n.bits >= IntBits /\ (n.bits <= LongBits \/ n.value = -1))
<1> PICK b \in Nat \ {0}, v \in Int, B, C, H, M, L, k \in Nat \ {0} :
      /\ b = n.bits /\ v = n.value /\ B = Pow2[b] /\ C = Pow2[b - 1]
      /\ H = Half32 /\ M = Pow2[IntBits] /\ L = Pow2[LongBits] /\ L = k * M
  <2>1. /\ n.bits \in Nat \ {0} /\ n.bits \in Nat /\ n.bits - 1 \in Nat /\ n.value \in Int
        /\ IntBits \in Nat /\ IntBits - 1 \in Nat /\ LongBits \in Nat
    BY WidthsAssumption
  <2>2. /\ Pow2[n.bits] \in Nat \ {0} /\ Pow2[n.bits - 1] \in Nat \ {0} /\ Half32 \in Nat \ {0}
        /\ Pow2[IntBits] \in Nat \ {0} /\ Pow2[LongBits] \in Nat \ {0}
    BY <2>1, Pow2Parts DEF Half32
  <2> QED
    BY <2>1, <2>2, Widths
<1>1. H \in Nat \ {0} /\ M = 2 * H /\ L \in Nat /\ L >= M
  <2>1. H \in Nat \ {0} /\ M = 2 * H /\ L \in Nat
    BY Widths
  <2>2. k * M >= M
    BY <2>1
  <2> QED
    BY <2>1, <2>2
<1>2. B = 2 * C /\ C \in Nat \ {0} /\ v \in -C .. B - 1
  BY Bits
<1> PICK u : u = v % B
  OBVIOUS
<1>3. u = IF v >= 0 THEN v ELSE v + B
  BY Bits
<1>4. getLimitedValue(n) = IF u < L THEN u ELSE L - 1
  BY DEF getLimitedValue
<1>5. InField(v) <=> v \in -H .. H - 1
  BY DEF InField, Half32
<1>6. /\ \A w \in Int : Int32(w) \in -H .. H - 1
      /\ \A w \in -H .. H - 1 : Int32(w) = w
      /\ \A w \in Int : \A j \in Int : Int32(w + j * M) = Int32(w)
  <2>1. ASSUME NEW w \in Int
        PROVE  /\ Int32(w) \in -H .. H - 1 /\ (w \in -H .. H - 1 => Int32(w) = w)
               /\ \A j \in Int : Int32(w + j * M) = Int32(w)
    BY Int32Parts
  <2>2. \A w \in -H .. H - 1 : w \in Int
    BY <1>1
  <2> QED
    BY <2>1, <2>2
<1>7. Int32(L - 1) = -1
  BY LimitArrives
<1>8. CASE v >= 0 /\ v < L
  <2>1. Int32(getLimitedValue(n)) = Int32(v)
    BY <1>3, <1>4, <1>8
  <2>2. Int32(v) = v <=> v \in -H .. H - 1
    BY <1>6
  <2> QED
    BY <1>5, <1>8, <2>1, <2>2
<1>9. CASE v >= 0 /\ ~ v < L
  <2>1. Int32(getLimitedValue(n)) = -1
    BY <1>3, <1>4, <1>7, <1>9
  <2>2. ~ (v \in -H .. H - 1) /\ v # -1
    BY <1>1, <1>9
  <2> QED
    BY <1>5, <2>1, <2>2
<1>10. CASE v < 0 /\ b <= LongBits
  <2>1. B <= L
    <3>1. PICK j \in Nat \ {0} : L = j * B
      <4>1. \E j \in Nat \ {0} : Pow2[LongBits] = j * Pow2[b]
        BY <1>10, WidthsDivide, Zenon
      <4> QED
        BY <4>1, Zenon
    <3>2. j * B >= B
      BY <1>2
    <3> QED
      BY <3>1, <3>2
  <2>2. Int32(getLimitedValue(n)) = Int32(v + B)
    <3>1. u = v + B
      BY <1>3, <1>10
    <3>2. v + B < L
      BY <1>2, <1>10, <2>1
    <3>3. getLimitedValue(n) = v + B
      BY <1>4, <3>1, <3>2, Zenon
    <3> QED
      BY <3>3, Zenon
  <2>3. CASE b >= IntBits
    <3>1. PICK j \in Nat \ {0} : B = j * M
      <4>1. \E j \in Nat \ {0} : Pow2[b] = j * Pow2[IntBits]
        BY <2>3, WidthsDivide, Zenon
      <4> QED
        BY <4>1, Zenon
    <3>2. Int32(v + j * M) = Int32(v)
      <4>1. j \in Int
        OBVIOUS
      <4> QED
        BY <1>6, <4>1, Zenon
    <3>3. Int32(v) = v <=> v \in -H .. H - 1
      BY <1>6
    <3>4. Int32(getLimitedValue(n)) = Int32(v)
      BY <2>2, <3>1, <3>2, Zenon
    <3> QED
      BY <1>5, <1>10, <2>3, <3>3, <3>4
  <2>4. CASE ~ b >= IntBits
    <3>1. PICK j \in Nat \ {0} : H = j * B
      <4>1. b < IntBits
        BY <2>4, WidthsAssumption
      <4>2. \E j \in Nat \ {0} : Half32 = j * Pow2[b]
        BY <4>1, WidthsDivide, Zenon
      <4> QED
        BY <4>2, Zenon
    <3>2. j * B >= B /\ v + B \in 0 .. B - 1
      BY <1>2, <1>10
    <3>3. v + B \in -H .. H - 1
      BY <1>1, <1>2, <3>1, <3>2
    <3>4. Int32(v + B) = v + B /\ v + B # v
      BY <1>2, <1>6, <3>3
    <3>5. ~ n.bits >= IntBits /\ ~ n.value >= 0
      BY <1>10, <2>4
    <3> QED
      BY <2>2, <3>4, <3>5
  <2> QED
    BY <2>3, <2>4
<1>11. CASE v < 0 /\ ~ b <= LongBits
  <2>1. C >= L
    <3>1. PICK j \in Nat \ {0} : C = j * L
      <4>1. LongBits < b
        BY <1>11, WidthsAssumption
      <4>2. \E j \in Nat \ {0} : Pow2[b - 1] = j * Pow2[LongBits]
        BY <4>1, WidthsDivide, Zenon
      <4> QED
        BY <4>2, Zenon
    <3>2. j * L >= L
      BY <1>1
    <3> QED
      BY <3>1, <3>2
  <2>2. Int32(getLimitedValue(n)) = -1
    <3>1. u = v + B /\ ~ u < L
      BY <1>1, <1>2, <1>3, <1>11, <2>1
    <3> QED
      BY <1>4, <1>7, <3>1
  <2>3. b >= IntBits /\ -1 \in -H .. H - 1
    BY <1>1, <1>11, WidthsAssumption
  <2> QED
    BY <1>5, <1>11, <2>2, <2>3
<1> QED
  BY <1>8, <1>9, <1>10, <1>11

\* Two enumerators of a type that is no wider than the field are told apart.
LEMMA EnumeratorsDiffer ==
  ASSUME NEW m \in [bits : Nat \ {0}, value : Int], NEW n \in [bits : Nat \ {0}, value : Int],
         m.bits <= IntBits, n.bits = m.bits,
         \/ SignedNumber(m) /\ SignedNumber(n)
         \/ UnsignedNumber(m) /\ UnsignedNumber(n),
         Int32(getLimitedValue(m)) = Int32(getLimitedValue(n))
  PROVE  m = n
<1>0. /\ m.bits \in Nat \ {0} /\ m.bits \in Nat /\ m.bits - 1 \in Nat /\ m.value \in Int /\ n.value \in Int
      /\ IntBits \in Nat /\ LongBits \in Nat /\ IntBits <= LongBits
  BY WidthsAssumption
<1> PICK b \in Nat, v \in Int, w \in Int, B \in Nat \ {0}, C \in Nat \ {0}, M \in Nat \ {0}, L \in Nat \ {0} :
      /\ b = m.bits /\ v = m.value /\ w = n.value /\ B = Pow2[b] /\ C = Pow2[b - 1]
      /\ M = Pow2[IntBits] /\ L = Pow2[LongBits]
  BY <1>0, Pow2Parts
<1>1. PICK i \in Nat \ {0}, j \in Nat \ {0} : M = i * B /\ L = j * M
  <2>1. \E i \in Nat \ {0} : M = i * B
    <3>1. m.bits \in Nat \ {0} /\ b = m.bits
      BY <1>0
    <3>2. \E i \in Nat \ {0} : Pow2[IntBits] = i * Pow2[m.bits]
      BY <3>1, WidthsDivide, Zenon
    <3> QED
      BY <3>1, <3>2, Zenon
  <2>2. \E j \in Nat \ {0} : L = j * M
    BY Widths, Zenon
  <2> QED
    BY <2>1, <2>2
<1>2. B = 2 * C /\ C \in Nat \ {0}
  BY Bits
<1>3. i * B >= B /\ i * B \in Nat \ {0}
  BY <1>2
<1>4. M >= B /\ M \in Nat \ {0} /\ j * M >= M
  BY <1>1, <1>3
<1>5. M >= B /\ L >= M /\ M \in Nat \ {0} /\ L \in Nat
  BY <1>1, <1>4, Widths
<1> PICK x, y : x = v % B /\ y = w % B
  OBVIOUS
<1>6. x = (IF v >= 0 THEN v ELSE v + B) /\ y = (IF w >= 0 THEN w ELSE w + B)
  BY Bits
<1>7. x \in 0 .. B - 1 /\ y \in 0 .. B - 1
  <2>1. v \in -C .. B - 1 /\ w \in -C .. B - 1
    BY Bits
  <2> QED
    BY <1>2, <1>6, <2>1
<1>8. getLimitedValue(m) = x /\ getLimitedValue(n) = y
  <2>1. /\ getLimitedValue(m) = IF x < L THEN x ELSE L - 1
        /\ getLimitedValue(n) = IF y < L THEN y ELSE L - 1
    BY DEF getLimitedValue
  <2>2. x < L /\ y < L
    BY <1>2, <1>5, <1>7
  <2> QED
    BY <2>1, <2>2, Zenon
<1>9. x % M = y % M
  BY <1>7, <1>8, Int32Parts
<1>10. x = y
  <2>1. x \in 0 .. M - 1 /\ y \in 0 .. M - 1
    BY <1>2, <1>5, <1>7
  <2> QED
    BY <1>5, <1>9, <2>1, SmallRemainder
<1>11. v = w
  <2>1. \/ v \in -C .. C - 1 /\ w \in -C .. C - 1
        \/ v \in 0 .. B - 1 /\ w \in 0 .. B - 1
    BY DEF SignedNumber, UnsignedNumber
  <2> QED
    BY <1>2, <1>6, <1>10, <2>1
<1>12. m.value = n.value /\ m.bits = n.bits
  BY <1>11
<1>13. m = [bits |-> m.bits, value |-> m.value] /\ n = [bits |-> n.bits, value |-> n.value]
  OBVIOUS
<1> QED
  BY <1>12, <1>13, Zenon

\* The size of an array arrives if it fits; zero is what a multiple of 2^32 is.
LEMMA SizeArrives ==
  ASSUME NEW n \in [bits : 1 .. LongBits, value : Int], UnsignedNumber(n)
  PROVE  /\ InField(n.value) => Int32(getLimitedValue(n)) = n.value
         /\ Int32(getLimitedValue(n)) = 0 <=> n.value % Pow2[IntBits] = 0
<1>0. n \in [bits : Nat \ {0}, value : Int] /\ n.bits \in Nat \ {0} /\ n.bits <= LongBits /\ n.value \in Int
  BY WidthsAssumption
<1>1. getLimitedValue(n) = n.value
  <2> PICK v \in Int : v = n.value
    BY <1>0
  <2> PICK B, L : B = Pow2[n.bits] /\ L = Pow2[LongBits]
    OBVIOUS
  <2>1. B \in Nat \ {0}
    BY <1>0, Pow2Parts
  <2>2. v \in 0 .. B - 1
    BY DEF UnsignedNumber
  <2>3. v % B = v
    BY <2>1, <2>2, SmallRemainder
  <2>4. PICK j \in Nat \ {0} : L = j * B
    BY <1>0, WidthsDivide, Zenon
  <2>5. j * B >= B
    BY <2>1
  <2>6. v < L
    BY <2>1, <2>2, <2>4, <2>5
  <2> QED
    BY <2>3, <2>6, Zenon DEF getLimitedValue
<1>2. /\ n.value \in -Half32 .. Half32 - 1 => Int32(n.value) = n.value
      /\ Int32(n.value) = 0 <=> n.value % Pow2[IntBits] = 0
  BY <1>0, Int32Parts
<1> QED
  BY <1>1, <1>2 DEF InField, Half32

LEMMA LimitedIsInt ==
  ASSUME NEW n \in [bits : Nat \ {0}, value : Int]
  PROVE  getLimitedValue(n) \in Int
<1> PICK v \in Int, b \in Nat : v = n.value /\ b = n.bits
  OBVIOUS
<1> PICK B, L : B = Pow2[b] /\ L = Pow2[LongBits]
  OBVIOUS
<1>1. B \in Nat \ {0} /\ L \in Nat
  BY Pow2Parts, Widths
<1>2. v % B \in 0 .. B - 1
  BY <1>1
<1> QED
  BY <1>1, <1>2 DEF getLimitedValue

LEMMA FieldIsInt ==
  ASSUME NEW v \in Int
  PROVE  Int32(v) \in Int
<1>1. Int32(v) \in -Half32 .. Half32 - 1 /\ Half32 \in Nat
  BY Int32Parts, Widths
<1> QED
  BY <1>1

\* The two enumerations of primitive kinds have the same order.
LEMMA SameOrder ==
  /\ Len(PrimitiveKinds) = 25
  /\ \A k \in 0 .. 24 : ProtoPrimitiveKind[PrimitiveKinds[k + 1]] = k
<1>1. Len(PrimitiveKinds) = 25
  BY DEF PrimitiveKinds
<1>2. ASSUME NEW k \in 0 .. 8 PROVE ProtoPrimitiveKind[PrimitiveKinds[k + 1]] = k
  BY <1>2 DEF PrimitiveKinds, ProtoPrimitiveKind
<1>3. ASSUME NEW k \in 9 .. 16 PROVE ProtoPrimitiveKind[PrimitiveKinds[k + 1]] = k
  BY <1>3 DEF PrimitiveKinds, ProtoPrimitiveKind
<1>4. ASSUME NEW k \in 17 .. 24 PROVE ProtoPrimitiveKind[PrimitiveKinds[k + 1]] = k
  BY <1>4 DEF PrimitiveKinds, ProtoPrimitiveKind
<1>5. \A k \in 0 .. 24 : k \in 0 .. 8 \/ k \in 9 .. 16 \/ k \in 17 .. 24
  OBVIOUS
<1> QED
  BY <1>1, <1>2, <1>3, <1>4, <1>5

LEMMA KindArrives ==
  ASSUME NEW kind \in Supported
  PROVE  Number(kind) \in 0 .. 24 /\ ProtoPrimitiveKind[kind] = Number(kind)
<1>1. PICK k \in 1 .. 25 : kind = PrimitiveKinds[k]
  BY SameOrder DEF Supported
<1>2. k - 1 \in 0 .. 24 /\ PrimitiveKinds[(k - 1) + 1] = kind
  BY <1>1
<1>3. \E j \in 0 .. 24 : PrimitiveKinds[j + 1] = kind
  BY <1>2, Zenon
<1>4. 0 .. Len(PrimitiveKinds) - 1 = 0 .. 24
  BY SameOrder
<1>5. Number(kind) \in 0 .. 24 /\ PrimitiveKinds[Number(kind) + 1] = kind
  BY <1>3, <1>4, Zenon DEF Number
<1> QED
  BY <1>5, SameOrder, Zenon

-------------------------------------------------------------------------------
(* The invariant of the way from clang to a message.                         *)

AnyType == [kind : {"none", "ENUM", "FIXED_ARRAY", "VARIADIC_ARRAY", "PRIMITIVE"},
            values : Seq(Int), count : Int, primitiveKind : Int]

Messages == [kind : {"UNDEFINED", "ENUM", "ARRAY", "PRIMITIVE"},
             value : Seq(Int), size : Int, primitiveKind : Int]

NumbersTyped ==
  /\ decl \in Declarations
  /\ type \in AnyType
  /\ message \in Messages
  /\ pc \in {"visit", "write", "written", "thrown"}

\* What the TypeConverter has read so far.
TypeRead ==
  /\ Len(type.values) <= Len(decl.values)
  /\ \A k \in 1 .. Len(type.values) : type.values[k] = getLimitedValue(decl.values[k])
  /\ type.kind = "none" => pc \in {"visit", "thrown"}
  /\ type.kind = "ENUM" =>
       decl.kind = "enum" /\ (pc # "visit" => Len(type.values) = Len(decl.values))
  /\ type.kind = "FIXED_ARRAY" => decl.kind = "constant array" /\ type.count = getLimitedValue(decl.count)
  /\ type.kind = "VARIADIC_ARRAY" => decl.kind = "variadic array"
  /\ type.kind = "PRIMITIVE" =>
       /\ decl.kind = "builtin" /\ decl.builtin \in Supported
       /\ type.primitiveKind = Number(decl.builtin)

\* What the TypeToMessageConverter has written so far.
TypeWritten ==
  /\ pc = "visit" => message = NoMessage
  /\ pc = "write" => message.size = 0 /\ message.kind \in {"UNDEFINED", "ENUM"}
  /\ Len(message.value) <= Len(type.values)
  /\ \A k \in 1 .. Len(message.value) : message.value[k] = Int32(type.values[k])
  /\ pc = "written" =>
       /\ type.kind = "ENUM" => message.kind = "ENUM" /\ Len(message.value) = Len(type.values)
       /\ type.kind = "FIXED_ARRAY" => message.kind = "ARRAY" /\ message.size = Int32(type.count)
       /\ type.kind = "VARIADIC_ARRAY" => message.kind = "ARRAY" /\ message.size = 0
       /\ type.kind = "PRIMITIVE" =>
            message.kind = "PRIMITIVE" /\ message.primitiveKind = type.primitiveKind

NumbersInv == NumbersTyped /\ TypeRead /\ TypeWritten

LEMMA Member == ASSUME NEW S, NEW s \in Seq(S), NEW k \in 1 .. Len(s) PROVE s[k] \in S
OBVIOUS

LEMMA AddedValue ==
  ASSUME NEW t \in AnyType, NEW x \in Int, NEW u,
         u = [t EXCEPT !.kind = "ENUM", !.values = Append(t.values, x)]
  PROVE  u \in AnyType /\ u.kind = "ENUM" /\ u.values = Append(t.values, x)
<1>1. t.values \in Seq(Int)
  BY DEF AnyType
<1>2. Append(t.values, x) \in Seq(Int)
  BY <1>1
<1> PICK v \in Seq(Int) : v = Append(t.values, x)
  BY <1>2, Zenon
<1> QED
  BY DEF AnyType

LEMMA AddedField ==
  ASSUME NEW m \in Messages, NEW x \in Int, NEW u,
         u = [m EXCEPT !.kind = "ENUM", !.value = Append(m.value, x)]
  PROVE  u \in Messages /\ u.kind = "ENUM" /\ u.value = Append(m.value, x) /\ u.size = m.size
<1>1. m.value \in Seq(Int)
  BY DEF Messages
<1>2. Append(m.value, x) \in Seq(Int)
  BY <1>1
<1> PICK v \in Seq(Int) : v = Append(m.value, x)
  BY <1>2, Zenon
<1> QED
  BY DEF Messages

LEMMA NumbersStart == NumbersInit => NumbersInv
<1> SUFFICES ASSUME NumbersInit PROVE NumbersInv
  OBVIOUS
<1>1. NumbersTyped
  BY DEF NumbersInit, NumbersTyped, AnyType, Messages, NoType, NoMessage
<1>2. Len(type.values) = 0 /\ Len(message.value) = 0 /\ type.kind = "none" /\ pc = "visit" /\ message = NoMessage
  BY DEF NumbersInit, NoType, NoMessage
<1>3. decl.values \in Seq([bits : Nat \ {0}, value : Int])
  BY <1>1, DeclarationsAssumption DEF NumbersTyped
<1>4. TypeRead
  BY <1>2, <1>3 DEF TypeRead
<1>5. TypeWritten
  BY <1>2 DEF TypeWritten
<1> QED
  BY <1>1, <1>4, <1>5 DEF NumbersInv

\* The visit functions of the TypeConverter.
LEMMA ReadStep ==
  ASSUME NumbersInv,
         \/ VisitEnumerator \/ EnumVisited
         \/ VisitConstantArrayType \/ VisitBuiltinType \/ VisitType \/ MakeVariadicArray
  PROVE  NumbersInv'
<1>0. /\ decl \in Declarations /\ decl.values \in Seq([bits : Nat \ {0}, value : Int])
      /\ decl.count \in [bits : 1 .. LongBits, value : Int] /\ decl.count \in [bits : Nat \ {0}, value : Int]
      /\ Len(decl.values) \in Nat /\ Len(type.values) \in Nat /\ Len(message.value) \in Nat
      /\ type.values \in Seq(Int)
  <2>1. decl \in Declarations /\ Len(type.values) \in Nat /\ Len(message.value) \in Nat /\ type.values \in Seq(Int)
    BY DEF NumbersInv, NumbersTyped, AnyType, Messages
  <2> QED
    BY <2>1, DeclarationsAssumption
<1>1. pc = "visit" /\ message = NoMessage /\ message' = message /\ decl' = decl
  BY DEF NumbersInv, NumbersTyped, AnyType, Messages, TypeWritten, VisitEnumerator, EnumVisited,
         VisitConstantArrayType, VisitBuiltinType, VisitType, MakeVariadicArray
<1>2. Len(message.value) = 0 /\ message.size = 0 /\ message.kind = "UNDEFINED"
  BY <1>1 DEF NoMessage
<1>3. CASE VisitEnumerator
  <2> PICK k \in Nat, x \in Int : k = Len(type.values) /\ x = getLimitedValue(decl.values[k + 1])
    <3>1. Len(type.values) + 1 \in 1 .. Len(decl.values)
      BY <1>0, <1>3 DEF VisitEnumerator
    <3>2. decl.values[Len(type.values) + 1] \in [bits : Nat \ {0}, value : Int]
      BY <1>0, <3>1, Member, Zenon
    <3>3. getLimitedValue(decl.values[Len(type.values) + 1]) \in Int
      BY <3>2, LimitedIsInt
    <3> QED
      BY <1>0, <3>3
  <2>1. type' = [type EXCEPT !.kind = "ENUM", !.values = Append(type.values, x)]
    BY <1>3, Zenon DEF VisitEnumerator
  <2>2. type'.values = Append(type.values, x) /\ type'.kind = "ENUM" /\ NumbersTyped'
    <3>1. type \in AnyType /\ decl' = decl /\ pc' = pc /\ NumbersTyped
      BY <1>3 DEF VisitEnumerator, NumbersInv, NumbersTyped
    <3>2. type' \in AnyType /\ type'.kind = "ENUM" /\ type'.values = Append(type.values, x)
      BY <2>1, <3>1, AddedValue, Zenon
    <3> QED
      BY <1>1, <3>1, <3>2 DEF NumbersTyped
  <2>3. /\ k < Len(decl.values) /\ decl.kind = "enum" /\ pc' = "visit"
        /\ \A j \in 1 .. k : type.values[j] = getLimitedValue(decl.values[j])
    BY <1>1, <1>3 DEF VisitEnumerator, NumbersInv, TypeRead
  <2>4. Len(type'.values) = k + 1 /\ type'.values[k + 1] = x /\ \A j \in 1 .. k : type'.values[j] = type.values[j]
    BY <1>0, <2>2
  <2>5. \A j \in 1 .. k + 1 : type'.values[j] = getLimitedValue(decl.values[j])
    <3> SUFFICES ASSUME NEW j \in 1 .. k + 1 PROVE type'.values[j] = getLimitedValue(decl.values[j])
      OBVIOUS
    <3>1. CASE j = k + 1
      BY <2>4, <3>1
    <3>2. CASE j # k + 1
      <4>1. j \in 1 .. k
        BY <3>2
      <4> QED
        BY <2>3, <2>4, <4>1
    <3> QED
      BY <3>1, <3>2
  <2>6. TypeRead'
    <3>1. k + 1 <= Len(decl.values)
      BY <1>0, <2>3
    <3> QED
      BY <1>1, <2>2, <2>3, <2>4, <2>5, <3>1 DEF TypeRead
  <2>7. TypeWritten'
    BY <1>1, <1>2, <2>3, <2>4 DEF TypeWritten, NoMessage
  <2> QED
    BY <2>2, <2>6, <2>7 DEF NumbersInv
<1>4. ASSUME \/ EnumVisited
             \/ VisitConstantArrayType \/ VisitBuiltinType \/ VisitType \/ MakeVariadicArray
      PROVE  NumbersInv'
  <2>1. type'.values = type.values /\ pc' \in {"write", "thrown"}
    BY <1>4 DEF NumbersInv, NumbersTyped, AnyType, Messages, EnumVisited, VisitConstantArrayType, VisitBuiltinType,
                VisitType, MakeVariadicArray
  <2>2. NumbersTyped'
    <3>1. getLimitedValue(decl.count) \in Int
      BY <1>0, LimitedIsInt
    <3>2. decl.builtin \in Supported => Number(decl.builtin) \in Int
      BY KindArrives
    <3> QED
      BY <1>1, <1>4, <3>1, <3>2 DEF NumbersInv, NumbersTyped, AnyType, Messages, EnumVisited, VisitConstantArrayType,
                VisitBuiltinType, VisitType, MakeVariadicArray
  <2>3. TypeRead'
    <3>1. /\ Len(type'.values) <= Len(decl'.values)
          /\ \A j \in 1 .. Len(type'.values) : type'.values[j] = getLimitedValue(decl'.values[j])
      BY <1>1, <2>1 DEF NumbersInv, TypeRead
    <3>2. /\ type'.kind = "none" => pc' \in {"visit", "thrown"}
          /\ type'.kind = "ENUM" =>
               decl.kind = "enum" /\ (pc' # "visit" => Len(type'.values) = Len(decl.values))
          /\ type'.kind = "FIXED_ARRAY" => decl.kind = "constant array" /\ type'.count = getLimitedValue(decl.count)
          /\ type'.kind = "VARIADIC_ARRAY" => decl.kind = "variadic array"
          /\ type'.kind = "PRIMITIVE" =>
               /\ decl.kind = "builtin" /\ decl.builtin \in Supported
               /\ type'.primitiveKind = Number(decl.builtin)
      <4>1. CASE EnumVisited
        BY <4>1 DEF NumbersInv, NumbersTyped, AnyType, Messages, EnumVisited
      <4>2. CASE VisitConstantArrayType
        BY <4>2 DEF NumbersInv, NumbersTyped, AnyType, Messages, VisitConstantArrayType
      <4>3. CASE VisitBuiltinType
        BY <4>3 DEF NumbersInv, NumbersTyped, AnyType, Messages, TypeRead, VisitBuiltinType
      <4>4. CASE VisitType
        BY <4>4 DEF NumbersInv, NumbersTyped, AnyType, Messages, TypeRead, VisitType
      <4>5. CASE MakeVariadicArray
        BY <4>5 DEF NumbersInv, NumbersTyped, AnyType, Messages, MakeVariadicArray
      <4> QED
        BY <1>4, <4>1, <4>2, <4>3, <4>4, <4>5
    <3> QED
      BY <1>1, <3>1, <3>2 DEF TypeRead
  <2>4. TypeWritten'
    <3>1. pc' \notin {"visit", "written"} /\ Len(message'.value) = 0 /\ Len(type'.values) \in Nat
      BY <1>0, <1>1, <1>2, <2>1
    <3>2. message'.size = 0 /\ message'.kind = "UNDEFINED"
      BY <1>1, <1>2
    <3> QED
      BY <3>1, <3>2 DEF TypeWritten
  <2> QED
    BY <2>2, <2>3, <2>4 DEF NumbersInv
<1> QED
  BY <1>3, <1>4

\* The visit functions of the TypeToMessageConverter.
LEMMA WriteStep ==
  ASSUME NumbersInv,
         \/ visitEnumValue \/ visitEnumType \/ visitFixedArrayType
         \/ visitVariadicArrayType \/ visitPrimitiveType
  PROVE  NumbersInv'
<1>0. /\ Len(type.values) \in Nat /\ Len(message.value) \in Nat
      /\ type.values \in Seq(Int) /\ message.value \in Seq(Int)
  BY DEF NumbersInv, NumbersTyped, AnyType, Messages
<1>1. pc = "write" /\ type' = type /\ decl' = decl /\ pc' \in {"write", "written"}
  BY DEF visitEnumValue, visitEnumType, visitFixedArrayType, visitVariadicArrayType, visitPrimitiveType
<1>2. TypeRead'
  BY <1>1 DEF NumbersInv, TypeRead
<1>3. CASE visitEnumValue
  <2> PICK k \in Nat, x \in Int : k = Len(message.value) /\ x = Int32(type.values[k + 1])
    <3>1. Len(message.value) + 1 \in 1 .. Len(type.values)
      BY <1>0, <1>3 DEF visitEnumValue
    <3>2. type.values[Len(message.value) + 1] \in Int
      BY <1>0, <3>1
    <3>3. Int32(type.values[Len(message.value) + 1]) \in Int
      BY <3>2, FieldIsInt
    <3> QED
      BY <1>0, <3>3
  <2>1. message' = [message EXCEPT !.kind = "ENUM", !.value = Append(message.value, x)]
    BY <1>3, Zenon DEF visitEnumValue
  <2>2. /\ message'.value = Append(message.value, x) /\ message'.kind = "ENUM"
        /\ message'.size = message.size /\ NumbersTyped'
    <3>1. message \in Messages /\ pc' = pc /\ NumbersTyped
      BY <1>3 DEF visitEnumValue, NumbersInv, NumbersTyped
    <3>2. /\ message' \in Messages /\ message'.kind = "ENUM" /\ message'.size = message.size
          /\ message'.value = Append(message.value, x)
      BY <2>1, <3>1, AddedField, Zenon
    <3> QED
      BY <1>1, <3>1, <3>2 DEF NumbersTyped
  <2>3. /\ k < Len(type.values) /\ pc' = "write" /\ message.size = 0
        /\ \A j \in 1 .. k : message.value[j] = Int32(type.values[j])
    BY <1>1, <1>3 DEF visitEnumValue, NumbersInv, TypeWritten
  <2>4. /\ Len(message'.value) = k + 1 /\ message'.value[k + 1] = x
        /\ \A j \in 1 .. k : message'.value[j] = message.value[j]
    BY <1>0, <2>2
  <2>5. \A j \in 1 .. k + 1 : message'.value[j] = Int32(type.values[j])
    <3> SUFFICES ASSUME NEW j \in 1 .. k + 1 PROVE message'.value[j] = Int32(type.values[j])
      OBVIOUS
    <3>1. CASE j = k + 1
      BY <2>4, <3>1
    <3>2. CASE j # k + 1
      <4>1. j \in 1 .. k
        BY <3>2
      <4> QED
        BY <2>3, <2>4, <4>1
    <3> QED
      BY <3>1, <3>2
  <2>6. k + 1 <= Len(type.values)
    BY <1>0, <2>3
  <2>7. TypeWritten'
    BY <1>1, <2>2, <2>3, <2>4, <2>5, <2>6 DEF TypeWritten
  <2> QED
    BY <1>2, <2>2, <2>7 DEF NumbersInv
<1>4. ASSUME visitEnumType \/ visitFixedArrayType \/ visitVariadicArrayType \/ visitPrimitiveType
      PROVE  NumbersInv'
  <2>1. pc' = "written" /\ message'.value = message.value
    BY <1>4 DEF NumbersInv, NumbersTyped, AnyType, Messages, visitEnumType, visitFixedArrayType, visitVariadicArrayType,
                visitPrimitiveType
  <2>2. NumbersTyped'
    <3>1. Int32(type.count) \in Int
      BY FieldIsInt DEF NumbersInv, NumbersTyped, AnyType, Messages
    <3> QED
      BY <1>1, <1>4, <3>1 DEF NumbersInv, NumbersTyped, AnyType, Messages, visitEnumType, visitFixedArrayType,
                visitVariadicArrayType, visitPrimitiveType
  <2>3. /\ type.kind = "ENUM" => message'.kind = "ENUM" /\ Len(message'.value) = Len(type.values)
        /\ type.kind = "FIXED_ARRAY" => message'.kind = "ARRAY" /\ message'.size = Int32(type.count)
        /\ type.kind = "VARIADIC_ARRAY" => message'.kind = "ARRAY" /\ message'.size = 0
        /\ type.kind = "PRIMITIVE" =>
             message'.kind = "PRIMITIVE" /\ message'.primitiveKind = type.primitiveKind
    <3>1. CASE visitEnumType
      BY <3>1 DEF NumbersInv, NumbersTyped, AnyType, Messages, visitEnumType
    <3>2. CASE visitFixedArrayType
      BY <3>2 DEF NumbersInv, NumbersTyped, AnyType, Messages, visitFixedArrayType
    <3>3. CASE visitVariadicArrayType
      BY <3>3 DEF NumbersInv, NumbersTyped, AnyType, Messages, TypeWritten, visitVariadicArrayType
    <3>4. CASE visitPrimitiveType
      BY <3>4 DEF NumbersInv, NumbersTyped, AnyType, Messages, visitPrimitiveType
    <3> QED
      BY <1>4, <3>1, <3>2, <3>3, <3>4
  <2>4. TypeWritten'
    <3>1. /\ Len(message.value) <= Len(type.values)
          /\ \A k \in 1 .. Len(message.value) : message.value[k] = Int32(type.values[k])
      BY DEF NumbersInv, TypeWritten
    <3> QED
      BY <1>1, <2>1, <2>3, <3>1 DEF TypeWritten
  <2> QED
    BY <1>2, <2>2, <2>4 DEF NumbersInv
<1> QED
  BY <1>3, <1>4

LEMMA NumbersInvariant == NumbersSpec => []NumbersInv
<1>1. NumbersInv /\ [NumbersNext]_numberVars => NumbersInv'
  <2>1. NumbersInv /\ NumbersNext => NumbersInv'
    BY ReadStep, WriteStep DEF NumbersNext
  <2>2. NumbersInv /\ UNCHANGED numberVars => NumbersInv'
    BY DEF NumbersInv, NumbersTyped, AnyType, Messages, TypeRead, TypeWritten, numberVars
  <2> QED
    BY <2>1, <2>2
<1> QED
  BY NumbersStart, <1>1, PTL DEF NumbersSpec

-------------------------------------------------------------------------------
\* A number arrives as it was declared, or changed for one of the reasons that
\* visitEnumType and visitFixedArrayType, and getLimitedValue before them, have.
THEOREM NumbersArrive == NumbersSpec => []NumbersKept
<1>1. NumbersInv => NumbersKept
  <2> SUFFICES ASSUME NumbersInv PROVE NumbersKept
    OBVIOUS
  <2>0. /\ decl \in Declarations /\ decl.values \in Seq([bits : Nat \ {0}, value : Int])
        /\ \A k, l \in 1 .. Len(decl.values) :
             decl.values[k].bits = decl.values[l].bits =>
               \/ SignedNumber(decl.values[k]) /\ SignedNumber(decl.values[l])
               \/ UnsignedNumber(decl.values[k]) /\ UnsignedNumber(decl.values[l])
        /\ decl.count \in [bits : 1 .. LongBits, value : Int] /\ UnsignedNumber(decl.count)
    BY DeclarationsAssumption DEF NumbersInv, NumbersTyped, AnyType, Messages
  <2>1. ASSUME pc = "written", decl.kind = "enum"
        PROVE  /\ Len(message.value) = Len(decl.values)
               /\ \A k \in 1 .. Len(decl.values) : message.value[k] = Int32(getLimitedValue(decl.values[k]))
    <3>1. type.kind = "ENUM"
      BY <2>1 DEF NumbersInv, NumbersTyped, AnyType, Messages, TypeRead
    <3>2. Len(message.value) = Len(type.values) /\ Len(type.values) = Len(decl.values)
      BY <2>1, <3>1 DEF NumbersInv, TypeRead, TypeWritten
    <3> QED
      BY <3>2 DEF NumbersInv, TypeRead, TypeWritten
  <2>2. EnumeratorsKept
    <3> SUFFICES ASSUME pc = "written", decl.kind = "enum", NEW k \in 1 .. Len(decl.values), NEW n,
                        n = decl.values[k]
                 PROVE  message.value[k] = n.value <=>
                          /\ InField(n.value)
                          /\ n.value >= 0 \/ (n.bits >= IntBits /\ (n.bits <= LongBits \/ n.value = -1))
      BY <2>1 DEF EnumeratorsKept
    <3>1. n \in [bits : Nat \ {0}, value : Int] /\ (SignedNumber(n) \/ UnsignedNumber(n))
      <4>1. decl.values[k] \in [bits : Nat \ {0}, value : Int]
        BY <2>0, Member, Zenon
      <4>2. SignedNumber(decl.values[k]) \/ UnsignedNumber(decl.values[k])
        BY <2>0, Zenon
      <4> QED
        BY <4>1, <4>2, Zenon
    <3>2. message.value[k] = Int32(getLimitedValue(n))
      BY <2>1
    <3> QED
      BY <3>1, <3>2, EnumeratorArrives
  <2>3. EnumeratorsDistinct
    <3> SUFFICES ASSUME pc = "written", decl.kind = "enum",
                        NEW k \in 1 .. Len(decl.values), NEW l \in 1 .. Len(decl.values),
                        decl.values[k].bits <= IntBits, decl.values[l].bits = decl.values[k].bits,
                        message.value[k] = message.value[l]
                 PROVE  decl.values[k] = decl.values[l]
      BY DEF EnumeratorsDistinct
    <3>1. decl.values[k] \in [bits : Nat \ {0}, value : Int] /\ decl.values[l] \in [bits : Nat \ {0}, value : Int]
      BY <2>0, Member, Zenon
    <3>2. \/ SignedNumber(decl.values[k]) /\ SignedNumber(decl.values[l])
          \/ UnsignedNumber(decl.values[k]) /\ UnsignedNumber(decl.values[l])
      BY <2>0
    <3>3. Int32(getLimitedValue(decl.values[k])) = Int32(getLimitedValue(decl.values[l]))
      BY <2>1
    <3> QED
      BY <3>1, <3>2, <3>3, EnumeratorsDiffer
  <2>4. SizesKept
    <3> SUFFICES ASSUME pc = "written", message.kind = "ARRAY"
                 PROVE  /\ decl.kind = "constant array" /\ InField(decl.count.value) => message.size = decl.count.value
                        /\ message.size = 0 <=>
                             decl.kind = "variadic array" \/ decl.count.value % Pow2[IntBits] = 0
      BY DEF SizesKept
    <3>1. \/ /\ decl.kind = "variadic array" /\ message.size = 0
          \/ /\ decl.kind = "constant array" /\ message.size = Int32(getLimitedValue(decl.count))
      BY DEF NumbersInv, NumbersTyped, AnyType, Messages, TypeRead, TypeWritten
    <3>2. /\ InField(decl.count.value) => Int32(getLimitedValue(decl.count)) = decl.count.value
          /\ Int32(getLimitedValue(decl.count)) = 0 <=> decl.count.value % Pow2[IntBits] = 0
      BY <2>0, SizeArrives
    <3> QED
      BY <3>1, <3>2
  <2> QED
    BY <2>2, <2>3, <2>4 DEF NumbersKept
<1> QED
  BY NumbersInvariant, <1>1, PTL

\* The reader gets the primitive kind by the name that clang has for it: the
\* cast of visitPrimitiveType relies on the order of two enumerations.
THEOREM KindsArrive == NumbersSpec => []KindsKept
<1>1. NumbersInv => KindsKept
  <2> SUFFICES ASSUME NumbersInv, pc = "written", decl.kind = "builtin"
               PROVE  /\ PrimitiveKind_IsValid(message.primitiveKind)
                      /\ ProtoPrimitiveKind[decl.builtin] = message.primitiveKind
    BY DEF KindsKept
  <2>1. type.kind = "PRIMITIVE"
    BY DEF NumbersInv, NumbersTyped, AnyType, Messages, TypeRead
  <2>2. decl.builtin \in Supported /\ message.primitiveKind = Number(decl.builtin)
    BY <2>1 DEF NumbersInv, TypeRead, TypeWritten
  <2> QED
    BY <2>2, KindArrives DEF PrimitiveKind_IsValid
<1> QED
  BY NumbersInvariant, <1>1, PTL

-------------------------------------------------------------------------------
(* The Catalog and its SymbolTable.                                         *)

\* The invariant: the two representations agree, and they hold types only.
CatalogIInv == typeSeq \in Seq(Types) /\ SeqMatchesSet

\* What erasing the only occurrence of t leaves: everything before it where it
\* was, everything after it one position earlier.
LEMMA EraseShifts ==
  ASSUME NEW S, NEW s \in Seq(S), NEW n \in 1 .. Len(s),
         \A a, b \in 1 .. Len(s) : s[a] = s[b] => a = b
  PROVE  /\ erase(s, s[n]) \in Seq(S)
         /\ Len(erase(s, s[n])) = Len(s) - 1
         /\ \A a \in 1 .. n - 1 : erase(s, s[n])[a] = s[a]
         /\ \A a \in n .. Len(s) - 1 : erase(s, s[n])[a] = s[a + 1]
<1> DEFINE k == CHOOSE k \in 1 .. Len(s) : s[k] = s[n] /\ \A m \in 1 .. k - 1 : s[m] # s[n]
<1>1. Len(s) \in Nat
  OBVIOUS
<1>2. \A m \in 1 .. n - 1 : s[m] # s[n]
  BY <1>1
<1>3. k \in 1 .. Len(s) /\ s[k] = s[n]
  BY <1>2
<1>4. k = n
  BY <1>3
<1> HIDE DEF k
<1>5. PICK f : f = SubSeq(s, 1, n - 1)
  OBVIOUS
<1>6. PICK g : g = SubSeq(s, n + 1, Len(s))
  OBVIOUS
<1>7. erase(s, s[n]) = f \o g
  BY <1>4, <1>5, <1>6 DEF erase, k
<1>8. f \in Seq(S) /\ Len(f) = n - 1 /\ \A a \in 1 .. n - 1 : f[a] = s[a]
  BY <1>1, <1>5
<1>9. g \in Seq(S) /\ Len(g) = Len(s) - n /\ \A a \in 1 .. Len(s) - n : g[a] = s[n + a]
  BY <1>1, <1>6
<1>10. f \o g \in Seq(S) /\ Len(f \o g) = Len(s) - 1
  BY <1>1, <1>8, <1>9
<1>11. \A a \in 1 .. n - 1 : (f \o g)[a] = s[a]
  BY <1>1, <1>8, <1>9
<1>12. ASSUME NEW a \in n .. Len(s) - 1 PROVE (f \o g)[a] = s[a + 1]
  <2>1. a - (n - 1) \in 1 .. Len(s) - n /\ n + (a - (n - 1)) = a + 1
    BY <1>1
  <2>2. (f \o g)[a] = g[a - (n - 1)]
    BY <1>1, <1>8, <1>9
  <2> QED
    BY <1>9, <2>1, <2>2
<1> QED
  BY <1>7, <1>10, <1>11, <1>12

\* The order of the other types is that of the sequence before.
LEMMA EraseKeeps ==
  ASSUME NEW S, NEW s \in Seq(S), NEW n \in 1 .. Len(s),
         \A a, b \in 1 .. Len(s) : s[a] = s[b] => a = b
  PROVE  \A t, u : t # s[n] /\ u # s[n] =>
           (InOrder(s, t, u) <=> InOrder(erase(s, s[n]), t, u))
<1> SUFFICES ASSUME NEW t, NEW u, t # s[n], u # s[n], NEW r, r = erase(s, s[n])
             PROVE  InOrder(s, t, u) <=> InOrder(r, t, u)
  OBVIOUS
<1>1. /\ Len(s) \in Nat /\ Len(r) = Len(s) - 1
      /\ \A a \in 1 .. n - 1 : r[a] = s[a]
      /\ \A a \in n .. Len(s) - 1 : r[a] = s[a + 1]
  BY EraseShifts
<1>2. ASSUME InOrder(s, t, u) PROVE InOrder(r, t, u)
  <2>1. PICK a, b \in 1 .. Len(s) : a < b /\ s[a] = t /\ s[b] = u
    BY <1>2 DEF InOrder
  <2>2. PICK c \in 1 .. Len(r) : r[c] = t /\ (IF a < n THEN c = a ELSE c = a - 1)
    BY <1>1, <2>1
  <2>3. PICK d \in 1 .. Len(r) : r[d] = u /\ (IF b < n THEN d = b ELSE d = b - 1)
    BY <1>1, <2>1
  <2>4. a # n /\ b # n
    BY <2>1
  <2>5. c < d
    BY <2>1, <2>2, <2>3, <2>4
  <2> QED
    BY <2>2, <2>3, <2>5 DEF InOrder
<1>3. ASSUME InOrder(r, t, u) PROVE InOrder(s, t, u)
  <2>1. PICK a, b \in 1 .. Len(r) : a < b /\ r[a] = t /\ r[b] = u
    BY <1>3 DEF InOrder
  <2>2. PICK c \in 1 .. Len(s) : s[c] = t /\ (IF a < n THEN c = a ELSE c = a + 1)
    BY <1>1, <2>1
  <2>3. PICK d \in 1 .. Len(s) : s[d] = u /\ (IF b < n THEN d = b ELSE d = b + 1)
    BY <1>1, <2>1
  <2>4. c < d
    BY <2>1, <2>2, <2>3
  <2> QED
    BY <2>2, <2>3, <2>4 DEF InOrder
<1> QED
  BY <1>2, <1>3

-------------------------------------------------------------------------------
\* addType appends a type the sequence does not hold.
LEMMA AddKeeps ==
  ASSUME CatalogIInv, NEW t \in Types, addType(t)
  PROVE  CatalogIInv' /\ \A u, v \in typeSet \intersect typeSet' :
                    InOrder(typeSeq, u, v) <=> InOrder(typeSeq', u, v)
<1>1. /\ typeSeq \in Seq(Types) /\ Len(typeSeq) \in Nat
      /\ typeSet = {typeSeq[k] : k \in 1 .. Len(typeSeq)}
      /\ \A a, b \in 1 .. Len(typeSeq) : typeSeq[a] = typeSeq[b] => a = b
  BY DEF CatalogIInv, SeqMatchesSet
<1>2. CASE t \in typeSet
  <2>1. UNCHANGED <<typeSeq, typeSet>>
    BY <1>2 DEF addType
  <2> QED
    BY <1>1, <2>1 DEF CatalogIInv, SeqMatchesSet, InOrder
<1>3. CASE t \notin typeSet
  <2>1. typeSeq' = Append(typeSeq, t) /\ typeSet' = typeSet \union {t}
    BY <1>3 DEF addType
  <2>2. /\ typeSeq' \in Seq(Types) /\ Len(typeSeq') = Len(typeSeq) + 1
        /\ typeSeq'[Len(typeSeq) + 1] = t
        /\ \A a \in 1 .. Len(typeSeq) : typeSeq'[a] = typeSeq[a]
    BY <1>1, <2>1
  <2>3. \A a \in 1 .. Len(typeSeq) : typeSeq[a] # t
    BY <1>1, <1>3
  <2>4. \A a, b \in 1 .. Len(typeSeq') : typeSeq'[a] = typeSeq'[b] => a = b
    BY <1>1, <2>2, <2>3
  <2>5. typeSet' = {typeSeq'[k] : k \in 1 .. Len(typeSeq')}
    <3>1. ASSUME NEW x \in typeSet' PROVE \E a \in 1 .. Len(typeSeq') : x = typeSeq'[a]
      <4>1. CASE x = t
        BY <1>1, <2>2, <4>1
      <4>2. CASE x # t
        BY <1>1, <2>1, <2>2, <3>1, <4>2
      <4> QED
        BY <4>1, <4>2
    <3>2. ASSUME NEW a \in 1 .. Len(typeSeq') PROVE typeSeq'[a] \in typeSet'
      <4>1. CASE a = Len(typeSeq) + 1
        BY <2>1, <2>2, <4>1
      <4>2. CASE a # Len(typeSeq) + 1
        <5>1. a \in 1 .. Len(typeSeq)
          BY <1>1, <2>2, <4>2
        <5> QED
          BY <1>1, <2>1, <2>2, <5>1
      <4> QED
        BY <4>1, <4>2
    <3> QED
      BY <3>1, <3>2
  <2>6. ASSUME NEW u \in typeSet, NEW v \in typeSet
        PROVE  InOrder(typeSeq, u, v) <=> InOrder(typeSeq', u, v)
    <3>1. u # t /\ v # t
      BY <1>3
    <3>2. ASSUME InOrder(typeSeq, u, v) PROVE InOrder(typeSeq', u, v)
      <4>1. PICK a, b \in 1 .. Len(typeSeq) : a < b /\ typeSeq[a] = u /\ typeSeq[b] = v
        BY <3>2 DEF InOrder
      <4>2. a \in 1 .. Len(typeSeq') /\ b \in 1 .. Len(typeSeq')
        BY <1>1, <2>2, <4>1
      <4> QED
        BY <2>2, <4>1, <4>2 DEF InOrder
    <3>3. InOrder(typeSeq', u, v) => InOrder(typeSeq, u, v)
      BY <1>1, <2>2, <3>1 DEF InOrder
    <3> QED
      BY <3>2, <3>3
  <2> QED
    BY <2>2, <2>4, <2>5, <2>6 DEF CatalogIInv, SeqMatchesSet
<1> QED
  BY <1>2, <1>3

\* removeType erases the only occurrence of the type.
LEMMA RemoveKeeps ==
  ASSUME CatalogIInv, NEW t \in Types, removeType(t)
  PROVE  CatalogIInv' /\ \A u, v \in typeSet \intersect typeSet' :
                    InOrder(typeSeq, u, v) <=> InOrder(typeSeq', u, v)
<1>1. /\ typeSeq \in Seq(Types) /\ Len(typeSeq) \in Nat
      /\ typeSet = {typeSeq[k] : k \in 1 .. Len(typeSeq)}
      /\ \A a, b \in 1 .. Len(typeSeq) : typeSeq[a] = typeSeq[b] => a = b
  BY DEF CatalogIInv, SeqMatchesSet
<1>2. CASE t \notin typeSet
  <2>1. UNCHANGED <<typeSeq, typeSet>>
    BY <1>2 DEF removeType
  <2> QED
    BY <1>1, <2>1 DEF CatalogIInv, SeqMatchesSet, InOrder
<1>3. CASE t \in typeSet
  <2>1. PICK n \in 1 .. Len(typeSeq) : typeSeq[n] = t
    BY <1>1, <1>3
  <2>2. typeSeq' = erase(typeSeq, typeSeq[n]) /\ typeSet' = typeSet \ {t}
    BY <1>3, <2>1 DEF removeType
  <2>3. /\ typeSeq' \in Seq(Types) /\ Len(typeSeq') = Len(typeSeq) - 1
        /\ \A a \in 1 .. n - 1 : typeSeq'[a] = typeSeq[a]
        /\ \A a \in n .. Len(typeSeq) - 1 : typeSeq'[a] = typeSeq[a + 1]
    BY <1>1, <2>2, EraseShifts
  <2>4. \A a \in 1 .. Len(typeSeq') : \E b \in 1 .. Len(typeSeq) :
          typeSeq'[a] = typeSeq[b] /\ (IF a < n THEN b = a ELSE b = a + 1)
    <3> SUFFICES ASSUME NEW a \in 1 .. Len(typeSeq')
                 PROVE  \E b \in 1 .. Len(typeSeq) :
                          typeSeq'[a] = typeSeq[b] /\ (IF a < n THEN b = a ELSE b = a + 1)
      OBVIOUS
    <3>1. CASE a < n
      BY <1>1, <2>3, <3>1
    <3>2. CASE ~ (a < n)
      <4>1. a \in n .. Len(typeSeq) - 1 /\ a + 1 \in 1 .. Len(typeSeq)
        BY <1>1, <2>3, <3>2
      <4> QED
        BY <2>3, <3>2, <4>1
    <3> QED
      BY <3>1, <3>2
  <2>5. \A a, b \in 1 .. Len(typeSeq') : typeSeq'[a] = typeSeq'[b] => a = b
    BY <1>1, <2>3, <2>4
  <2>6. typeSet' = {typeSeq'[k] : k \in 1 .. Len(typeSeq')}
    <3>1. ASSUME NEW x \in typeSet' PROVE \E a \in 1 .. Len(typeSeq') : x = typeSeq'[a]
      <4>1. PICK b \in 1 .. Len(typeSeq) : x = typeSeq[b]
        BY <1>1, <2>2
      <4>2. b # n
        BY <2>1, <2>2, <4>1
      <4>3. CASE b < n
        BY <1>1, <2>3, <4>1, <4>3
      <4>4. CASE b > n
        <5>1. b - 1 \in n .. Len(typeSeq) - 1
          BY <1>1, <4>4
        <5>2. typeSeq'[b - 1] = typeSeq[b]
          BY <1>1, <2>3, <5>1
        <5> QED
          BY <1>1, <2>3, <4>1, <5>1, <5>2
      <4> QED
        BY <4>2, <4>3, <4>4
    <3>2. ASSUME NEW a \in 1 .. Len(typeSeq') PROVE typeSeq'[a] \in typeSet'
      <4>1. PICK b \in 1 .. Len(typeSeq) :
              typeSeq'[a] = typeSeq[b] /\ (IF a < n THEN b = a ELSE b = a + 1)
        BY <2>4
      <4>2. b # n
        BY <4>1
      <4>3. typeSeq[b] # t
        BY <1>1, <2>1, <4>2
      <4> QED
        BY <1>1, <2>2, <4>1, <4>3
    <3> QED
      BY <3>1, <3>2
  <2>7. \A u, v \in typeSet \intersect typeSet' :
          InOrder(typeSeq, u, v) <=> InOrder(typeSeq', u, v)
    <3>1. \A u \in typeSet' : u # typeSeq[n]
      BY <2>1, <2>2
    <3> QED
      BY <1>1, <2>2, <3>1, EraseKeeps
  <2> QED
    BY <2>3, <2>5, <2>6, <2>7 DEF CatalogIInv, SeqMatchesSet
<1> QED
  BY <1>2, <1>3

LEMMA StepKeeps ==
  ASSUME CatalogIInv, [CatalogNext]_catalogVars
  PROVE  CatalogIInv' /\ \A u, v \in typeSet \intersect typeSet' :
                    InOrder(typeSeq, u, v) <=> InOrder(typeSeq', u, v)
<1>1. CASE UNCHANGED <<typeSeq, typeSet>>
  BY <1>1 DEF CatalogIInv, SeqMatchesSet, InOrder
<1>2. ASSUME NEW e \in Exports, addExport(e) \/ removeExport(e)
      PROVE  UNCHANGED <<typeSeq, typeSet>>
  BY <1>2 DEF addExport, removeExport
<1> QED
  BY <1>1, <1>2, AddKeeps, RemoveKeeps DEF CatalogNext, catalogVars

LEMMA InvHolds == CatalogSpec => []CatalogIInv
<1>1. CatalogInit => CatalogIInv
  BY DEF CatalogInit, CatalogIInv, SeqMatchesSet
<1>2. CatalogIInv /\ [CatalogNext]_catalogVars => CatalogIInv'
  BY StepKeeps
<1> QED
  BY <1>1, <1>2, PTL DEF CatalogSpec

\* The sequence and the set of types (src/Catalog.cpp:14-20, 34-40) agree after
\* any calls: no type is in one of them only, and none is in the sequence twice.
THEOREM SetAgrees == CatalogSpec => []SeqMatchesSet
<1>1. CatalogIInv => SeqMatchesSet
  BY DEF CatalogIInv
<1> QED
  BY <1>1, InvHolds, PTL

\* addType and removeType leave the order of the other types as it was.
THEOREM OrderStays == CatalogSpec => OrderKept
<1>1. CatalogIInv /\ [CatalogNext]_catalogVars =>
        [\A s, t \in typeSet \intersect typeSet' :
           InOrder(typeSeq, s, t) <=> InOrder(typeSeq', s, t)]_catalogVars
  BY StepKeeps
<1> QED
  BY <1>1, InvHolds, PTL DEF CatalogSpec, OrderKept

-------------------------------------------------------------------------------
(* The table. *)

\* What the table has for each name.
Kept ==
  \A n \in Names :
    /\ n \in removed => table[n] = NULL
    /\ n \notin removed /\ made =>
         \/ table[n] = NULL /\ \A k \in 1 .. Len(range) : namesThen[range[k]] # n
         \/ \E k \in 1 .. Len(range) : Leads(k, n) /\ table[n] = range[k]

TableTyped ==
  /\ range \in Seq(Entries) /\ removed \subseteq Names /\ made \in BOOLEAN
  /\ table \in [Names -> Entries \cup {NULL}]
  /\ ~ made => removed = {}
  /\ name \in [Entries -> Names] /\ namesThen \in [Entries -> Names]

\* A call was a call of the table as it is.
Answered == call.op = "get" => made /\ call.name \in Names

TableInv == TableTyped /\ Kept /\ Answered /\ LookupFaithful /\ SizeFaithful /\ HasFaithful /\ RemoveFaithful

\* A set of indices that is not empty has a least one.
LEMMA Least ==
  ASSUME NEW S \in SUBSET Nat, NEW k \in S
  PROVE  \E m \in S : \A l \in S : m <= l
<1>1. PICK m \in S : \A l \in S : ~ (<<l, m>> \in OpToRel(<, Nat))
  BY WFMin, NatLessThanWellFounded
<1>2. ASSUME NEW l \in S PROVE m <= l
  <2>1. <<l, m>> \in Nat \X Nat /\ <<l, m>>[1] = l /\ <<l, m>>[2] = m
    OBVIOUS
  <2>2. ~ (l < m)
    BY <1>1, <2>1, Zenon DEF OpToRel
  <2>3. QED
    BY <2>2
<1>3. QED
  BY <1>2

\* What the table is filled with.
LEMMA FirstLeads ==
  ASSUME NEW s \in Seq(Entries), NEW n \in Names
  PROVE  \/ FirstOf(s, n) = NULL /\ \A k \in 1 .. Len(s) : name[s[k]] # n
         \/ \E k \in 1 .. Len(s) :
              name[s[k]] = n /\ (\A m \in 1 .. k - 1 : name[s[m]] # n) /\ FirstOf(s, n) = s[k]
<1>1. CASE \A k \in 1 .. Len(s) : name[s[k]] # n
  BY <1>1 DEF FirstOf
<1>2. CASE \E k \in 1 .. Len(s) : name[s[k]] = n
  <2> DEFINE S == {k \in 1 .. Len(s) : name[s[k]] = n}
  <2>1. \E k \in S : \A l \in S : k <= l
    <3>1. S \in SUBSET Nat
      OBVIOUS
    <3>2. PICK k \in S : TRUE
      BY <1>2
    <3> HIDE DEF S
    <3>3. QED
      BY <3>1, <3>2, Least
  <2>2. Len(s) \in Nat
    OBVIOUS
  <2>3. \E k \in 1 .. Len(s) : name[s[k]] = n /\ \A m \in 1 .. k - 1 : name[s[m]] # n
    BY <2>1, <2>2
  <2>4. QED
    BY <1>2, <2>3 DEF FirstOf
<1>3. QED
  BY <1>1, <1>2

LEMMA TableInitHolds == TableInit => TableInv
<1>1. SUFFICES ASSUME TableInit PROVE TableInv
  OBVIOUS
<1>2. QED
  BY <1>1, RangesAssumption DEF TableInit, TableInv, TableTyped, Kept, Answered, LookupFaithful, SizeFaithful, HasFaithful, RemoveFaithful

LEMMA ConstructKeeps == ASSUME TableInv, Construct PROVE TableInv'
<1>1. ASSUME NEW n \in Names
      PROVE  FirstOf(range, n) \in Entries \cup {NULL}
  BY FirstLeads DEF TableInv, TableTyped
<1>2. TableTyped'
  BY <1>1 DEF TableInv, TableTyped, Construct
<1>3. Kept'
  <2>1. SUFFICES ASSUME NEW n \in Names
                 PROVE  /\ n \in removed => table'[n] = NULL
                        /\ n \notin removed =>
                             \/ table'[n] = NULL /\ \A k \in 1 .. Len(range) : name[range[k]] # n
                             \/ \E k \in 1 .. Len(range) :
                                  /\ name[range[k]] = n /\ (\A m \in 1 .. k - 1 : name[range[m]] # n)
                                  /\ table'[n] = range[k]
    BY DEF Construct, Kept, Leads
  <2>2. table'[n] = FirstOf(range, n)
    BY DEF Construct
  <2>3. n \notin removed
    BY DEF TableInv, TableTyped, Construct
  <2>4. range \in Seq(Entries)
    BY DEF TableInv, TableTyped
  <2>5. QED
    BY <2>2, <2>3, <2>4, FirstLeads
<1>4. (Answered /\ LookupFaithful /\ SizeFaithful /\ HasFaithful /\ RemoveFaithful)'
  BY DEF Construct, Answered, LookupFaithful, SizeFaithful, HasFaithful, RemoveFaithful
<1>5. QED
  BY <1>2, <1>3, <1>4 DEF TableInv

\* What is answered is what the table has.
LEMMA getExportKeeps == ASSUME TableInv, NEW n \in Names, getExport(n) PROVE TableInv'
<1>1. (TableTyped /\ Kept)'
  BY DEF TableInv, TableTyped, Kept, Leads, getExport
<1>2. (Answered /\ SizeFaithful /\ HasFaithful /\ RemoveFaithful)'
  BY DEF getExport, Answered, SizeFaithful, HasFaithful, RemoveFaithful
<1>3. LookupFaithful'
  <2>1. \/ table[n] = NULL /\ (n \in removed \/ \A k \in 1 .. Len(range) : namesThen[range[k]] # n)
        \/ table[n] # NULL /\ n \notin removed /\ \E k \in 1 .. Len(range) : Leads(k, n) /\ table[n] = range[k]
    <3>1. \A k \in 1 .. Len(range) : range[k] # NULL
      BY ExportsAssumption DEF TableInv, TableTyped
    <3>2. QED
      BY <3>1 DEF TableInv, Kept, getExport
  <2>2. call'.name = n /\ result' = table[n]
    BY DEF getExport
  <2>3. QED
    BY <2>1, <2>2 DEF LookupFaithful, Leads, getExport
<1>4. QED
  BY <1>1, <1>2, <1>3 DEF TableInv

\* The names with an entry are those of then that were not removed.
LEMMA KeysAreNames ==
  ASSUME TableInv, made
  PROVE  \A n \in Names :
           n \in Keys <=> n \notin removed /\ \E k \in 1 .. Len(range) : namesThen[range[k]] = n
<1>1. \A k \in 1 .. Len(range) : range[k] # NULL
  BY ExportsAssumption DEF TableInv, TableTyped
<1>2. QED
  BY <1>1 DEF TableInv, Kept, Leads, Keys

LEMMA hasExportKeeps == ASSUME TableInv, NEW n \in Names, hasExport(n) PROVE TableInv'
<1>1. (TableTyped /\ Kept)'
  BY DEF TableInv, TableTyped, Kept, Leads, hasExport
<1>2. (Answered /\ LookupFaithful /\ SizeFaithful /\ RemoveFaithful)'
  BY DEF hasExport, Answered, LookupFaithful, SizeFaithful, RemoveFaithful
<1>3. HasFaithful'
  <2>1. made /\ UNCHANGED <<range, namesThen, removed>> /\ call'.name = n /\ result' = (n \in Keys)
    BY DEF hasExport
  <2>2. (n \in Keys) = (n \notin removed /\ \E k \in 1 .. Len(range) : namesThen[range[k]] = n)
    BY <2>1, KeysAreNames
  <2>3. QED
    BY <2>1, <2>2 DEF HasFaithful
<1>4. QED
  BY <1>1, <1>2, <1>3 DEF TableInv

LEMMA removeNameKeeps == ASSUME TableInv, NEW n \in Names, removeName(n) PROVE TableInv'
<1>1. TableTyped'
  BY DEF TableInv, TableTyped, removeName
<1>2. Kept'
  BY DEF TableInv, TableTyped, Kept, Leads, removeName
<1>3. (Answered /\ LookupFaithful /\ SizeFaithful /\ HasFaithful)'
  BY DEF removeName, Answered, LookupFaithful, SizeFaithful, HasFaithful
<1>4. RemoveFaithful'
  <2>1. /\ made /\ UNCHANGED <<range, namesThen>> /\ removedThen' = removed
        /\ call'.name = n /\ result' = (n \in Keys)
    BY DEF removeName
  <2>2. (n \in Keys) = (n \notin removed /\ \E k \in 1 .. Len(range) : namesThen[range[k]] = n)
    BY <2>1, KeysAreNames
  <2>3. QED
    BY <2>1, <2>2 DEF RemoveFaithful
<1>5. QED
  BY <1>1, <1>2, <1>3, <1>4 DEF TableInv

\* A new name of an export does not change what the table says.
LEMMA OthersKeep ==
  ASSUME TableInv,
         \/ \E ex \in Entries, n \in Names : Rename(ex, n)
         \/ UNCHANGED tableVars
  PROVE  TableInv'
<1>0. UNCHANGED <<range, namesThen, removed, removedThen, table, made, call, result>>
  BY DEF Rename, tableVars
<1>1. (TableTyped /\ Kept)'
  <2>1. name' \in [Entries -> Names]
    BY DEF TableInv, TableTyped, Rename, tableVars
  <2>2. QED
    BY <1>0, <2>1 DEF TableInv, TableTyped, Kept, Leads
<1>2. (Answered /\ LookupFaithful)'
  BY <1>0 DEF TableInv, Answered, LookupFaithful, Leads
<1>3. (SizeFaithful /\ HasFaithful /\ RemoveFaithful)'
  BY <1>0 DEF TableInv, SizeFaithful, HasFaithful, RemoveFaithful
<1>4. QED
  BY <1>1, <1>2, <1>3 DEF TableInv

LEMMA sizeKeeps == ASSUME TableInv, size PROVE TableInv'
<1>1. (TableTyped /\ Kept)'
  BY DEF TableInv, TableTyped, Kept, Leads, size
<1>2. (Answered /\ LookupFaithful /\ HasFaithful /\ RemoveFaithful)'
  BY DEF Answered, LookupFaithful, HasFaithful, RemoveFaithful, size
<1>3. SizeFaithful'
  <2> DEFINE Then == {namesThen[range[k]] : k \in 1 .. Len(range)}
  <2>1. \A n \in Names : n \in Keys <=> n \in Then \ removed
    BY KeysAreNames DEF size
  <2>2. \A n \in Then : n \in Names
    BY DEF TableInv, TableTyped
  <2>3. Keys = Then \ removed
    BY <2>1, <2>2 DEF Keys
  <2>4. QED
    BY <2>3 DEF SizeFaithful, size
<1>4. QED
  BY <1>1, <1>2, <1>3 DEF TableInv

LEMMA TableNextKeeps == TableInv /\ [TableNext]_tableVars => TableInv'
BY ConstructKeeps, getExportKeeps, hasExportKeeps, removeNameKeeps, sizeKeeps, OthersKeep DEF TableNext

\* getExport answers with the export that came first under the name when the
\* table was made, unless the name was removed, whatever exports are called now.
THEOREM LookupIsFaithful == TableSpec => []LookupFaithful
<1>1. TableInv => LookupFaithful
  BY DEF TableInv
<1>2. QED
  BY <1>1, TableInitHolds, TableNextKeeps, PTL DEF TableSpec

\* The size is the number of names that getExport would find.
THEOREM SizeIsFaithful == TableSpec => []SizeFaithful
<1>1. TableInv => SizeFaithful
  BY DEF TableInv
<1>2. QED
  BY <1>1, TableInitHolds, TableNextKeeps, PTL DEF TableSpec

\* These two, and what hasExport and removeExport answer: no answer of the table
\* is wrong, for any exports and any renaming behind its back.
THEOREM TableIsFaithful == TableSpec => []TableFaithful
<1>1. TableInv => TableFaithful
  BY DEF TableInv, TableFaithful
<1>2. QED
  BY <1>1, TableInitHolds, TableNextKeeps, PTL DEF TableSpec
===============================================================================
