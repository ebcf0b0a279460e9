----------------------------- MODULE PointerProofs -----------------------------
(*****************************************************************************)
(* Where the program keeps plain pointers.  Between the types of the AST:    *)
(* for any types, entries and replacement, the visitor of Type::replace,     *)
(* called on one entry after the other, has the effect ReplaceAll, which is  *)
(* what ExportCollector takes replaceType to do.  And from the messages to   *)
(* their Value: for any number of messages, Values and arenas, wherever the  *)
(* messages live, every Value has one who deletes it, no pointer dangles,    *)
(* none is shared and nothing is deleted twice.                              *)
(*****************************************************************************)
EXTENDS Replace, SubMessage, SequenceTheorems, TLAPS

-------------------------------------------------------------------------------
(* The types.                                                                *)

Ids == 1 .. Len(before)
Kinds == Descended \union Leaves \union {"qualified"}

\* The member n of o is as it has to be in the end.
Done(o, n) == objs[o].kids[n] = IF before[o].kids[n] = src THEN dest ELSE before[o].kids[n]

Touchable(o) == o # src /\ before[o].kind \in Descended

\* All members of o are.
Rewritten(o) == Touchable(o) => \A n \in 1 .. Len(before[o].kids) : Done(o, n)

OnStack(o) == \E p \in 1 .. Len(stack) : stack[p].type = o

Given ==
  /\ src \in Ids /\ dest \in Ids
  /\ before \in Seq([kind : Kinds, kids : Seq(Ids)])
  /\ \A o \in Ids : before[o].kind \in Leaves => before[o].kids = << >>
  /\ entries \in Seq(Ids)
  /\ stack \in Seq([type : Ids, member : Nat])
  /\ visited \subseteq Ids

\* A type keeps its kind and its number of members, and a member that is not
\* as it was was src. What is not visited has not changed at all.
Half ==
  /\ objs \in Seq([kind : Kinds, kids : Seq(Ids)])
  /\ Len(objs) = Len(before)
  /\ \A o \in Ids :
       /\ objs[o].kind = before[o].kind
       /\ Len(objs[o].kids) = Len(before[o].kids)
       /\ \A n \in 1 .. Len(before[o].kids) : objs[o].kids[n] = before[o].kids[n] \/ (Touchable(o) /\ Done(o, n))

\* The visits that are under way are of different types, and have done the
\* members before the one they are at.
Visiting ==
  /\ \A p \in 1 .. Len(stack) :
       /\ Touchable(stack[p].type)
       /\ stack[p].type \in visited
       /\ stack[p].member \in 1 .. Len(before[stack[p].type].kids) + 1
       /\ \A n \in 1 .. stack[p].member - 1 : Done(stack[p].type, n)
  /\ \A p, q \in 1 .. Len(stack) : stack[p].type = stack[q].type => p = q

\* A type that is not rewritten has its turn still to come.
Remaining ==
  \A o \in Ids : Rewritten(o) \/ OnStack(o) \/ \E n \in 1 .. Len(entries) : entries[n] = o

\* The members that a visit of o descends into.
Below(o, n) == before[o].kids[n] # src /\ (before[o].kind = "function" => n > 1)

\* What has been visited is rewritten, or is being visited; and what lies below
\* it has been visited as well, up to where the visit is.
Reached ==
  \A o \in visited :
    /\ Touchable(o)
    /\ Rewritten(o) \/ OnStack(o)
    /\ \A n \in 1 .. Len(before[o].kids) :
         Below(o, n) /\ (\A p \in 1 .. Len(stack) : stack[p].type = o => n < stack[p].member)
           => before[o].kids[n] \in visited \/ before[before[o].kids[n]].kind \notin Descended

IInv == Given /\ Half /\ Visiting /\ Remaining /\ Reached

-------------------------------------------------------------------------------
(* The stack.                                                                *)

Frames == [type : Ids, member : Nat]

LEMMA BeforeTyped ==
  ASSUME IInv, NEW o \in Ids
  PROVE  /\ before[o].kind \in Kinds
         /\ before[o].kids \in Seq(Ids)
         /\ objs[o].kids \in Seq(Ids)
         /\ objs[o].kind = before[o].kind
         /\ Len(objs[o].kids) = Len(before[o].kids)
         /\ Len(before[o].kids) \in Nat
         /\ \A n \in 1 .. Len(before[o].kids) : before[o].kids[n] \in Ids /\ objs[o].kids[n] \in Ids
         /\ \A n \in 1 .. Len(before[o].kids) : objs[o].kids[n] = before[o].kids[n] \/ (Touchable(o) /\ Done(o, n))
<1>1. before \in Seq([kind : Kinds, kids : Seq(Ids)]) /\ objs \in Seq([kind : Kinds, kids : Seq(Ids)])
  BY DEF IInv, Given, Half
<1>2. o \in 1 .. Len(before) /\ o \in 1 .. Len(objs)
  BY DEF IInv, Half, Ids
<1>3. before[o] \in [kind : Kinds, kids : Seq(Ids)] /\ objs[o] \in [kind : Kinds, kids : Seq(Ids)]
  BY <1>1, <1>2, ElementOfSeq
<1>4. /\ objs[o].kind = before[o].kind
      /\ Len(objs[o].kids) = Len(before[o].kids)
      /\ \A n \in 1 .. Len(before[o].kids) : objs[o].kids[n] = before[o].kids[n] \/ (Touchable(o) /\ Done(o, n))
  BY DEF IInv, Half
<1> QED
  BY <1>3, <1>4

LEMMA FrameTyped ==
  ASSUME IInv, NEW p \in 1 .. Len(stack)
  PROVE  stack[p] \in Frames /\ stack[p].type \in Ids /\ stack[p].member \in Nat
<1>1. stack \in Seq(Frames)
  BY DEF IInv, Given, Frames
<1>2. stack[p] \in Frames
  BY <1>1, ElementOfSeq
<1> QED
  BY <1>2 DEF Frames

\* The visit on top of the stack.
LEMMA TopFrame ==
  ASSUME IInv, stack # << >>
  PROVE  /\ Len(stack) \in Nat \ {0}
         /\ Frame = stack[Len(stack)]
         /\ Frame.type \in Ids /\ Frame.member \in Nat
         /\ Touchable(Frame.type)
         /\ Frame.type \in visited
         /\ Frame.member \in 1 .. Len(before[Frame.type].kids) + 1
         /\ \A n \in 1 .. Frame.member - 1 : Done(Frame.type, n)
         /\ Members = objs[Frame.type].kids
         /\ Len(Members) = Len(before[Frame.type].kids)
         /\ objs[Frame.type].kind = before[Frame.type].kind
<1>1. stack \in Seq(Frames)
  BY DEF IInv, Given, Frames
<1>2. Len(stack) \in Nat \ {0}
  BY <1>1
<1>3. stack[Len(stack)] \in Frames
  BY <1>1, <1>2
<1>4. Frame.type \in Ids /\ Frame.member \in Nat
  BY <1>3 DEF Frame, Frames
<1>5. /\ Touchable(Frame.type)
      /\ Frame.type \in visited
      /\ Frame.member \in 1 .. Len(before[Frame.type].kids) + 1
      /\ \A n \in 1 .. Frame.member - 1 : Done(Frame.type, n)
  BY <1>2 DEF IInv, Visiting, Frame
<1> QED
  BY <1>2, <1>4, <1>5, BeforeTyped DEF Frame, Members

LEMMA AdvancedParts ==
  ASSUME IInv, stack # << >>
  PROVE  /\ Advanced \in Seq(Frames)
         /\ Len(Advanced) = Len(stack)
         /\ \A p \in 1 .. Len(stack) : Advanced[p].type = stack[p].type
         /\ \A p \in 1 .. Len(stack) - 1 : Advanced[p] = stack[p]
         /\ Advanced[Len(stack)] = [type |-> Frame.type, member |-> Frame.member + 1]
<1>1. stack \in Seq(Frames) /\ Len(stack) \in Nat \ {0}
  BY TopFrame DEF IInv, Given, Frames
<1>2. stack[Len(stack)] \in Frames
  BY <1>1
<1>3. Advanced = [stack EXCEPT ![Len(stack)] = [type |-> Frame.type, member |-> Frame.member + 1]]
  <2>1. [stack[Len(stack)] EXCEPT !.member = @ + 1] = [type |-> Frame.type, member |-> Frame.member + 1]
    BY <1>2 DEF Frame, Frames
  <2> QED
    BY <1>1, <2>1 DEF Advanced
<1>4. [type |-> Frame.type, member |-> Frame.member + 1] \in Frames
  BY TopFrame DEF Frames
<1> QED
  BY <1>1, <1>3, <1>4 DEF Frame

-------------------------------------------------------------------------------
(* A member is done for good.                                                *)

\* Setting a member that is src to dest makes it what it has to be, and leaves
\* what is done as it is.
LEMMA ReplaceDone ==
  ASSUME IInv, ReplaceMember, NEW t, NEW m, t = Frame.type, m = Frame.member
  PROVE  /\ before' = before /\ src' = src /\ dest' = dest
         /\ before[t].kids[m] = src
         /\ Half'
         /\ \A o \in Ids : \A n \in 1 .. Len(before[o].kids) : Done(o, n) => Done(o, n)'
         /\ Done(t, m)'
<1>1. /\ stack # << >> /\ m \in 1 .. Len(before[t].kids) /\ t \in Ids /\ Touchable(t)
      /\ objs[t].kids[m] = src
      /\ objs' = [objs EXCEPT ![t].kids[m] = dest]
      /\ UNCHANGED <<before, src, dest, entries, visited>>
  BY TopFrame DEF ReplaceMember, HasMember, Member, Members
<1>2. before[t].kids[m] = src
  BY <1>1, BeforeTyped DEF Done
<1>3. objs \in Seq([kind : Kinds, kids : Seq(Ids)]) /\ Len(objs) = Len(before) /\ src \in Ids /\ dest \in Ids
  BY DEF IInv, Half, Given
<1>4. objs[t] \in [kind : Kinds, kids : Seq(Ids)] /\ t \in 1 .. Len(objs)
  BY <1>1, <1>3, ElementOfSeq DEF Ids
<1>5. [objs[t] EXCEPT !.kids[m] = dest] = [kind |-> objs[t].kind, kids |-> [objs[t].kids EXCEPT ![m] = dest]]
  <2> PICK x \in [kind : Kinds, kids : Seq(Ids)] : x = objs[t]
    BY <1>4, Zenon
  <2>1. [x EXCEPT !.kids[m] = dest] = [kind |-> x.kind, kids |-> [x.kids EXCEPT ![m] = dest]]
    OBVIOUS
  <2> QED
    BY <2>1, Zenon
<1>6. objs' = [objs EXCEPT ![t] = [kind |-> objs[t].kind, kids |-> [objs[t].kids EXCEPT ![m] = dest]]]
  BY <1>1, <1>5, <1>3, <1>4
<1>7. /\ [objs[t].kids EXCEPT ![m] = dest] \in Seq(Ids)
      /\ Len([objs[t].kids EXCEPT ![m] = dest]) = Len(objs[t].kids)
  <2>1. objs[t].kids \in Seq(Ids) /\ m \in 1 .. Len(objs[t].kids)
    BY <1>1, <1>4, BeforeTyped
  <2> QED
    BY <2>1, <1>3, ExceptSeq
<1>8. /\ objs' \in Seq([kind : Kinds, kids : Seq(Ids)])
      /\ Len(objs') = Len(objs)
      /\ \A o \in Ids : o # t => objs'[o] = objs[o]
      /\ objs'[t].kind = objs[t].kind
      /\ objs'[t].kids = [objs[t].kids EXCEPT ![m] = dest]
  <2>1. [kind |-> objs[t].kind, kids |-> [objs[t].kids EXCEPT ![m] = dest]] \in [kind : Kinds, kids : Seq(Ids)]
    BY <1>4, <1>7
  <2>2. objs' \in Seq([kind : Kinds, kids : Seq(Ids)]) /\ Len(objs') = Len(objs)
    BY <2>1, <1>3, <1>4, <1>6, ExceptSeq
  <2>3. \A o \in Ids : objs'[o] = IF o = t THEN [kind |-> objs[t].kind, kids |-> [objs[t].kids EXCEPT ![m] = dest]] ELSE objs[o]
    BY <2>1, <1>3, <1>4, <1>6, ExceptSeq DEF Ids
  <2> QED
    BY <2>2, <2>3, <1>1
<1>9. \A o \in Ids : \A n \in 1 .. Len(before[o].kids) :
        objs'[o].kids[n] = IF o = t /\ n = m THEN dest ELSE objs[o].kids[n]
  BY <1>1, <1>8, BeforeTyped
<1>10. Done(t, m)'
  BY <1>1, <1>2, <1>9 DEF Done
<1>11. \A o \in Ids : \A n \in 1 .. Len(before[o].kids) : Done(o, n) => Done(o, n)'
  BY <1>1, <1>2, <1>9 DEF Done
<1>12. \A o : Touchable(o)' <=> Touchable(o)
  BY <1>1 DEF Touchable
<1>13. \A o \in Ids : Len(objs'[o].kids) = Len(before[o].kids) /\ objs'[o].kind = before[o].kind
  BY <1>1, <1>7, <1>8, BeforeTyped
<1>14. \A o \in Ids : \A n \in 1 .. Len(before[o].kids) :
         objs'[o].kids[n] = before[o].kids[n] \/ (Touchable(o)' /\ Done(o, n)')
  BY <1>1, <1>9, <1>10, <1>11, <1>12, BeforeTyped
<1>15. Half'
  <2>1. Ids' = Ids /\ before' = before /\ Len(objs') = Len(before)
    BY <1>1, <1>3, <1>8 DEF Ids
  <2> QED
    BY <2>1, <1>8, <1>13, <1>14 DEF Half, Kinds
<1> QED
  BY <1>1, <1>2, <1>10, <1>11, <1>15

\* Nothing that the visit is about is lost when the types stay as they are.
LEMMA SameTypes ==
  ASSUME UNCHANGED <<before, objs, src, dest>>
  PROVE  /\ Ids' = Ids
         /\ \A o, n : Done(o, n)' <=> Done(o, n)
         /\ \A o : Touchable(o)' <=> Touchable(o)
         /\ \A o : Rewritten(o)' <=> Rewritten(o)
         /\ \A o, n : Below(o, n)' <=> Below(o, n)
         /\ Half' <=> Half
BY DEF Ids, Kinds, Done, Touchable, Rewritten, Below, Half

\* A member that is neither src nor to be replaced is done.
LEMMA OtherDone ==
  ASSUME IInv, HasMember, Member # src
  PROVE  Done(Frame.type, Frame.member)
<1>1. stack # << >> /\ Frame.member \in 1 .. Len(before[Frame.type].kids)
  BY TopFrame DEF HasMember
<1>2. Frame.type \in Ids /\ Member = objs[Frame.type].kids[Frame.member]
  BY <1>1, TopFrame DEF Member, Members
<1> QED
  BY <1>1, <1>2, BeforeTyped DEF Done

-------------------------------------------------------------------------------
(* The steps.                                                                *)

LEMMA StepReplace == ASSUME IInv, ReplaceMember PROVE IInv'
<1> PICK t \in Ids, m \in Nat : t = Frame.type /\ m = Frame.member
  BY TopFrame DEF ReplaceMember, HasMember
<1>1. /\ stack # << >> /\ stack' = Advanced
      /\ UNCHANGED <<before, src, dest, entries, visited>>
  BY DEF ReplaceMember, HasMember
<1>2. /\ before[t].kids[m] = src
      /\ Half'
      /\ \A o \in Ids : \A n \in 1 .. Len(before[o].kids) : Done(o, n) => Done(o, n)'
      /\ Done(t, m)'
  BY ReplaceDone
<1>3. \A o \in Ids : (Touchable(o)' <=> Touchable(o)) /\ (Rewritten(o) => Rewritten(o)')
  BY <1>1, <1>2 DEF Touchable, Rewritten
<1>4. Ids' = Ids /\ m \in 1 .. Len(before[t].kids)
  BY <1>1, TopFrame DEF Ids, ReplaceMember, HasMember
<1>5. /\ stack' \in Seq(Frames) /\ Len(stack') = Len(stack) /\ Len(stack) \in Nat \ {0}
      /\ \A p \in 1 .. Len(stack) : stack'[p].type = stack[p].type
      /\ \A p \in 1 .. Len(stack) - 1 : stack'[p] = stack[p]
      /\ stack'[Len(stack)] = [type |-> t, member |-> m + 1]
      /\ stack[Len(stack)].type = t /\ stack[Len(stack)].member = m
  BY <1>1, AdvancedParts, TopFrame
<1>6. \A o : OnStack(o)' <=> OnStack(o)
  BY <1>5 DEF OnStack
<1>7. Given'
  BY <1>1, <1>4, <1>5 DEF IInv, Given, Frames, Kinds
<1>8. Visiting'
  <2>1. ASSUME NEW p \in 1 .. Len(stack'), NEW o, o = stack'[p].type
        PROVE  /\ Touchable(o)' /\ o \in visited'
               /\ stack'[p].member \in 1 .. Len(before'[o].kids) + 1
               /\ \A n \in 1 .. stack'[p].member - 1 : Done(o, n)'
    <3>1. p \in 1 .. Len(stack) /\ o = stack[p].type
      BY <1>5, <2>1
    <3>2. o \in Ids
      BY <3>1, FrameTyped
    <3>3. /\ Touchable(o) /\ o \in visited
          /\ stack[p].member \in 1 .. Len(before[o].kids) + 1
          /\ \A n \in 1 .. stack[p].member - 1 : Done(o, n)
      BY <3>1 DEF IInv, Visiting
    <3>4. CASE p = Len(stack)
      <4>1. o = t /\ stack[p].member = m /\ stack'[p].member = m + 1
        BY <3>1, <3>4, <1>5
      <4>2. \A n \in 1 .. m : Done(o, n)'
        BY <4>1, <3>2, <3>3, <1>2, <1>4
      <4> QED
        BY <4>1, <4>2, <3>2, <3>3, <1>1, <1>3, <1>4
    <3>5. CASE p # Len(stack)
      <4>1. stack'[p] = stack[p]
        BY <3>1, <3>5, <1>5
      <4>2. \A n \in 1 .. stack[p].member - 1 : Done(o, n)'
        BY <3>2, <3>3, <1>2, BeforeTyped
      <4> QED
        BY <4>1, <4>2, <3>2, <3>3, <1>1, <1>3
    <3> QED
      BY <3>4, <3>5
  <2>2. \A p, q \in 1 .. Len(stack') : stack'[p].type = stack'[q].type => p = q
    BY <1>5 DEF IInv, Visiting
  <2> QED
    BY <2>1, <2>2 DEF Visiting, Touchable, Done
<1>9. Remaining'
  BY <1>1, <1>3, <1>4, <1>6 DEF IInv, Remaining
<1>10. Reached'
  <2> SUFFICES ASSUME NEW o \in visited
               PROVE  /\ Touchable(o)'
                      /\ Rewritten(o)' \/ OnStack(o)'
                      /\ \A n \in 1 .. Len(before[o].kids) :
                           Below(o, n) /\ (\A p \in 1 .. Len(stack') : stack'[p].type = o => n < stack'[p].member)
                             => before[o].kids[n] \in visited \/ before[before[o].kids[n]].kind \notin Descended
    BY <1>1 DEF Reached, Below
  <2>1. o \in Ids /\ Touchable(o)' /\ (Rewritten(o)' \/ OnStack(o)')
    BY <1>3, <1>6 DEF IInv, Given, Reached
  <2>2. ASSUME NEW n \in 1 .. Len(before[o].kids), Below(o, n),
               \A p \in 1 .. Len(stack') : stack'[p].type = o => n < stack'[p].member
        PROVE  \A p \in 1 .. Len(stack) : stack[p].type = o => n < stack[p].member
    <3> SUFFICES ASSUME NEW p \in 1 .. Len(stack), stack[p].type = o
                 PROVE  n < stack[p].member
      OBVIOUS
    <3>1. CASE p = Len(stack)
      <4>1. o = t /\ n < m + 1 /\ n # m
        BY <1>2, <1>5, <2>2, <3>1 DEF Below
      <4> QED
        BY <4>1, <3>1, <1>5
    <3>2. CASE p # Len(stack)
      BY <1>5, <2>2, <3>2
    <3> QED
      BY <3>1, <3>2
  <2> QED
    BY <2>1, <2>2 DEF IInv, Reached
<1> QED
  BY <1>2, <1>7, <1>8, <1>9, <1>10 DEF IInv

\* The member that is looked at, when it is not replaced.
LEMMA MemberKept ==
  ASSUME IInv, HasMember, Member # src, Below(Frame.type, Frame.member)
  PROVE  before[Frame.type].kids[Frame.member] = Member /\ ~ IsReturnType
<1>1. stack # << >> /\ Frame.member \in 1 .. Len(before[Frame.type].kids)
  BY TopFrame DEF HasMember
<1>2. /\ Frame.type \in Ids /\ Member = objs[Frame.type].kids[Frame.member]
      /\ objs[Frame.type].kind = before[Frame.type].kind
  BY <1>1, TopFrame DEF Member, Members
<1>3. before[Frame.type].kids[Frame.member] # src /\ (before[Frame.type].kind = "function" => Frame.member > 1)
  BY DEF Below
<1>4. ~ IsReturnType
  BY <1>2, <1>3 DEF IsReturnType
<1>5. \/ objs[Frame.type].kids[Frame.member] = before[Frame.type].kids[Frame.member]
      \/ Done(Frame.type, Frame.member)
  BY <1>1, <1>2, BeforeTyped
<1> QED
  BY <1>2, <1>3, <1>4, <1>5 DEF Done

\* The top visit has gone on to its next member, and what is below the one it
\* has passed has been visited, or is so now.
LEMMA VisitGoesOn ==
  ASSUME IInv, HasMember, Member # src,
         UNCHANGED <<before, objs, src, dest, entries>>,
         stack' \in Seq(Frames), Len(stack) <= Len(stack'),
         \A p \in 1 .. Len(stack) : stack'[p] = Advanced[p],
         visited' \subseteq Ids, visited \subseteq visited',
         \A p \in 1 .. Len(stack') : p > Len(stack) =>
           /\ stack'[p].type \in visited' \ visited /\ Touchable(stack'[p].type)
           /\ stack'[p].member = 1,
         \A p, q \in 1 .. Len(stack') : p > Len(stack) /\ q > Len(stack) => p = q,
         \A o \in visited' \ visited : OnStack(o)',
         IsReturnType \/ Member \in visited' \/ objs[Member].kind \notin Descended
  PROVE  IInv'
<1> PICK t \in Ids, m \in Nat : t = Frame.type /\ m = Frame.member
  BY TopFrame DEF HasMember
<1>1. /\ Ids' = Ids
      /\ \A o, n : Done(o, n)' <=> Done(o, n)
      /\ \A o : (Touchable(o)' <=> Touchable(o)) /\ (Rewritten(o)' <=> Rewritten(o))
      /\ \A o, n : Below(o, n)' <=> Below(o, n)
      /\ Half'
  BY SameTypes DEF IInv
<1>2. /\ Len(stack) \in Nat \ {0} /\ Len(stack') \in Nat
      /\ \A p \in 1 .. Len(stack) : stack'[p].type = stack[p].type
      /\ \A p \in 1 .. Len(stack) - 1 : stack'[p] = stack[p]
      /\ stack'[Len(stack)] = [type |-> t, member |-> m + 1]
      /\ stack[Len(stack)].type = t /\ stack[Len(stack)].member = m
      /\ m \in 1 .. Len(before[t].kids) /\ Len(before[t].kids) \in Nat
  <2>1. stack # << >> /\ Len(stack) \in Nat \ {0} /\ Len(stack') \in Nat
    BY TopFrame DEF HasMember
  <2>2. stack[Len(stack)].type = t /\ stack[Len(stack)].member = m /\ t \in Ids
    BY <2>1, TopFrame
  <2>3. m \in 1 .. Len(before[t].kids) /\ Len(before[t].kids) \in Nat
    BY <2>1, <2>2, TopFrame, BeforeTyped DEF HasMember
  <2>4. /\ \A p \in 1 .. Len(stack) : stack'[p].type = stack[p].type
        /\ \A p \in 1 .. Len(stack) - 1 : stack'[p] = stack[p]
        /\ stack'[Len(stack)] = [type |-> t, member |-> m + 1]
    <3>1. \A p \in 1 .. Len(stack) : stack'[p].type = stack[p].type
      BY <2>1, AdvancedParts
    <3>2. \A p \in 1 .. Len(stack) - 1 : stack'[p] = stack[p]
      BY <2>1, AdvancedParts
    <3>3. stack'[Len(stack)] = Advanced[Len(stack)]
      BY <2>1
    <3> QED
      BY <2>1, <3>1, <3>2, <3>3, AdvancedParts
  <2> QED
    BY <2>1, <2>2, <2>3, <2>4
<1>3. \A o : OnStack(o) => OnStack(o)'
  BY <1>2 DEF OnStack
<1>4. Given'
  BY <1>1 DEF IInv, Given, Frames, Kinds
<1>5. Visiting'
  <2>1. ASSUME NEW p \in 1 .. Len(stack'), NEW o, o = stack'[p].type
        PROVE  /\ Touchable(o)' /\ o \in visited'
               /\ stack'[p].member \in 1 .. Len(before'[o].kids) + 1
               /\ \A n \in 1 .. stack'[p].member - 1 : Done(o, n)'
    <3>1. CASE p > Len(stack)
      <4>1. o \in visited' /\ Touchable(o) /\ stack'[p].member = 1
        BY <2>1, <3>1
      <4>2. Len(before[o].kids) \in Nat
        BY <4>1, BeforeTyped
      <4> QED
        BY <4>1, <4>2, <1>1
    <3>2. CASE p <= Len(stack)
      <4>1. /\ o = stack[p].type /\ p \in 1 .. Len(stack) /\ o \in Ids
            /\ Touchable(o) /\ o \in visited
            /\ stack[p].member \in 1 .. Len(before[o].kids) + 1
            /\ \A n \in 1 .. stack[p].member - 1 : Done(o, n)
        <5>1. p \in 1 .. Len(stack) /\ Len(stack) \in Nat
          BY <2>1, <3>2, <1>2
        <5>2. o = stack[p].type
          BY <2>1, <3>2, <5>1, <1>2
        <5>3. o \in Ids
          BY <5>1, <5>2, FrameTyped
        <5> QED
          BY <5>1, <5>2, <5>3 DEF IInv, Visiting
      <4>2. CASE p = Len(stack)
        <5>1. o = t /\ stack[p].member = m /\ stack'[p].member = m + 1
          BY <4>1, <4>2, <1>2
        <5>2. \A n \in 1 .. m : Done(o, n)'
          BY <5>1, <4>1, <1>1, <1>2, OtherDone
        <5> QED
          BY <5>1, <5>2, <4>1, <1>1, <1>2
      <4>3. CASE p # Len(stack)
        <5>1. stack'[p] = stack[p]
          BY <4>1, <4>3, <1>2
        <5> QED
          BY <5>1, <4>1, <1>1
      <4> QED
        BY <4>2, <4>3
    <3> QED
      BY <3>1, <3>2, <1>2
  <2>2. ASSUME NEW p \in 1 .. Len(stack'), NEW q \in 1 .. Len(stack'), stack'[p].type = stack'[q].type
        PROVE  p = q
    <3>1. CASE p > Len(stack) /\ q > Len(stack)
      BY <3>1
    <3>2. CASE p <= Len(stack) /\ q <= Len(stack)
      <4>1. stack[p].type = stack[q].type
        BY <3>2, <2>2, <1>2
      <4> QED
        BY <3>2, <4>1, <1>2 DEF IInv, Visiting
    <3>3. CASE p > Len(stack) /\ q <= Len(stack)
      <4>1. stack'[q].type = stack[q].type /\ stack[q].type \in visited
        BY <3>3, <1>2 DEF IInv, Visiting
      <4> QED
        BY <3>3, <4>1, <2>2
    <3>4. CASE p <= Len(stack) /\ q > Len(stack)
      <4>1. stack'[p].type = stack[p].type /\ stack[p].type \in visited
        BY <3>4, <1>2 DEF IInv, Visiting
      <4> QED
        BY <3>4, <4>1, <2>2
    <3> QED
      BY <3>1, <3>2, <3>3, <3>4, <1>2
  <2> QED
    BY <2>1, <2>2 DEF Visiting, Touchable, Done
<1>6. Remaining'
  BY <1>1, <1>3 DEF IInv, Remaining
<1>7. Reached'
  <2> SUFFICES ASSUME NEW o \in visited'
               PROVE  /\ Touchable(o)'
                      /\ Rewritten(o)' \/ OnStack(o)'
                      /\ \A n \in 1 .. Len(before[o].kids) :
                           Below(o, n) /\ (\A p \in 1 .. Len(stack') : stack'[p].type = o => n < stack'[p].member)
                             => before[o].kids[n] \in visited' \/ before[before[o].kids[n]].kind \notin Descended
    BY <1>1 DEF Reached, Below
  <2>1. CASE o \notin visited
    <3>1. PICK p \in 1 .. Len(stack') : stack'[p].type = o
      BY <2>1 DEF OnStack
    <3>2. p > Len(stack)
      <4>1. ASSUME p <= Len(stack) PROVE FALSE
        <5>1. stack'[p].type = stack[p].type /\ stack[p].type \in visited
          BY <4>1, <1>2 DEF IInv, Visiting
        <5> QED
          BY <5>1, <3>1, <2>1
      <4> QED
        BY <4>1, <1>2
    <3>3. Touchable(o) /\ stack'[p].member = 1
      BY <3>1, <3>2
    <3> QED
      BY <3>1, <3>3, <2>1, <1>1
  <2>2. CASE o \in visited
    <3>1. /\ Touchable(o) /\ o \in Ids
          /\ Rewritten(o) \/ OnStack(o)
          /\ \A n \in 1 .. Len(before[o].kids) :
               Below(o, n) /\ (\A p \in 1 .. Len(stack) : stack[p].type = o => n < stack[p].member)
                 => before[o].kids[n] \in visited \/ before[before[o].kids[n]].kind \notin Descended
      BY <2>2 DEF IInv, Reached, Given
    <3> Len(before[o].kids) \in Nat
      BY <3>1, BeforeTyped
    <3>2. ASSUME NEW n \in 1 .. Len(before[o].kids), Below(o, n),
                 \A p \in 1 .. Len(stack') : stack'[p].type = o => n < stack'[p].member
          PROVE  before[o].kids[n] \in visited' \/ before[before[o].kids[n]].kind \notin Descended
      <4>1. CASE o = t /\ n = m
        <5>1. before[o].kids[n] = Member /\ ~ IsReturnType /\ Member \in Ids
          BY <3>2, <4>1, <3>1, MemberKept, BeforeTyped
        <5> QED
          BY <5>1, BeforeTyped
      <4>2. CASE ~ (o = t /\ n = m)
        <5>1. ASSUME NEW p \in 1 .. Len(stack), stack[p].type = o
              PROVE  n < stack[p].member
          <6>1. n < stack'[p].member
            BY <5>1, <3>2, <1>2
          <6>2. CASE p = Len(stack)
            <7>1. o = t /\ stack[p].member = m /\ stack'[p].member = m + 1
              BY <6>2, <5>1, <1>2
            <7>2. n < m + 1 /\ n # m
              BY <7>1, <6>1, <4>2
            <7>3. n \in Nat /\ m \in Nat
              BY <3>2
            <7>4. n < m
              BY <7>2, <7>3
            <7> QED
              BY <7>1, <7>4, Zenon
          <6>3. CASE p # Len(stack)
            <7>1. stack'[p] = stack[p]
              BY <6>3, <1>2
            <7> QED
              BY <7>1, <6>1, Zenon
          <6> QED
            BY <6>2, <6>3
        <5> QED
          BY <5>1, <3>1, <3>2
      <4> QED
        BY <4>1, <4>2
    <3> QED
      BY <3>1, <3>2, <1>1, <1>3
  <2> QED
    BY <2>1, <2>2
<1> QED
  BY <1>1, <1>4, <1>5, <1>6, <1>7 DEF IInv

LEMMA StepPass == ASSUME IInv, PassMember PROVE IInv'
<1>1. /\ HasMember /\ Member # src
      /\ IsReturnType \/ ~ Visits(Member, visited)
      /\ stack' = Advanced
      /\ UNCHANGED <<before, objs, src, dest, entries, visited>>
  BY DEF PassMember
<1>2. stack # << >>
  BY <1>1 DEF HasMember
<1>3. /\ stack' \in Seq(Frames) /\ Len(stack') = Len(stack) /\ Len(stack) \in Nat
      /\ \A p \in 1 .. Len(stack) : stack'[p] = Advanced[p]
  BY <1>1, <1>2, AdvancedParts, TopFrame
<1>4. visited' \subseteq Ids /\ visited' = visited
  BY <1>1 DEF IInv, Given
<1>5. IsReturnType \/ Member \in visited' \/ objs[Member].kind \notin Descended
  BY <1>1 DEF Visits
<1>6. \A p \in 1 .. Len(stack') : ~ p > Len(stack)
  BY <1>3
<1> QED
  BY <1>1, <1>3, <1>4, <1>5, <1>6, VisitGoesOn

LEMMA StepVisit == ASSUME IInv, VisitMember PROVE IInv'
<1> PICK v \in Ids : v = Member
  <2>1. stack # << >> /\ Frame.member \in 1 .. Len(before[Frame.type].kids) /\ Frame.type \in Ids
    BY TopFrame DEF VisitMember, HasMember
  <2> QED
    BY <2>1, TopFrame, BeforeTyped DEF Member, Members
<1>1. /\ HasMember /\ v # src /\ Visits(v, visited)
      /\ visited' = visited \union {v}
      /\ stack' = Append(Advanced, [type |-> v, member |-> 1])
      /\ UNCHANGED <<before, objs, src, dest, entries>>
  BY DEF VisitMember
<1>2. stack # << >>
  BY <1>1 DEF HasMember
<1>3. /\ Advanced \in Seq(Frames) /\ Len(Advanced) = Len(stack) /\ Len(stack) \in Nat
      /\ [type |-> v, member |-> 1] \in Frames
  BY <1>2, AdvancedParts, TopFrame DEF Frames
<1>4. /\ stack' \in Seq(Frames) /\ Len(stack') = Len(stack) + 1
      /\ \A p \in 1 .. Len(stack) : stack'[p] = Advanced[p]
      /\ stack'[Len(stack) + 1] = [type |-> v, member |-> 1]
  BY <1>1, <1>3, AppendProperties
<1>5. v \notin visited /\ Touchable(v)
  BY <1>1, BeforeTyped DEF Visits, Touchable
<1>6. visited' \subseteq Ids /\ visited \subseteq visited' /\ visited' \ visited = {v}
  BY <1>1, <1>5 DEF IInv, Given
<1>7. \A p \in 1 .. Len(stack') : p > Len(stack) => p = Len(stack) + 1
  BY <1>3, <1>4
<1>8. \A p \in 1 .. Len(stack') : p > Len(stack) =>
        /\ stack'[p].type \in visited' \ visited /\ Touchable(stack'[p].type)
        /\ stack'[p].member = 1
  BY <1>4, <1>5, <1>6, <1>7
<1>9. \A o \in visited' \ visited : OnStack(o)'
  BY <1>3, <1>4, <1>6 DEF OnStack
<1>10. Member \in visited' /\ Member # src
  BY <1>1, <1>6
<1> QED
  BY <1>1, <1>3, <1>4, <1>6, <1>7, <1>8, <1>9, <1>10, VisitGoesOn

LEMMA StepReturn == ASSUME IInv, ReturnVisit PROVE IInv'
<1> PICK t \in Ids : t = Frame.type
  BY TopFrame DEF ReturnVisit
<1>1. /\ stack # << >> /\ Frame.member > Len(Members)
      /\ stack' = SubSeq(stack, 1, Len(stack) - 1)
      /\ UNCHANGED <<before, objs, src, dest, entries, visited>>
  BY DEF ReturnVisit
<1>2. /\ stack \in Seq(Frames) /\ Len(stack) \in Nat \ {0}
      /\ stack[Len(stack)].type = t
      /\ Frame.member = Len(before[t].kids) + 1 /\ Len(before[t].kids) \in Nat
      /\ \A n \in 1 .. Frame.member - 1 : Done(t, n)
  <2>1. stack \in Seq(Frames)
    BY DEF IInv, Given, Frames
  <2>2. Len(stack) \in Nat \ {0} /\ stack[Len(stack)].type = t
    BY <1>1, TopFrame
  <2>3. /\ Frame.member \in 1 .. Len(before[t].kids) + 1 /\ Len(Members) = Len(before[t].kids)
        /\ \A n \in 1 .. Frame.member - 1 : Done(t, n)
    BY <1>1, TopFrame
  <2>4. Len(before[t].kids) \in Nat
    BY BeforeTyped
  <2>5. Frame.member = Len(before[t].kids) + 1
    BY <1>1, <2>3, <2>4
  <2> QED
    BY <2>1, <2>2, <2>3, <2>4, <2>5
<1>3. /\ stack' \in Seq(Frames) /\ Len(stack') = Len(stack) - 1
      /\ \A p \in 1 .. Len(stack) - 1 : stack'[p] = stack[p]
  <2>1. Len(stack) - 1 \in Nat /\ \A i \in 1 .. Len(stack) - 1 : stack[i] \in Frames
    BY <1>2, ElementOfSeq
  <2>2. PICK n \in Nat : n = Len(stack) - 1
    BY <2>1
  <2>3. /\ SubSeq(stack, 1, n) \in Seq(Frames)
        /\ Len(SubSeq(stack, 1, n)) = IF 1 <= n THEN n - 1 + 1 ELSE 0
        /\ \A i \in 1 .. n - 1 + 1 : SubSeq(stack, 1, n)[i] = stack[1 + i - 1]
    BY <2>1, <2>2, SubSeqProperties
  <2>4. \A i \in 1 .. n : SubSeq(stack, 1, n)[i] = stack[i]
    <3> SUFFICES ASSUME NEW i \in 1 .. n PROVE SubSeq(stack, 1, n)[i] = stack[i]
      OBVIOUS
    <3>1. i \in 1 .. n - 1 + 1 /\ 1 + i - 1 = i
      OBVIOUS
    <3> QED
      BY <2>3, <3>1
  <2>5. Len(SubSeq(stack, 1, n)) = n
    BY <2>3
  <2> QED
    BY <1>1, <2>2, <2>3, <2>4, <2>5
<1>4. /\ Ids' = Ids
      /\ \A o, n : Done(o, n)' <=> Done(o, n)
      /\ \A o : (Touchable(o)' <=> Touchable(o)) /\ (Rewritten(o)' <=> Rewritten(o))
      /\ \A o, n : Below(o, n)' <=> Below(o, n)
      /\ Half'
  BY <1>1, SameTypes DEF IInv
<1>5. Rewritten(t)
  BY <1>2 DEF Rewritten
<1>6. \A o : OnStack(o) => OnStack(o)' \/ o = t
  BY <1>2, <1>3 DEF OnStack
<1>7. Given'
  BY <1>1, <1>3, <1>4 DEF IInv, Given, Frames, Kinds
<1>8. Visiting'
  <2>1. \A p \in 1 .. Len(stack') : p \in 1 .. Len(stack) /\ stack'[p] = stack[p]
    BY <1>2, <1>3
  <2>2. ASSUME NEW p \in 1 .. Len(stack'), NEW o, o = stack'[p].type
        PROVE  /\ Touchable(o)' /\ o \in visited'
               /\ stack'[p].member \in 1 .. Len(before'[o].kids) + 1
               /\ \A n \in 1 .. stack'[p].member - 1 : Done(o, n)'
    <3>1. p \in 1 .. Len(stack) /\ stack'[p] = stack[p]
      BY <2>1
    <3>2. /\ Touchable(o) /\ o \in visited
          /\ stack[p].member \in 1 .. Len(before[o].kids) + 1
          /\ \A n \in 1 .. stack[p].member - 1 : Done(o, n)
      BY <2>2, <3>1 DEF IInv, Visiting
    <3> QED
      BY <1>1, <1>4, <3>1, <3>2
  <2>3. \A p, q \in 1 .. Len(stack') : stack'[p].type = stack'[q].type => p = q
    BY <2>1 DEF IInv, Visiting
  <2> QED
    BY <2>2, <2>3 DEF Visiting
<1>9. Remaining'
  BY <1>1, <1>4, <1>5, <1>6 DEF IInv, Remaining
<1>10. Reached'
  <2> SUFFICES ASSUME NEW o \in visited
               PROVE  /\ Touchable(o)'
                      /\ Rewritten(o)' \/ OnStack(o)'
                      /\ \A n \in 1 .. Len(before[o].kids) :
                           Below(o, n) /\ (\A p \in 1 .. Len(stack') : stack'[p].type = o => n < stack'[p].member)
                             => before[o].kids[n] \in visited \/ before[before[o].kids[n]].kind \notin Descended
    BY <1>1, <1>4 DEF Reached, Below
  <2>1. Touchable(o)' /\ (Rewritten(o)' \/ OnStack(o)')
    BY <1>4, <1>5, <1>6 DEF IInv, Reached
  <2>2. ASSUME NEW n \in 1 .. Len(before[o].kids),
               \A p \in 1 .. Len(stack') : stack'[p].type = o => n < stack'[p].member
        PROVE  \A p \in 1 .. Len(stack) : stack[p].type = o => n < stack[p].member
    <3> SUFFICES ASSUME NEW p \in 1 .. Len(stack), stack[p].type = o
                 PROVE  n < stack[p].member
      OBVIOUS
    <3>1. CASE p = Len(stack)
      <4>1. o = t /\ stack[p].member = Len(before[t].kids) + 1
        BY <3>1, <1>2 DEF Frame
      <4> QED
        BY <4>1, <1>2
    <3>2. CASE p # Len(stack)
      <4>1. p \in 1 .. Len(stack') /\ stack'[p] = stack[p]
        BY <3>2, <1>2, <1>3
      <4> QED
        BY <4>1, <2>2
    <3> QED
      BY <3>1, <3>2
  <2> QED
    BY <2>1, <2>2 DEF IInv, Reached
<1> QED
  BY <1>4, <1>7, <1>8, <1>9, <1>10 DEF IInv

\* The next entry is of a type that is rewritten already, that has nothing to
\* be rewritten, or that gets a visit now.
LEMMA StepEntry == ASSUME IInv, NextEntry PROVE IInv'
<1> PICK t \in Ids : t = Head(entries)
  BY HeadTailProperties DEF IInv, Given, NextEntry
<1>1. /\ stack = << >> /\ entries # << >> /\ entries' = Tail(entries)
      /\ IF t # src /\ Visits(t, {})
         THEN visited' = {t} /\ stack' = <<[type |-> t, member |-> 1]>>
         ELSE visited' = {} /\ stack' = << >>
      /\ UNCHANGED <<before, objs, src, dest>>
  BY DEF NextEntry
<1>2. /\ Ids' = Ids
      /\ \A o, n : Done(o, n)' <=> Done(o, n)
      /\ \A o : (Touchable(o)' <=> Touchable(o)) /\ (Rewritten(o)' <=> Rewritten(o))
      /\ \A o, n : Below(o, n)' <=> Below(o, n)
      /\ Half'
  BY <1>1, SameTypes DEF IInv
<1>3. /\ entries \in Seq(Ids) /\ entries' \in Seq(Ids)
      /\ \A n \in 1 .. Len(entries) : entries[n] = t \/ \E i \in 1 .. Len(entries') : entries'[i] = entries[n]
  <2>1. /\ entries \in Seq(Ids) /\ entries' \in Seq(Ids) /\ Len(entries') = Len(entries) - 1
        /\ \A i \in 1 .. Len(entries') : entries'[i] = entries[i + 1]
        /\ t = entries[1] /\ Len(entries) \in Nat
    BY <1>1, HeadTailProperties DEF IInv, Given
  <2>2. ASSUME NEW n \in 1 .. Len(entries), n # 1
        PROVE  \E i \in 1 .. Len(entries') : entries'[i] = entries[n]
    <3>1. n - 1 \in 1 .. Len(entries') /\ (n - 1) + 1 = n
      BY <2>1, <2>2
    <3>2. entries'[n - 1] = entries[n]
      BY <2>1, <3>1
    <3> QED
      BY <3>1, <3>2
  <2> QED
    BY <2>1, <2>2
<1>4. \A p : p \notin 1 .. Len(stack)
  BY <1>1
<1>5. ASSUME NEW o \in Ids, ~ Rewritten(o), o # t
      PROVE  \E n \in 1 .. Len(entries') : entries'[n] = o
  BY <1>3, <1>4, <1>5 DEF IInv, Remaining, OnStack
<1>6. CASE t # src /\ Visits(t, {})
  <2>1. visited' = {t} /\ stack' = <<[type |-> t, member |-> 1]>>
    BY <1>1, <1>6
  <2>2. /\ Len(stack') = 1 /\ stack'[1].type = t /\ stack'[1].member = 1
        /\ stack' \in Seq(Frames)
    BY <2>1 DEF Frames
  <2>3. Touchable(t)
    BY <1>6, BeforeTyped DEF Visits, Touchable
  <2>4. OnStack(t)'
    BY <2>2 DEF OnStack
  <2>5. Given'
    BY <1>1, <1>2, <1>3, <2>1, <2>2 DEF IInv, Given, Frames, Kinds
  <2>6. Visiting'
    <3>1. ASSUME NEW p \in 1 .. Len(stack'), NEW o, o = stack'[p].type
          PROVE  /\ p = 1
                 /\ Touchable(o)' /\ o \in visited'
                 /\ stack'[p].member \in 1 .. Len(before'[o].kids) + 1
                 /\ \A n \in 1 .. stack'[p].member - 1 : Done(o, n)'
      <4>1. p = 1 /\ o = t
        BY <2>2, <3>1
      <4>2. Len(before[t].kids) \in Nat
        BY BeforeTyped
      <4> QED
        BY <4>1, <4>2, <1>1, <1>2, <2>1, <2>2, <2>3
    <3> QED
      BY <3>1 DEF Visiting, Touchable, Done
  <2>7. Remaining'
    BY <1>2, <1>5, <2>4 DEF Remaining
  <2>8. Reached'
    <3> SUFFICES /\ Touchable(t)' /\ OnStack(t)'
                 /\ \A n \in 1 .. Len(before[t].kids) : ~ \A p \in 1 .. Len(stack') : stack'[p].type = t => n < stack'[p].member
      BY <1>1, <1>2, <2>1 DEF Reached
    <3>1. ASSUME NEW n \in 1 .. Len(before[t].kids)
          PROVE  ~ \A p \in 1 .. Len(stack') : stack'[p].type = t => n < stack'[p].member
      <4>1. 1 \in 1 .. Len(stack') /\ stack'[1].type = t /\ stack'[1].member = 1
        BY <2>2
      <4>2. ~ (n < 1)
        BY BeforeTyped
      <4> QED
        BY <4>1, <4>2
    <3> QED
      BY <1>2, <2>3, <2>4, <3>1
  <2> QED
    BY <1>2, <2>5, <2>6, <2>7, <2>8 DEF IInv
<1>7. CASE ~ (t # src /\ Visits(t, {}))
  <2>1. visited' = {} /\ stack' = << >>
    BY <1>1, <1>7
  <2>2. Rewritten(t)
    BY <1>7, BeforeTyped DEF Visits, Touchable, Rewritten
  <2>3. \A p : p \notin 1 .. Len(stack')
    BY <2>1
  <2>4. Given'
    BY <1>1, <1>2, <1>3, <2>1 DEF IInv, Given, Kinds
  <2>5. Visiting'
    BY <2>3 DEF Visiting
  <2>6. Remaining'
    BY <1>2, <1>5, <2>2 DEF Remaining
  <2>7. Reached'
    BY <2>1 DEF Reached
  <2> QED
    BY <1>2, <2>4, <2>5, <2>6, <2>7 DEF IInv
<1> QED
  BY <1>6, <1>7

LEMMA InvInit == Init => IInv
<1> SUFFICES ASSUME Init PROVE IInv
  OBVIOUS
<1>1. PICK c \in Calls : before = c.objs /\ src = c.src /\ dest = c.dest /\ entries = c.entries
  BY DEF Init
<1>2. objs = before /\ stack = << >> /\ visited = {}
  BY DEF Init
<1>3. /\ src \in Ids /\ dest \in Ids
      /\ before \in Seq([kind : Kinds, kids : Seq(Ids)])
      /\ \A o \in Ids : before[o].kind \in Leaves => before[o].kids = << >>
      /\ entries \in Seq(Ids)
      /\ \A o \in Ids \ {src} :
           \/ \E n \in 1 .. Len(entries) : entries[n] = o
           \/ \A m \in 1 .. Len(before[o].kids) : before[o].kids[m] # src
  BY <1>1, CallsAssumption DEF Ids, Kinds
<1>4. Given
  BY <1>2, <1>3 DEF Given
<1>5. Half
  BY <1>2, <1>3 DEF Half
<1>6. \A p : p \notin 1 .. Len(stack)
  BY <1>2
<1>7. Visiting
  BY <1>6 DEF Visiting
<1>8. Remaining
  BY <1>2, <1>3 DEF Remaining, Rewritten, Touchable, Done
<1>9. Reached
  BY <1>2 DEF Reached
<1> QED
  BY <1>4, <1>5, <1>7, <1>8, <1>9 DEF IInv

LEMMA InvStep == IInv /\ [Next]_vars => IInv'
<1> SUFFICES ASSUME IInv, [Next]_vars PROVE IInv'
  OBVIOUS
<1>1. CASE NextEntry
  BY <1>1, StepEntry
<1>2. CASE ReplaceMember
  BY <1>2, StepReplace
<1>3. CASE PassMember
  BY <1>3, StepPass
<1>4. CASE VisitMember
  BY <1>4, StepVisit
<1>5. CASE ReturnVisit
  BY <1>5, StepReturn
<1>6. CASE UNCHANGED vars
  BY <1>6 DEF vars, IInv, Given, Half, Visiting, Remaining, Reached, Ids, Kinds, Rewritten, OnStack, Touchable, Done, Below
<1> QED
  BY <1>1, <1>2, <1>3, <1>4, <1>5, <1>6 DEF Next, Step

\* The inductive invariant holds in every reachable state.
THEOREM Invariant == Spec => []IInv
<1> QED
  BY InvInit, InvStep, PTL DEF Spec

-------------------------------------------------------------------------------
(* What the visits achieve.                                                  *)

\* A type that is rewritten is what ReplaceAll makes of it: a type without
\* visit has no members, is src or is a QualType, which ReplaceAll leaves.
LEMMA RewrittenType ==
  ASSUME IInv, NEW o \in Ids, Rewritten(o)
  PROVE  objs[o] = ReplaceAll(before, src, dest)[o]
<1> DEFINE New == [n \in DOMAIN before[o].kids |-> IF before[o].kids[n] = src THEN dest ELSE before[o].kids[n]]
<1>1. /\ before[o] \in [kind : Kinds, kids : Seq(Ids)] /\ objs[o] \in [kind : Kinds, kids : Seq(Ids)]
      /\ o \in 1 .. Len(before)
  <2>1. before \in Seq([kind : Kinds, kids : Seq(Ids)]) /\ objs \in Seq([kind : Kinds, kids : Seq(Ids)])
    BY DEF IInv, Given, Half
  <2>2. o \in 1 .. Len(before) /\ o \in 1 .. Len(objs)
    BY DEF IInv, Half, Ids
  <2> QED
    BY <2>1, <2>2, ElementOfSeq
<1>2. objs[o].kind = before[o].kind /\ Len(objs[o].kids) = Len(before[o].kids)
  BY BeforeTyped
<1>3. DOMAIN before[o].kids = 1 .. Len(before[o].kids) /\ DOMAIN objs[o].kids = 1 .. Len(before[o].kids)
  BY <1>1, <1>2
<1>4. ReplaceAll(before, src, dest)[o] = IF o = src \/ before[o].kind = "qualified" THEN before[o]
                                         ELSE [kind |-> before[o].kind, kids |-> New]
  BY <1>1 DEF ReplaceAll
<1>5. CASE Touchable(o)
  <2>1. \A n \in 1 .. Len(before[o].kids) : objs[o].kids[n] = New[n]
    BY <1>3, <1>5 DEF Rewritten, Done
  <2>2. objs[o].kids = New
    <3>1. objs[o].kids = [n \in DOMAIN objs[o].kids |-> objs[o].kids[n]]
      BY <1>1
    <3> QED
      BY <2>1, <3>1, <1>3
  <2>3. o # src /\ before[o].kind # "qualified"
    BY <1>5 DEF Touchable, Descended
  <2> QED
    BY <1>1, <1>2, <1>4, <2>2, <2>3
<1>6. CASE ~ Touchable(o)
  <2>1. \A n \in 1 .. Len(before[o].kids) : objs[o].kids[n] = before[o].kids[n]
    BY <1>6, BeforeTyped
  <2>2. objs[o].kids = before[o].kids
    BY <1>1, <1>2, <2>1
  <2>3. objs[o] = before[o]
    BY <1>1, <1>2, <2>2
  <2>4. CASE o = src \/ before[o].kind = "qualified"
    BY <1>4, <2>3, <2>4
  <2>5. CASE before[o].kind \in Leaves
    <3>1. before[o].kids = << >>
      BY <2>5 DEF IInv, Given
    <3>2. New = << >>
      BY <3>1
    <3> QED
      BY <1>1, <1>4, <2>3, <3>1, <3>2
  <2> QED
    BY <1>1, <1>6, <2>4, <2>5 DEF Touchable, Kinds
<1> QED
  BY <1>5, <1>6

LEMMA EverywhereFromInvariant == IInv => ReplacesEverywhere
<1> SUFFICES ASSUME IInv, entries = << >>, stack = << >>
             PROVE  objs = ReplaceAll(before, src, dest)
  BY DEF ReplacesEverywhere, Returned
<1>1. \A o \in Ids : Rewritten(o)
  BY DEF IInv, Remaining, OnStack
<1>2. \A o \in Ids : objs[o] = ReplaceAll(before, src, dest)[o]
  BY <1>1, RewrittenType
<1>3. objs = [o \in Ids |-> objs[o]]
  BY DEF IInv, Half, Ids
<1>4. ReplaceAll(before, src, dest) = [o \in Ids |-> ReplaceAll(before, src, dest)[o]]
  BY DEF ReplaceAll, Ids
<1> QED
  BY <1>2, <1>3, <1>4

\* When replaceType returns, the visitors together have made of the types what
\* ReplaceAll says: the collector's use of replaceType as one step is sound.
THEOREM EveryMemberReplaced == Spec => []ReplacesEverywhere
<1> QED
  BY Invariant, EverywhereFromInvariant, PTL

\* The type that the last call was made on has been visited, unless there is
\* nothing to visit.
Rooted == root = NoType \/ (root \in Ids /\ (root \in visited \/ before[root].kind \notin Descended))

LEMMA RootKept == IInv /\ Rooted /\ [Next]_vars => Rooted'
<1> SUFFICES ASSUME IInv, Rooted, [Next]_vars PROVE Rooted'
  OBVIOUS
<1>1. CASE NextEntry
  <2> PICK t \in Ids : t = Head(entries)
    BY <1>1, HeadTailProperties DEF IInv, Given, NextEntry
  <2>1. /\ root' = IF t = src THEN NoType ELSE t
        /\ t # src /\ Visits(t, {}) => visited' = {t}
        /\ before' = before
    BY <1>1 DEF NextEntry
  <2>2. t # src /\ ~ Visits(t, {}) => before[t].kind \notin Descended
    BY DEF Visits, IInv, Half
  <2> QED
    BY <2>1, <2>2 DEF Rooted, Ids
<1>2. CASE visited \subseteq visited' /\ before' = before /\ root' = root
  BY <1>2 DEF Rooted, Ids
<1>3. ReplaceMember \/ PassMember \/ VisitMember \/ ReturnVisit \/ UNCHANGED vars
        => visited \subseteq visited' /\ before' = before /\ root' = root
  BY DEF ReplaceMember, PassMember, VisitMember, ReturnVisit, vars
<1> QED
  BY <1>1, <1>2, <1>3 DEF Next, Step

LEMMA RootInvariant == Spec => []Rooted
<1>1. Init => Rooted
  BY DEF Init, Rooted
<1> QED
  BY <1>1, RootKept, Invariant, PTL DEF Spec

\* Between two calls, what has been visited is closed under the descents, so it
\* holds all that can be reached from the type that the last call was made on.
LEMMA BelowFromInvariant == IInv /\ Rooted => ReplacesBelow
<1> SUFFICES ASSUME IInv, Rooted, stack = << >>, root # NoType
             PROVE  \A t \in 1 .. Len(objs) :
                      /\ t \in visited => objs[t] = ReplaceAll(before, src, dest)[t]
                      /\ ReachedFrom(root, t) /\ before[t].kind \in Descended => t \in visited
  BY DEF ReplacesBelow
<1> DEFINE S == visited \union {o \in Ids : before[o].kind \notin Descended}
<1>1. \A o \in visited :
        /\ o \in Ids /\ Rewritten(o)
        /\ \A n \in 1 .. Len(before[o].kids) :
             Below(o, n) => before[o].kids[n] \in visited \/ before[before[o].kids[n]].kind \notin Descended
  <2>1. \A p : p \notin 1 .. Len(stack)
    OBVIOUS
  <2> QED
    BY <2>1 DEF IInv, Given, Reached, OnStack
<1>2. 1 .. Len(objs) = Ids /\ S \in SUBSET (1 .. Len(objs)) /\ root \in S
  BY <1>1 DEF IInv, Half, Ids, Rooted
<1>3. ASSUME NEW o \in S, NEW n \in 1 .. Len(before[o].kids),
             before[o].kind \in Descended, before[o].kids[n] # src,
             before[o].kind = "function" => n > 1
      PROVE  before[o].kids[n] \in S
  <2>1. o \in visited /\ o \in Ids /\ Below(o, n)
    BY <1>1, <1>3 DEF Below
  <2>2. before[o].kids[n] \in Ids
    BY <2>1, BeforeTyped
  <2> QED
    BY <2>1, <2>2, <1>1
<1>4. ASSUME NEW t \in Ids, ReachedFrom(root, t), before[t].kind \in Descended
      PROVE  t \in visited
  <2>1. t \in S
    BY <1>2, <1>3, <1>4 DEF ReachedFrom
  <2> QED
    BY <2>1, <1>4
<1>5. \A t \in visited : objs[t] = ReplaceAll(before, src, dest)[t]
  BY <1>1, RewrittenType
<1> QED
  BY <1>2, <1>4, <1>5

\* Each call of Type::replace rewrites all that can be reached from the type it
\* is called on, also through types that earlier calls have changed.
THEOREM EveryCallReplacesBelow == Spec => []ReplacesBelow
<1> QED
  BY Invariant, RootInvariant, BelowFromInvariant, PTL

\* The visitor never enters a type that it is inside of, and never src: its
\* recursion ends however the types refer to each other.
THEOREM NoVisitTwice == Spec => []VisitedOnce
<1>1. IInv => VisitedOnce
  BY DEF IInv, Visiting, Reached, Touchable, VisitedOnce
<1> QED
  BY <1>1, Invariant, PTL

-------------------------------------------------------------------------------
(* The Values.  PointersLive and NotShared alone are not inductive: what a   *)
(* message of the heap or the caller deletes must be known not to be an      *)
(* arena's, and what dies with an arena not to be pointed to from elsewhere. *)
(* OwnersInv says so for each of those who have Values.                      *)

\* What exists was made on the heap or on an arena that still exists.
Placed == \A o \in live : place[o] \in Places \ gone

\* What the caller is to delete is on the heap, and no arena's.
HandOwns ==
  \A o \in hand : o \in live /\ place[o] = Heap /\ \A a \in Arenas : o \notin owned[a]

\* What an arena is to delete is on the heap, and no other arena's.
ArenaOwns ==
  \A a \in Arenas : \A o \in owned[a] :
    /\ o \in live /\ place[o] = Heap /\ a \notin gone
    /\ \A b \in Arenas : o \in owned[b] => b = a

\* What the caller borrowed is some arena's.
BorrowedLives ==
  \A o \in borrowed :
    o \in live /\ (place[o] # Heap \/ \E a \in Arenas : o \in owned[a])

\* What a message may point to.
Fits(h, o) ==
  /\ o \in live /\ o \notin hand /\ o \notin borrowed
  /\ Home[h] = Heap => place[o] = Heap /\ \A a \in Arenas : o \notin owned[a]
  /\ Home[h] # Heap => place[o] = Home[h] \/ o \in owned[Home[h]]

PointersFit == \A h \in Holders : sub[h] # NULL => h \in alive /\ Fits(h, sub[h])

OnePointer == \A g, h \in Holders : sub[h] # NULL /\ sub[g] = sub[h] => g = h

HomesExist == \A h \in alive : Home[h] \notin gone

\* Every Value of the heap has somebody to delete it.
SomeOwner ==
  \A o \in live : place[o] = Heap =>
    \/ o \in hand
    \/ \E h \in Holders : Home[h] = Heap /\ sub[h] = o
    \/ \E a \in Arenas : o \in owned[a]

OwnersInv ==
  /\ TypeOK /\ NoFault
  /\ Placed /\ HandOwns /\ ArenaOwns /\ BorrowedLives
  /\ PointersFit /\ OnePointer /\ HomesExist /\ SomeOwner

\* A new Value takes the place of the one that a message had, if any.
LEMMA MadeKeeps ==
  ASSUME OwnersInv, NEW h \in Holders, h \in alive, NEW new \in Objects,
         Allocate(new, Home[h], Deleted(h)), Point(h, new),
         UNCHANGED <<alive, owned, gone, hand, borrowed>>
  PROVE  OwnersInv'
<1>h. Home[h] \in Places \ gone
  BY HomeAssumption DEF OwnersInv, HomesExist
<1>1. TypeOK'
  BY <1>h DEF OwnersInv, TypeOK, NoFault, Allocate, Point
<1>2. NoFault'
  BY DEF OwnersInv, TypeOK, NoFault, PointersFit, Fits, Allocate, Deleted
<1>3. Placed'
  BY <1>h DEF OwnersInv, TypeOK, Placed, Allocate
<1>4. HandOwns'
  BY NamesAssumption DEF OwnersInv, HandOwns, PointersFit, Fits, Places, Allocate,
         Fresh, Deleted
<1>5. ArenaOwns'
  BY NamesAssumption DEF OwnersInv, ArenaOwns, PointersFit, Fits, Places, Allocate,
         Fresh, Deleted
<1>6. BorrowedLives'
  BY NamesAssumption DEF OwnersInv, Placed, BorrowedLives, PointersFit, Fits,
         Allocate, Fresh, Deleted
<1>7. PointersFit'
  BY NamesAssumption DEF OwnersInv, TypeOK, Placed, HandOwns, ArenaOwns,
         BorrowedLives, PointersFit, Fits, OnePointer, Allocate, Fresh, Point,
         Deleted
<1>8. OnePointer'
  BY NamesAssumption DEF OwnersInv, Placed, PointersFit, Fits, OnePointer,
         Allocate, Fresh, Point
<1>9. SomeOwner'
  BY NamesAssumption DEF OwnersInv, TypeOK, SomeOwner, Allocate, Point, Deleted
<1>10. HomesExist'
  BY DEF OwnersInv, HomesExist
<1>. QED BY <1>1, <1>2, <1>3, <1>4, <1>5, <1>6, <1>7, <1>8, <1>9, <1>10 DEF OwnersInv

\* What is cleared is deleted by the one who owned it.
LEMMA clearKeeps ==
  ASSUME OwnersInv, NEW h \in Holders, clear(h)
  PROVE  OwnersInv'
<1>1. TypeOK'
  BY DEF OwnersInv, TypeOK, clear, Delete, Point
<1>2. NoFault'
  BY DEF OwnersInv, TypeOK, NoFault, PointersFit, Fits, clear, Delete, Deleted
<1>3. Placed'
  BY DEF OwnersInv, Placed, clear, Delete
<1>4. HandOwns'
  BY DEF OwnersInv, HandOwns, PointersFit, Fits, clear, Delete, Deleted
<1>5. ArenaOwns'
  BY DEF OwnersInv, ArenaOwns, PointersFit, Fits, clear, Delete, Deleted
<1>6. BorrowedLives'
  BY DEF OwnersInv, BorrowedLives, PointersFit, Fits, clear, Delete, Deleted
<1>7. PointersFit'
  BY DEF OwnersInv, TypeOK, PointersFit, Fits, OnePointer, clear, Delete, Deleted,
         Point
<1>8. OnePointer'
  BY DEF OwnersInv, OnePointer, clear, Point
<1>9. SomeOwner'
  BY DEF OwnersInv, SomeOwner, clear, Delete, Deleted, Point
<1>10. HomesExist'
  BY DEF OwnersInv, HomesExist, clear
<1>. QED BY <1>1, <1>2, <1>3, <1>4, <1>5, <1>6, <1>7, <1>8, <1>9, <1>10 DEF OwnersInv

\* The caller becomes the owner of what a message had, or of a copy.
LEMMA releaseKeeps ==
  ASSUME OwnersInv, NEW h \in Holders, release(h)
  PROVE  OwnersInv'
<1>1. TypeOK'
  BY DEF OwnersInv, TypeOK, Places, release, Point, SlowRelease, Allocate
<1>2. NoFault'
  BY DEF OwnersInv, TypeOK, NoFault, release, SlowRelease, Allocate
<1>3. Placed'
  BY NamesAssumption DEF OwnersInv, TypeOK, Placed, Places, release, SlowRelease,
         Allocate
<1>4. HandOwns'
  BY NamesAssumption DEF OwnersInv, TypeOK, HandOwns, ArenaOwns, PointersFit, Fits,
         Places, release, SlowRelease, Allocate, Fresh
<1>5. ArenaOwns'
  BY DEF OwnersInv, TypeOK, ArenaOwns, release, SlowRelease, Allocate
<1>6. BorrowedLives'
  BY NamesAssumption DEF OwnersInv, TypeOK, Placed, BorrowedLives, release,
         SlowRelease, Allocate, Fresh
<1>7. PointersFit'
  BY NamesAssumption DEF OwnersInv, TypeOK, Placed, PointersFit, Fits, OnePointer,
         release, Point, SlowRelease, Allocate, Fresh
<1>8. OnePointer'
  BY DEF OwnersInv, OnePointer, release, Point, SlowRelease
<1>9. SomeOwner'
  BY DEF OwnersInv, TypeOK, SomeOwner, release, Point, SlowRelease, Allocate
<1>10. HomesExist'
  BY DEF OwnersInv, HomesExist, release, SlowRelease
<1>. QED BY <1>1, <1>2, <1>3, <1>4, <1>5, <1>6, <1>7, <1>8, <1>9, <1>10 DEF OwnersInv

\* What an arena owns stays its own, and is borrowed.
LEMMA UnsafeArenaReleaseKeeps ==
  ASSUME OwnersInv, NEW h \in Holders, UnsafeArenaRelease(h)
  PROVE  OwnersInv'
<1>1. TypeOK'
  BY DEF OwnersInv, TypeOK, UnsafeArenaRelease, Point
<1>2. HandOwns'
  BY DEF OwnersInv, HandOwns, PointersFit, Fits, UnsafeArenaRelease
<1>3. BorrowedLives'
  BY DEF OwnersInv, BorrowedLives, PointersFit, Fits, OnePointer, SomeOwner,
         UnsafeArenaRelease
<1>4. PointersFit'
  BY DEF OwnersInv, TypeOK, PointersFit, Fits, OnePointer, UnsafeArenaRelease,
         Point
<1>5. OnePointer'
  BY DEF OwnersInv, OnePointer, UnsafeArenaRelease, Point
<1>6. SomeOwner'
  BY DEF OwnersInv, SomeOwner, UnsafeArenaRelease, Point
<1>7. NoFault' /\ Placed' /\ ArenaOwns' /\ HomesExist'
  BY DEF OwnersInv, NoFault, Placed, ArenaOwns, HomesExist, UnsafeArenaRelease
<1>. QED BY <1>1, <1>2, <1>3, <1>4, <1>5, <1>6, <1>7 DEF OwnersInv

\* The message, its arena, or with a copy both, become owners.
LEMMA SetAllocatedKeeps ==
  ASSUME OwnersInv, NEW h \in Holders, NEW o \in Objects, SetAllocated(h, o)
  PROVE  OwnersInv'
<1>1. TypeOK'
  BY HomeAssumption DEF OwnersInv, TypeOK, PointersFit, Fits, SetAllocated,
         SlowSetAllocated, Point, Delete, Deleted, Allocate
<1>2. NoFault'
  BY DEF OwnersInv, TypeOK, NoFault, PointersFit, Fits, SetAllocated,
         SlowSetAllocated, Delete, Deleted, Allocate
<1>3. Placed'
  BY HomeAssumption DEF OwnersInv, TypeOK, Placed, HomesExist, SetAllocated,
         SlowSetAllocated, Delete, Allocate
<1>4. HandOwns'
  BY NamesAssumption DEF OwnersInv, TypeOK, HandOwns, PointersFit, Fits, Places,
         SetAllocated, SlowSetAllocated, Delete, Deleted, Allocate, Fresh
<1>5. ArenaOwns'
  BY NamesAssumption DEF OwnersInv, TypeOK, HandOwns, ArenaOwns, PointersFit, Fits,
         HomesExist, Places, SetAllocated, SlowSetAllocated, Delete, Deleted,
         Allocate, Fresh
<1>6. BorrowedLives'
  BY NamesAssumption DEF OwnersInv, TypeOK, Placed, BorrowedLives, PointersFit,
         Fits, SetAllocated, SlowSetAllocated, Delete, Deleted, Allocate,
         Fresh
<1>7. PointersFit'
  BY NamesAssumption, HomeAssumption DEF OwnersInv, TypeOK, Placed, HandOwns,
         ArenaOwns, BorrowedLives, PointersFit, Fits, OnePointer, Places,
         SetAllocated, SlowSetAllocated, Point, Delete, Deleted, Allocate,
         Fresh
<1>8. OnePointer'
  BY NamesAssumption DEF OwnersInv, TypeOK, Placed, PointersFit, Fits, OnePointer,
         SetAllocated, SlowSetAllocated, Point, Allocate, Fresh
<1>9. SomeOwner'
  BY NamesAssumption, HomeAssumption DEF OwnersInv, TypeOK, SomeOwner, Places,
         SetAllocated, SlowSetAllocated, Point, Delete, Deleted, Allocate
<1>10. HomesExist'
  BY DEF OwnersInv, HomesExist, SetAllocated, SlowSetAllocated
<1>. QED BY <1>1, <1>2, <1>3, <1>4, <1>5, <1>6, <1>7, <1>8, <1>9, <1>10 DEF OwnersInv

\* What was borrowed goes back to a message of the same arena.
LEMMA UnsafeArenaSetAllocatedKeeps ==
  ASSUME OwnersInv, NEW h \in Holders, NEW o \in Objects,
         UnsafeArenaSetAllocated(h, o)
  PROVE  OwnersInv'
<1>1. TypeOK'
  BY DEF OwnersInv, TypeOK, UnsafeArenaSetAllocated, Point, Delete
<1>2. NoFault'
  BY DEF OwnersInv, TypeOK, NoFault, PointersFit, Fits, UnsafeArenaSetAllocated,
         Delete, Deleted
<1>3. Placed'
  BY DEF OwnersInv, Placed, UnsafeArenaSetAllocated, Delete
<1>4. HandOwns'
  BY DEF OwnersInv, HandOwns, PointersFit, Fits, UnsafeArenaSetAllocated, Delete,
         Deleted
<1>5. ArenaOwns'
  BY DEF OwnersInv, ArenaOwns, PointersFit, Fits, UnsafeArenaSetAllocated, Delete,
         Deleted
<1>6. BorrowedLives'
  BY DEF OwnersInv, BorrowedLives, PointersFit, Fits, UnsafeArenaSetAllocated,
         Delete, Deleted
<1>7. PointersFit'
  BY DEF OwnersInv, TypeOK, HandOwns, BorrowedLives, PointersFit, Fits, OnePointer,
         UnsafeArenaSetAllocated, Point, Delete, Deleted
<1>8. OnePointer'
  BY DEF OwnersInv, PointersFit, Fits, OnePointer, UnsafeArenaSetAllocated, Point
<1>9. SomeOwner'
  BY NamesAssumption DEF OwnersInv, TypeOK, BorrowedLives, SomeOwner,
         UnsafeArenaSetAllocated, Point, Delete, Deleted
<1>10. HomesExist'
  BY DEF OwnersInv, HomesExist, UnsafeArenaSetAllocated
<1>. QED BY <1>1, <1>2, <1>3, <1>4, <1>5, <1>6, <1>7, <1>8, <1>9, <1>10 DEF OwnersInv

\* A message begins without a Value.
LEMMA ConstructKeeps ==
  ASSUME OwnersInv, NEW h \in Holders, Construct(h)
  PROVE  OwnersInv'
<1>1. TypeOK'
  BY DEF OwnersInv, TypeOK, Construct
<1>2. PointersFit'
  BY DEF OwnersInv, PointersFit, Fits, Construct
<1>3. HomesExist'
  BY DEF OwnersInv, HomesExist, Construct
<1>4. NoFault' /\ Placed' /\ HandOwns' /\ ArenaOwns' /\ BorrowedLives' /\ OnePointer' /\ SomeOwner'
  BY DEF OwnersInv, NoFault, Placed, HandOwns, ArenaOwns, BorrowedLives,
         OnePointer, SomeOwner, Construct
<1>. QED BY <1>1, <1>2, <1>3, <1>4 DEF OwnersInv

\* A copy has a Value of its own.
LEMMA CopyConstructKeeps ==
  ASSUME OwnersInv, NEW h \in Holders, NEW g \in Holders, CopyConstruct(h, g)
  PROVE  OwnersInv'
<1>1. TypeOK'
  BY DEF OwnersInv, TypeOK, Places, CopyConstruct, Allocate, Point
<1>2. NoFault'
  BY DEF OwnersInv, TypeOK, NoFault, CopyConstruct, Allocate
<1>3. Placed'
  BY NamesAssumption DEF OwnersInv, TypeOK, Placed, Places, CopyConstruct, Allocate
<1>4. HandOwns'
  BY DEF OwnersInv, TypeOK, HandOwns, CopyConstruct, Allocate
<1>5. ArenaOwns'
  BY DEF OwnersInv, TypeOK, ArenaOwns, CopyConstruct, Allocate
<1>6. BorrowedLives'
  BY NamesAssumption DEF OwnersInv, TypeOK, Placed, BorrowedLives, CopyConstruct,
         Allocate, Fresh
<1>7. PointersFit'
  BY NamesAssumption DEF OwnersInv, TypeOK, Placed, HandOwns, ArenaOwns,
         BorrowedLives, PointersFit, Fits, CopyConstruct, Allocate, Fresh,
         Point
<1>8. OnePointer'
  BY NamesAssumption DEF OwnersInv, TypeOK, Placed, PointersFit, Fits, OnePointer,
         CopyConstruct, Allocate, Fresh, Point
<1>9. HomesExist'
  BY NamesAssumption DEF OwnersInv, TypeOK, HomesExist, CopyConstruct
<1>10. SomeOwner'
  BY NamesAssumption DEF OwnersInv, TypeOK, PointersFit, SomeOwner, CopyConstruct,
         Allocate, Point
<1>. QED BY <1>1, <1>2, <1>3, <1>4, <1>5, <1>6, <1>7, <1>8, <1>9, <1>10 DEF OwnersInv

\* Values change places or are copied, and what was copied is deleted.
LEMMA SwapKeeps ==
  ASSUME OwnersInv, NEW h \in Holders, NEW g \in Holders, Swap(h, g)
  PROVE  OwnersInv'
<1>1. TypeOK'
  BY HomeAssumption DEF OwnersInv, TypeOK, PointersFit, Fits, Swap, InternalSwap,
         SwapCopies, SwapMoves, Allocate, Deleted
<1>2. NoFault'
  BY DEF OwnersInv, TypeOK, NoFault, PointersFit, Fits, Swap, InternalSwap,
         SwapCopies, SwapMoves, Allocate, Deleted
<1>3. Placed'
  BY HomeAssumption DEF OwnersInv, TypeOK, Placed, HomesExist, Swap, InternalSwap,
         SwapCopies, SwapMoves, Allocate
<1>4. HandOwns'
  BY NamesAssumption DEF OwnersInv, TypeOK, HandOwns, PointersFit, Fits, Places,
         Swap, InternalSwap, SwapCopies, SwapMoves, Allocate, Fresh, Deleted
<1>5. ArenaOwns'
  BY NamesAssumption DEF OwnersInv, TypeOK, ArenaOwns, PointersFit, Fits, Places,
         Swap, InternalSwap, SwapCopies, SwapMoves, Allocate, Fresh, Deleted
<1>6. BorrowedLives'
  BY NamesAssumption DEF OwnersInv, TypeOK, Placed, BorrowedLives, PointersFit,
         Fits, Swap, InternalSwap, SwapCopies, SwapMoves, Allocate, Fresh,
         Deleted
<1>7. PointersFit'
  BY NamesAssumption DEF OwnersInv, TypeOK, Placed, HandOwns, ArenaOwns,
         BorrowedLives, PointersFit, Fits, OnePointer, Swap, InternalSwap,
         SwapCopies, SwapMoves, Allocate, Fresh, Deleted
<1>8. OnePointer'
  BY NamesAssumption DEF OwnersInv, TypeOK, Placed, PointersFit, Fits, OnePointer,
         Swap, InternalSwap, SwapCopies, SwapMoves, Allocate, Fresh
<1>9. SomeOwner'
  BY NamesAssumption DEF OwnersInv, TypeOK, SomeOwner, Swap, InternalSwap,
         SwapCopies, SwapMoves, Allocate, Deleted
<1>10. HomesExist'
  BY DEF OwnersInv, HomesExist, Swap, InternalSwap, SwapCopies, SwapMoves
<1>. QED BY <1>1, <1>2, <1>3, <1>4, <1>5, <1>6, <1>7, <1>8, <1>9, <1>10 DEF OwnersInv

\* A message takes what it owns with it.
LEMMA DestroyKeeps ==
  ASSUME OwnersInv, NEW h \in Holders, Destroy(h)
  PROVE  OwnersInv'
<1>1. TypeOK'
  BY DEF OwnersInv, TypeOK, Destroy, Delete, Point
<1>2. NoFault'
  BY DEF OwnersInv, TypeOK, NoFault, PointersFit, Fits, Destroy, Delete, Deleted
<1>3. Placed'
  BY DEF OwnersInv, Placed, Destroy, Delete
<1>4. HandOwns'
  BY DEF OwnersInv, HandOwns, PointersFit, Fits, Destroy, Delete, Deleted
<1>5. ArenaOwns'
  BY DEF OwnersInv, ArenaOwns, PointersFit, Fits, Destroy, Delete, Deleted
<1>6. BorrowedLives'
  BY DEF OwnersInv, BorrowedLives, PointersFit, Fits, Destroy, Delete, Deleted
<1>7. PointersFit'
  BY DEF OwnersInv, TypeOK, PointersFit, Fits, OnePointer, Destroy, Delete,
         Deleted, Point
<1>8. OnePointer'
  BY DEF OwnersInv, OnePointer, Destroy, Point
<1>9. HomesExist'
  BY DEF OwnersInv, HomesExist, Destroy
<1>10. SomeOwner'
  BY DEF OwnersInv, SomeOwner, Destroy, Delete, Deleted, Point
<1>. QED BY <1>1, <1>2, <1>3, <1>4, <1>5, <1>6, <1>7, <1>8, <1>9, <1>10 DEF OwnersInv

\* What the caller makes is owned by it or borrowed.
LEMMA NewValueKeeps ==
  ASSUME OwnersInv, NEW p \in Places, NewValue(p)
  PROVE  OwnersInv'
<1>1. TypeOK'
  BY DEF OwnersInv, TypeOK, NewValue, Allocate
<1>2. NoFault'
  BY DEF OwnersInv, TypeOK, NoFault, NewValue, Allocate
<1>3. Placed'
  BY DEF OwnersInv, TypeOK, Placed, NewValue, Allocate
<1>4. HandOwns'
  BY NamesAssumption DEF OwnersInv, TypeOK, HandOwns, ArenaOwns, Places, NewValue,
         Allocate, Fresh
<1>5. ArenaOwns'
  BY NamesAssumption DEF OwnersInv, ArenaOwns, Places, NewValue, Allocate, Fresh
<1>6. BorrowedLives'
  BY NamesAssumption DEF OwnersInv, Placed, BorrowedLives, Places, NewValue,
         Allocate, Fresh
<1>7. PointersFit'
  BY NamesAssumption DEF OwnersInv, Placed, PointersFit, Fits, NewValue, Allocate,
         Fresh
<1>8. SomeOwner'
  BY DEF OwnersInv, TypeOK, SomeOwner, NewValue, Allocate
<1>9. OnePointer' /\ HomesExist'
  BY DEF OwnersInv, OnePointer, HomesExist, NewValue
<1>. QED BY <1>1, <1>2, <1>3, <1>4, <1>5, <1>6, <1>7, <1>8, <1>9 DEF OwnersInv

\* What the caller deletes is its own.
LEMMA DeleteValueKeeps ==
  ASSUME OwnersInv, NEW o \in Objects, DeleteValue(o)
  PROVE  OwnersInv'
<1>1. TypeOK'
  BY DEF OwnersInv, TypeOK, DeleteValue, Delete
<1>2. NoFault'
  BY DEF OwnersInv, TypeOK, NoFault, HandOwns, DeleteValue, Delete
<1>3. Placed'
  BY DEF OwnersInv, Placed, DeleteValue, Delete
<1>4. HandOwns'
  BY DEF OwnersInv, HandOwns, DeleteValue, Delete
<1>5. ArenaOwns'
  BY DEF OwnersInv, HandOwns, ArenaOwns, DeleteValue, Delete
<1>6. BorrowedLives'
  BY DEF OwnersInv, HandOwns, BorrowedLives, DeleteValue, Delete
<1>7. PointersFit'
  BY DEF OwnersInv, PointersFit, Fits, DeleteValue, Delete
<1>8. SomeOwner'
  BY DEF OwnersInv, SomeOwner, DeleteValue, Delete
<1>9. OnePointer' /\ HomesExist'
  BY DEF OwnersInv, OnePointer, HomesExist, DeleteValue
<1>. QED BY <1>1, <1>2, <1>3, <1>4, <1>5, <1>6, <1>7, <1>8, <1>9 DEF OwnersInv

\* What goes with an arena is not pointed to from elsewhere.
LEMMA DestroyArenaKeeps ==
  ASSUME OwnersInv, NEW a \in Arenas, DestroyArena(a)
  PROVE  OwnersInv'
<1>1. TypeOK'
  BY DEF OwnersInv, TypeOK, DestroyArena, On
<1>2. NoFault'
  BY DEF OwnersInv, TypeOK, NoFault, ArenaOwns, DestroyArena, On
<1>3. Placed'
  BY DEF OwnersInv, TypeOK, Placed, DestroyArena, On
<1>4. HandOwns'
  BY NamesAssumption DEF OwnersInv, HandOwns, DestroyArena, On
<1>5. ArenaOwns'
  BY NamesAssumption DEF OwnersInv, TypeOK, ArenaOwns, DestroyArena, On
<1>6. BorrowedLives'
  BY DEF OwnersInv, BorrowedLives, DestroyArena, On
<1>7. PointersFit'
  BY NamesAssumption, HomeAssumption DEF OwnersInv, ArenaOwns, PointersFit, Fits,
         Places, DestroyArena, On
<1>8. OnePointer'
  BY DEF OwnersInv, OnePointer, DestroyArena, On
<1>9. HomesExist'
  BY DEF OwnersInv, HomesExist, DestroyArena, On
<1>10. SomeOwner'
  BY DEF OwnersInv, TypeOK, SomeOwner, DestroyArena, On
<1>. QED BY <1>1, <1>2, <1>3, <1>4, <1>5, <1>6, <1>7, <1>8, <1>9, <1>10 DEF OwnersInv

\* The steps of the messages that make a new Value.
LEMMA MakingKeeps ==
  ASSUME OwnersInv, NEW h \in Holders, NEW g \in Holders,
         mutable(h) \/ MergeFrom(h, g) \/ CopyFrom(h, g)
  PROVE  OwnersInv'
<1>1. \E new \in Objects :
        /\ h \in alive /\ Allocate(new, Home[h], Deleted(h)) /\ Point(h, new)
        /\ UNCHANGED <<alive, owned, gone, hand, borrowed>>
  BY DEF mutable, MergeFrom, SlowMutable, CopyFrom, Deleted
<1>2. QED
  BY <1>1, MadeKeeps

LEMMA InitHolds == SubInit => OwnersInv
<1>1. SUFFICES ASSUME SubInit PROVE OwnersInv
  OBVIOUS
<1>2. TypeOK /\ NoFault
  BY <1>1 DEF SubInit, TypeOK, NoFault
<1>3. Placed /\ HandOwns /\ ArenaOwns /\ BorrowedLives
  BY <1>1 DEF SubInit, Placed, HandOwns, ArenaOwns, BorrowedLives
<1>4. PointersFit /\ OnePointer /\ HomesExist /\ SomeOwner
  BY <1>1 DEF SubInit, PointersFit, OnePointer, HomesExist, SomeOwner
<1>5. QED
  BY <1>2, <1>3, <1>4 DEF OwnersInv

LEMMA NextKeeps == OwnersInv /\ [SubNext]_subVars => OwnersInv'
<1>1. SUFFICES ASSUME OwnersInv, [SubNext]_subVars PROVE OwnersInv'
  OBVIOUS
<1>2. ASSUME NEW h \in Holders,
             mutable(h) \/ clear(h) \/ release(h) \/ UnsafeArenaRelease(h) \/ Construct(h) \/ Destroy(h)
      PROVE  OwnersInv'
  BY <1>1, <1>2, MakingKeeps, clearKeeps, releaseKeeps, UnsafeArenaReleaseKeeps, ConstructKeeps, DestroyKeeps
<1>3. ASSUME NEW h \in Holders, NEW o \in Objects, SetAllocated(h, o) \/ UnsafeArenaSetAllocated(h, o)
      PROVE  OwnersInv'
  BY <1>1, <1>3, SetAllocatedKeeps, UnsafeArenaSetAllocatedKeeps
<1>4. ASSUME NEW h \in Holders, NEW g \in Holders,
             CopyConstruct(h, g) \/ MergeFrom(h, g) \/ CopyFrom(h, g) \/ Swap(h, g)
      PROVE  OwnersInv'
  BY <1>1, <1>4, MakingKeeps, CopyConstructKeeps, SwapKeeps
<1>5. CASE \E p \in Places : NewValue(p)
  BY <1>1, <1>5, NewValueKeeps
<1>6. CASE \E o \in Objects : DeleteValue(o)
  BY <1>1, <1>6, DeleteValueKeeps
<1>7. CASE \E a \in Arenas : DestroyArena(a)
  BY <1>1, <1>7, DestroyArenaKeeps
<1>8. CASE UNCHANGED subVars
  BY <1>1, <1>8 DEF OwnersInv, subVars, TypeOK, NoFault, Placed, HandOwns, ArenaOwns, BorrowedLives,
     PointersFit, Fits, OnePointer, HomesExist, SomeOwner
<1>9. QED
  BY <1>1, <1>2, <1>3, <1>4, <1>5, <1>6, <1>7, <1>8 DEF SubNext

\* The owners that OwnersInv gives are the only ones: a Value that the caller or a
\* message of the heap owns is no arena's and no other message's.
LEMMA OwnersAreOne == OwnersInv => OneOwner
<1>1. SUFFICES ASSUME OwnersInv, NEW o \in live, place[o] = Heap
               PROVE  \E w \in Owners : Owns(w, o) /\ \A x \in Owners : Owns(x, o) => x = w
  BY DEF OneOwner
<1>2. \E w \in Owners : Owns(w, o)
  BY <1>1 DEF OwnersInv, SomeOwner, Owners, Owns
<1>3. ASSUME NEW w \in Owners, NEW x \in Owners, Owns(w, o), Owns(x, o)
      PROVE  x = w
  <2>1. CASE o \in hand
    BY <1>1, <1>3, <2>1, NamesAssumption DEF OwnersInv, HandOwns, PointersFit, Fits, Owners, Owns, TypeOK
  <2>2. CASE \E a \in Arenas : o \in owned[a]
    BY <1>1, <1>3, <2>2, NamesAssumption DEF OwnersInv, HandOwns, ArenaOwns, PointersFit, Fits, Owners, Owns, TypeOK
  <2>3. CASE o \notin hand /\ \A a \in Arenas : o \notin owned[a]
    BY <1>1, <1>3, <2>3, NamesAssumption DEF OwnersInv, OnePointer, Owners, Owns, TypeOK
  <2>4. QED
    BY <2>1, <2>2, <2>3
<1>4. QED
  BY <1>2, <1>3

LEMMA PointersAreSafe == OwnersInv => PointersSound
<1>1. SUFFICES ASSUME OwnersInv, NEW h \in alive, sub[h] # NULL
               PROVE  /\ sub[h] \in live
                      /\ IF Home[h] = Heap THEN place[sub[h]] = Heap
                         ELSE place[sub[h]] = Home[h] \/ sub[h] \in owned[Home[h]]
                      /\ sub[h] \notin hand \cup borrowed
                      /\ \A g \in alive : sub[g] = sub[h] => g = h
  BY DEF PointersSound, PointersLive, NotShared
<1>2. h \in Holders /\ Fits(h, sub[h])
  BY <1>1 DEF OwnersInv, TypeOK, PointersFit
<1>3. \A g \in alive : sub[g] = sub[h] => g = h
  BY <1>1, <1>2 DEF OwnersInv, TypeOK, OnePointer
<1>4. QED
  BY <1>2, <1>3 DEF Fits

\* The variables are what they should be, whatever the sets are.
THEOREM SubMessageTyped == SubSpec => []TypeOK
<1>1. OwnersInv => TypeOK
  BY DEF OwnersInv
<1>2. QED
  BY <1>1, InitHolds, NextKeeps, PTL DEF SubSpec

\* Every Value of the heap has exactly one who deletes it: none leaks, and none
\* is deleted twice, by no sequence of the accessors of the generated classes.
THEOREM ExactlyOneOwner == SubSpec => []OneOwner
<1>1. QED
  BY OwnersAreOne, InitHolds, NextKeeps, PTL DEF SubSpec

\* No message points to a Value that is deleted or dies before it does, and
\* none shares its Value.
THEOREM PointersSafe == SubSpec => []PointersSound
<1>1. QED
  BY PointersAreSafe, InitHolds, NextKeeps, PTL DEF SubSpec

\* Nothing is deleted that does not exist.
THEOREM NeverDeletedTwice == SubSpec => []NoFault
<1>1. OwnersInv => NoFault
  BY DEF OwnersInv
<1>2. QED
  BY <1>1, InitHolds, NextKeeps, PTL DEF SubSpec
===============================================================================
