-------------------------------- MODULE Replace --------------------------------
(*****************************************************************************)
(* ReplaceVisitor of src/AST.cpp, and the loop of replaceType in             *)
(* src/clang.cpp that calls Type::replace on the type of every entry. Each   *)
(* call makes a new visitor, which descends through the members of a type    *)
(* and keeps a set of what it has visited, because types are recursive.      *)
(*                                                                           *)
(* A type is [kind, kids]; the first of the kids of a function is its return *)
(* type, which is replaced but not descended into.                           *)
(*****************************************************************************)
EXTENDS Replacement

CONSTANT Calls  \* calls of replaceType: [objs, src, dest, entries]

\* The kinds that ReplaceVisitor has a function for. visitQualType and the
\* others are those of TypeVisitor, which do nothing.
Descended == {"function", "array", "pointer", "struct", "union"}
Leaves == {"builtin", "enum"}

\* There is an entry for every type that may have src as a member: a type is in
\* the container before its parts are converted, and stays. The types of an
\* earlier job are in no container any more, but know none of the later ones.
ASSUME CallsAssumption ==
  \A c \in Calls :
    LET Ids == 1 .. Len(c.objs) IN
    /\ c.src \in Ids /\ c.dest \in Ids
    /\ c.objs \in Seq([kind : Descended \union Leaves \union {"qualified"}, kids : Seq(Ids)])
    /\ \A o \in Ids : c.objs[o].kind \in Leaves => c.objs[o].kids = << >>
    /\ c.entries \in Seq(Ids)
    /\ \A o \in Ids \ {c.src} :
         \/ \E n \in 1 .. Len(c.entries) : c.entries[n] = o
         \/ \A m \in 1 .. Len(c.objs[o].kids) : c.objs[o].kids[m] # c.src

VARIABLES
  before,   \* the types as they are when replaceType is called
  objs,     \* the types
  src, dest,
  entries,  \* the types of the entries still to come
  stack,    \* the active visits: [type, member], the member to be looked at next
  visited,  \* the set of the visitor
  root      \* the type that the last Type::replace was called on, or NoType

vars == <<before, objs, src, dest, entries, stack, visited, root>>

NoType == 0

Init ==
  /\ \E c \in Calls : before = c.objs /\ src = c.src /\ dest = c.dest /\ entries = c.entries
  /\ objs = before
  /\ stack = << >>
  /\ visited = {}
  /\ root = NoType

-------------------------------------------------------------------------------
\* A call of visit(t) puts a frame on the stack unless it returns at once.
Visits(t, seen) == objs[t].kind \in Descended /\ t \notin seen

\* Wrong variant: the loop does not get past an entry of src.
NextEntryStuck ==
  /\ stack = << >>
  /\ entries # << >>
  /\ entries' = IF Head(entries) = src THEN entries ELSE Tail(entries)
  /\ LET t == Head(entries) IN
       /\ root' = IF t = src THEN NoType ELSE t
       /\ IF t # src /\ Visits(t, {})
          THEN visited' = {t} /\ stack' = <<[type |-> t, member |-> 1]>>
          ELSE visited' = {} /\ stack' = << >>
  /\ UNCHANGED <<before, objs, src, dest>>

\* The next entry: src is marked as dangling instead, any other type gets a
\* visitor of its own.
NextEntry ==
  /\ stack = << >>
  /\ entries # << >>
  /\ entries' = Tail(entries)
  /\ LET t == Head(entries) IN
       /\ root' = IF t = src THEN NoType ELSE t
       /\ IF t # src /\ Visits(t, {})
          THEN visited' = {t} /\ stack' = <<[type |-> t, member |-> 1]>>
          ELSE visited' = {} /\ stack' = << >>
  /\ UNCHANGED <<before, objs, src, dest>>

Frame == stack[Len(stack)]
Members == objs[Frame.type].kids
Member == Members[Frame.member]

HasMember == stack # << >> /\ Frame.member <= Len(Members)

Advanced == [stack EXCEPT ![Len(stack)].member = @ + 1]

\* Wrong variant: the visit is over once a member is replaced.
ReplaceFirstMember ==
  /\ HasMember
  /\ Member = src
  /\ objs' = [objs EXCEPT ![Frame.type].kids[Frame.member] = dest]
  /\ stack' = [stack EXCEPT ![Len(stack)].member = Len(Members) + 1]
  /\ UNCHANGED <<before, src, dest, entries, visited, root>>

ReplaceMember ==
  /\ HasMember
  /\ Member = src
  /\ objs' = [objs EXCEPT ![Frame.type].kids[Frame.member] = dest]
  /\ stack' = Advanced
  /\ UNCHANGED <<before, src, dest, entries, visited, root>>

IsReturnType == objs[Frame.type].kind = "function" /\ Frame.member = 1

\* Wrong variant: a member that has been visited ends the loop (return for
\* continue).
PassMemberReturns ==
  /\ HasMember
  /\ Member # src
  /\ IsReturnType \/ ~ Visits(Member, visited)
  /\ stack' = [stack EXCEPT ![Len(stack)].member = Len(Members) + 1]
  /\ UNCHANGED <<before, objs, src, dest, entries, visited, root>>

\* A return type that is not src, or a member whose visit returns at once.
PassMember ==
  /\ HasMember
  /\ Member # src
  /\ IsReturnType \/ ~ Visits(Member, visited)
  /\ stack' = Advanced
  /\ UNCHANGED <<before, objs, src, dest, entries, visited, root>>

\* Wrong variant: the type is not marked as visited.
VisitMemberUnmarked ==
  /\ HasMember
  /\ Member # src
  /\ ~ IsReturnType
  /\ Visits(Member, visited)
  /\ Len(stack) <= Len(objs)
  /\ stack' = Append(Advanced, [type |-> Member, member |-> 1])
  /\ UNCHANGED <<before, objs, src, dest, entries, visited, root>>

VisitMember ==
  /\ HasMember
  /\ Member # src
  /\ ~ IsReturnType
  /\ Visits(Member, visited)
  /\ visited' = visited \union {Member}
  /\ stack' = Append(Advanced, [type |-> Member, member |-> 1])
  /\ UNCHANGED <<before, objs, src, dest, entries, root>>

ReturnVisit ==
  /\ stack # << >>
  /\ Frame.member > Len(Members)
  /\ stack' = SubSeq(stack, 1, Len(stack) - 1)
  /\ UNCHANGED <<before, objs, src, dest, entries, visited, root>>

Step == NextEntry \/ ReplaceMember \/ PassMember \/ VisitMember \/ ReturnVisit

Returned == entries = << >> /\ stack = << >>

Next == Step \/ (Returned /\ UNCHANGED vars)

Spec == Init /\ [][Next]_vars

\* One thread, and nothing to wait for.
FairSpec == Spec /\ WF_vars(Step)

-------------------------------------------------------------------------------
(* Properties.                                                               *)

\* When replaceType returns, all its visits together have had the effect that
\* the collector relies on, whatever the order of the entries and the cycles
\* of the types: no member was missed and no other one changed. A single call
\* would not do, since it stops at return types and at QualTypes.
ReplacesEverywhere == Returned => objs = ReplaceAll(before, src, dest)

\* t gets a visit in a call for r: every set with r that is closed under the
\* descents holds t.
ReachedFrom(r, t) ==
  \A S \in SUBSET (1 .. Len(objs)) :
    /\ r \in S
    /\ \A o \in S : \A n \in 1 .. Len(before[o].kids) :
         /\ before[o].kind \in Descended
         /\ before[o].kids[n] # src
         /\ before[o].kind = "function" => n > 1
         => before[o].kids[n] \in S
    => t \in S

\* At the end of each call of Type::replace, every type that a visit can get to
\* from the type it was called on has been visited, even through types that
\* earlier calls have changed, and all that was visited is rewritten: this is
\* what src/test/ast.cpp tests on two small types.
ReplacesBelow ==
  stack = << >> /\ root # NoType =>
    \A t \in 1 .. Len(objs) :
      /\ t \in visited => objs[t] = ReplaceAll(before, src, dest)[t]
      /\ ReachedFrom(root, t) /\ before[t].kind \in Descended => t \in visited

\* The visitor is never inside the same type twice, so its recursion is no
\* deeper than there are types, and src is never visited.
VisitedOnce ==
  /\ \A a, b \in 1 .. Len(stack) : stack[a].type = stack[b].type => a = b
  /\ src \notin visited

\* replaceType returns.
Termination == <>Returned
===============================================================================
