------------------------------ MODULE SubMessage ------------------------------
(*****************************************************************************)
(* Who owns the Value that an Export or a RecordField points to.  The class  *)
(* of src/autoffi.pb.h keeps a plain pointer: a message on the heap deletes  *)
(* what it points to, one on an arena leaves that to the arena, and the      *)
(* pointer changes hands between messages, arenas and the caller.  What a    *)
(* Value says does not matter here; ProtoMessage is about that.              *)
(*                                                                           *)
(* The caller keeps the rules: it deletes and passes on what it was given    *)
(* only, each once, and gives what it got from unsafe_arena_release to a     *)
(* message of the same arena with unsafe_arena_set_allocated only.           *)
(*****************************************************************************)
CONSTANTS
  Holders,  \* the messages that have such a pointer
  Objects,  \* the Values; no address is used twice
  Arenas,
  Heap, NULL, Unused, Caller,
  Home      \* where each message lives: on an arena or on the heap

Places == Arenas \cup {Heap}

ASSUME HomeAssumption == Home \in [Holders -> Places]
ASSUME NamesAssumption ==
  /\ Heap \notin Arenas /\ Unused \notin Places /\ NULL \notin Objects
  /\ Caller \notin Holders \cup Arenas /\ Holders \cap Arenas = {}

VARIABLES
  alive,    \* the messages that exist
  sub,      \* the pointer of each of them: value_, defaultvalue_
  place,    \* where a Value was created: GetArena of it, or the heap
  live,     \* the Values that exist
  owned,    \* the Values of the heap that an arena has to delete: Arena::Own
  gone,     \* the arenas that do not exist any more
  hand,     \* the Values of the heap that the caller has to delete
  borrowed, \* the Values of arenas that the caller has and no message has
  fault     \* a Value was deleted that did not exist

subVars == <<alive, sub, place, live, owned, gone, hand, borrowed, fault>>

SubInit ==
  /\ alive = {} /\ sub = [h \in Holders |-> NULL]
  /\ place = [o \in Objects |-> Unused] /\ live = {}
  /\ owned = [a \in Arenas |-> {}] /\ gone = {}
  /\ hand = {} /\ borrowed = {} /\ fault = FALSE

-------------------------------------------------------------------------------
(* Memory.                                                                   *)

Fresh(o) == o \in Objects /\ place[o] = Unused

\* The Values freed are deleted and, if any is made, one is made at a place.
Allocate(o, p, freed) ==
  /\ Fresh(o)
  /\ place' = [place EXCEPT ![o] = p]
  /\ live' = (live \ freed) \cup {o}
  /\ fault' = (fault \/ ~ (freed \subseteq live))

Delete(freed) ==
  /\ live' = live \ freed
  /\ fault' = (fault \/ ~ (freed \subseteq live))
  /\ UNCHANGED place

Point(h, o) == sub' = [sub EXCEPT ![h] = o]

\* if (GetArenaNoVirtual() == NULL) delete value_
\* Wrong variant: the arena is not asked.
DeletedAlways(h) == IF sub[h] # NULL THEN {sub[h]} ELSE {}
Deleted(h) == IF Home[h] = Heap /\ sub[h] # NULL THEN {sub[h]} ELSE {}

-------------------------------------------------------------------------------
(* Accessors.                                                                *)

\* _slow_mutable_value
SlowMutable(h) ==
  /\ \E new \in Objects : Allocate(new, Home[h], {}) /\ Point(h, new)
  /\ UNCHANGED <<alive, owned, gone, hand, borrowed>>

mutable(h) == h \in alive /\ sub[h] = NULL /\ SlowMutable(h)

\* clear_value, and Clear as far as the pointer goes.
clear(h) ==
  /\ h \in alive /\ sub[h] # NULL
  /\ Delete(Deleted(h)) /\ Point(h, NULL)
  /\ UNCHANGED <<alive, owned, gone, hand, borrowed>>

\* _slow_release_value: the caller gets a copy on the heap.
SlowRelease(h) ==
  \E new \in Objects : Allocate(new, Heap, {}) /\ hand' = hand \cup {new}

release(h) ==
  /\ h \in alive /\ sub[h] # NULL /\ Point(h, NULL)
  /\ \/ Home[h] # Heap /\ SlowRelease(h)
     \/ Home[h] = Heap /\ hand' = hand \cup {sub[h]} /\ UNCHANGED <<place, live, fault>>
  /\ UNCHANGED <<alive, owned, gone, borrowed>>

\* unsafe_arena_release_value: a Value of an arena stays the arena's.
UnsafeArenaRelease(h) ==
  /\ h \in alive /\ sub[h] # NULL /\ Point(h, NULL)
  /\ IF Home[h] = Heap THEN hand' = hand \cup {sub[h]} /\ UNCHANGED borrowed
     ELSE borrowed' = borrowed \cup {sub[h]} /\ UNCHANGED hand
  /\ UNCHANGED <<alive, place, live, owned, gone, fault>>

\* _slow_set_allocated_value, after the Values freed were deleted: an arena
\* comes to own a Value of the heap, and one of another arena is copied.
SlowSetAllocated(h, o, freed) ==
  \/ /\ Home[h] # Heap /\ place[o] = Heap
     /\ owned' = [owned EXCEPT ![Home[h]] = @ \cup {o}]
     /\ hand' = hand \ {o}
     /\ Point(h, o) /\ Delete(freed) /\ UNCHANGED borrowed
  \/ /\ Home[h] = place[o]
     /\ hand' = hand \ {o} /\ borrowed' = borrowed \ {o}
     /\ Point(h, o) /\ Delete(freed) /\ UNCHANGED owned
  \/ /\ place[o] # Heap /\ Home[h] # place[o]
     /\ \E new \in Objects : Allocate(new, Home[h], freed) /\ Point(h, new)
     /\ UNCHANGED <<owned, hand, borrowed>>

\* With NULL, set_allocated_value does what clear_value does.
SetAllocated(h, o) ==
  /\ h \in alive
  /\ o \in hand \/ (o \in borrowed /\ place[o] # Heap)
  /\ SlowSetAllocated(h, o, Deleted(h))
  /\ UNCHANGED <<alive, gone>>

\* unsafe_arena_set_allocated_value: only a message of the heap deletes what it had.
UnsafeArenaSetAllocated(h, o) ==
  /\ h \in alive
  /\ IF Home[h] = Heap THEN o \in hand
     ELSE o \in borrowed /\ (place[o] = Home[h] \/ o \in owned[Home[h]])
  /\ Point(h, o) /\ Delete(Deleted(h))
  /\ hand' = hand \ {o} /\ borrowed' = borrowed \ {o}
  /\ UNCHANGED <<alive, owned, gone>>

-------------------------------------------------------------------------------
(* Messages.                                                                 *)

\* A message that a program makes points to nothing.
Construct(h) ==
  /\ h \notin alive /\ Home[h] \notin gone
  /\ alive' = alive \cup {h}
  /\ UNCHANGED <<sub, place, live, owned, gone, hand, borrowed, fault>>

\* The copy constructor makes a message of the heap.
\* Wrong variant: the pointer is copied.
CopyConstructShallow(h, g) ==
  /\ h \notin alive /\ Home[h] = Heap /\ g \in alive
  /\ alive' = alive \cup {h} /\ Point(h, sub[g])
  /\ UNCHANGED <<place, live, owned, gone, hand, borrowed, fault>>
CopyConstruct(h, g) ==
  /\ h \notin alive /\ Home[h] = Heap /\ g \in alive
  /\ alive' = alive \cup {h}
  /\ IF sub[g] # NULL
     THEN \E new \in Objects : Allocate(new, Heap, {}) /\ Point(h, new)
     ELSE UNCHANGED <<sub, place, live, fault>>
  /\ UNCHANGED <<owned, gone, hand, borrowed>>

\* MergeFrom another message: mutable_value()->MergeFrom(from.value()), which
\* leaves a pointer that is there.
MergeFrom(h, g) ==
  /\ h \in alive /\ g \in alive /\ h # g
  /\ sub[h] = NULL /\ sub[g] # NULL
  /\ SlowMutable(h)

\* CopyFrom another message: Clear, then MergeFrom.  (Where one of the two points
\* to nothing, it is one of these alone.)
CopyFrom(h, g) ==
  /\ h \in alive /\ g \in alive /\ h # g
  /\ sub[h] # NULL /\ sub[g] # NULL
  /\ \E new \in Objects : Allocate(new, Home[h], Deleted(h)) /\ Point(h, new)
  /\ UNCHANGED <<alive, owned, gone, hand, borrowed>>

\* InternalSwap.
InternalSwap(h, g) ==
  /\ sub' = [sub EXCEPT ![h] = sub[g], ![g] = sub[h]]
  /\ UNCHANGED <<place, live, fault>>

\* Swap between messages of different places, where both point to a Value: a
\* temporary message where h lives gets a copy from g, g one from h; then h
\* and the temporary message are swapped, which is deleted on the heap with
\* what h had.
SwapCopies(h, g) ==
  \E forH, forG \in Objects :
    /\ Fresh(forH) /\ Fresh(forG) /\ forH # forG
    /\ place' = [place EXCEPT ![forH] = Home[h], ![forG] = Home[g]]
    /\ live' = (live \ (Deleted(h) \cup Deleted(g))) \cup {forH, forG}
    /\ fault' = (fault \/ ~ (Deleted(h) \cup Deleted(g) \subseteq live))
    /\ sub' = [sub EXCEPT ![h] = forH, ![g] = forG]

\* The same where one of them, from, points to nothing and the other to a Value.
SwapMoves(to, from) ==
  \E new \in Objects :
    /\ Allocate(new, Home[to], Deleted(from))
    /\ sub' = [sub EXCEPT ![to] = new, ![from] = NULL]

Swap(h, g) ==
  /\ h \in alive /\ g \in alive /\ h # g
  /\ \/ Home[h] = Home[g] /\ InternalSwap(h, g)
     \/ Home[h] # Home[g] /\ sub[h] # NULL /\ sub[g] # NULL /\ SwapCopies(h, g)
     \/ Home[h] # Home[g] /\ sub[h] = NULL /\ sub[g] # NULL /\ SwapMoves(h, g)
     \/ Home[h] # Home[g] /\ sub[h] # NULL /\ sub[g] = NULL /\ SwapMoves(g, h)
  /\ UNCHANGED <<alive, owned, gone, hand, borrowed>>

\* The destructor of a message of the heap, SharedDtor.
\* Wrong variant: the Value is left behind.
DestroyKeeping(h) ==
  /\ h \in alive /\ Home[h] = Heap
  /\ alive' = alive \ {h} /\ Point(h, NULL)
  /\ UNCHANGED <<place, live, owned, gone, hand, borrowed, fault>>
Destroy(h) ==
  /\ h \in alive /\ Home[h] = Heap
  /\ alive' = alive \ {h} /\ Point(h, NULL)
  /\ Delete(Deleted(h))
  /\ UNCHANGED <<owned, gone, hand, borrowed>>

-------------------------------------------------------------------------------
(* The caller and the arenas.                                                *)

NewValue(p) ==
  /\ p \notin gone
  /\ \E new \in Objects :
       /\ Allocate(new, p, {})
       /\ IF p = Heap THEN hand' = hand \cup {new} /\ UNCHANGED borrowed
          ELSE borrowed' = borrowed \cup {new} /\ UNCHANGED hand
  /\ UNCHANGED <<alive, sub, owned, gone>>

DeleteValue(o) ==
  /\ o \in hand /\ Delete({o})
  /\ hand' = hand \ {o}
  /\ UNCHANGED <<alive, sub, owned, gone, borrowed>>

\* An arena goes with all that lives on it and all that it owns.
On(a) == {o \in Objects : place[o] = a}

DestroyArena(a) ==
  /\ a \notin gone
  /\ gone' = gone \cup {a}
  /\ alive' = {h \in alive : Home[h] # a}
  /\ sub' = [h \in Holders |-> IF Home[h] = a THEN NULL ELSE sub[h]]
  /\ live' = live \ (On(a) \cup owned[a])
  /\ fault' = (fault \/ ~ (owned[a] \subseteq live))
  /\ borrowed' = borrowed \ (On(a) \cup owned[a])
  /\ owned' = [owned EXCEPT ![a] = {}]
  /\ UNCHANGED <<place, hand>>

SubNext ==
  \/ \E h \in Holders :
       \/ mutable(h) \/ clear(h) \/ release(h) \/ UnsafeArenaRelease(h)
       \/ Construct(h) \/ Destroy(h)
       \/ \E o \in Objects : SetAllocated(h, o) \/ UnsafeArenaSetAllocated(h, o)
       \/ \E g \in Holders : CopyConstruct(h, g) \/ MergeFrom(h, g) \/ CopyFrom(h, g) \/ Swap(h, g)
  \/ \E p \in Places : NewValue(p)
  \/ \E o \in Objects : DeleteValue(o)
  \/ \E a \in Arenas : DestroyArena(a)

SubSpec == SubInit /\ [][SubNext]_subVars

-------------------------------------------------------------------------------
(* Properties.                                                               *)

TypeOK ==
  /\ alive \subseteq Holders /\ sub \in [Holders -> Objects \cup {NULL}]
  /\ place \in [Objects -> Places \cup {Unused}] /\ live \subseteq Objects
  /\ owned \in [Arenas -> SUBSET Objects] /\ gone \subseteq Arenas
  /\ hand \subseteq Objects /\ borrowed \subseteq Objects /\ fault \in BOOLEAN

\* Who is to delete a Value of the heap.
Owners == Holders \cup Arenas \cup {Caller}
Owns(w, o) ==
  \/ w = Caller /\ o \in hand
  \/ w \in Holders /\ Home[w] = Heap /\ sub[w] = o
  \/ w \in Arenas /\ o \in owned[w]

\* Through all the ways a pointer can change hands there is exactly one who
\* will delete a Value of the heap: none is lost, and none is deleted twice.
OneOwner ==
  \A o \in live :
    place[o] = Heap => \E w \in Owners : Owns(w, o) /\ \A x \in Owners : Owns(x, o) => x = w

\* No message points to a Value that is deleted, or that dies before the
\* message: a message on an arena points to what lives on this arena or is
\* owned by it, a message on the heap to what is on the heap.
PointersLive ==
  \A h \in alive :
    sub[h] # NULL =>
      /\ sub[h] \in live
      /\ IF Home[h] = Heap THEN place[sub[h]] = Heap
         ELSE place[sub[h]] = Home[h] \/ sub[h] \in owned[Home[h]]

\* No two messages, and no message and the caller, have the same Value: what
\* is written into one is not seen in another.
NotShared ==
  \A h \in alive :
    sub[h] # NULL =>
      /\ sub[h] \notin hand \cup borrowed
      /\ \A g \in alive : sub[g] = sub[h] => g = h

\* What a program reaches from a message is there, and is the message's own.
PointersSound == PointersLive /\ NotShared

\* Nothing is deleted that does not exist, whatever is destroyed first.
NoFault == ~ fault
===============================================================================
