----------------------------- MODULE ProtoMessage -----------------------------
(*****************************************************************************)
(* Two messages of one of the classes of src/autoffi.pb.h, on the heap or on *)
(* arenas, and the calls a program can make on them in any order: accessors, *)
(* Clear, MergeFrom, CopyFrom, the copy constructor, Swap, ByteSizeLong,     *)
(* SerializeToOstream and ParseFromIstream.  Format::write fills messages by *)
(* the setters and writes them; a binding generator reads them.              *)
(*****************************************************************************)
EXTENDS ProtoOps

CONSTANTS
  Samples(_),   \* contents the messages start with, by class
  Values(_, _), \* the values a setter or add_... is called with: of a class and a field
  MaxCalls(_)   \* how many calls there are, by class

\* The values that a setter of a field f is called with, or add_...
ValuesFor(f) ==
  CASE IsMessage(f) -> Contents(f.type)
    [] f.type \in {"int32", "enum"} -> Int32
    [] f.type = "bool" -> BOOLEAN
    [] f.type = "string" -> Text
    [] f.type = "bytes" -> Seq(Byte)

ASSUME SamplesAssumption == \A c \in Classes : Samples(c) \subseteq Contents(c)
ASSUME ValuesAssumption ==
  \A c \in Classes : \A n \in FieldNames(c) : Values(c, n) \subseteq ValuesFor(Schema[c][n])

VARIABLES
  class,     \* the class of both messages
  msg,       \* the two messages
  sameArena, \* they live on the same arena, or both on the heap
  bytes,     \* what the last SerializeToOstream wrote, in a sequence of one
  decoded,   \* the content that these bytes are by the descriptor, in a sequence of one
  written,   \* the first cached size of the message written, in a sequence of one
  call,      \* the last call, with its arguments
  calls      \* how many there were

vars == <<class, msg, sameArena, bytes, decoded, written, call, calls>>

Init ==
  /\ class \in Classes
  /\ \E a, b \in Samples(class), j \in Junk :
       msg = << Build(class, a, j), Build(class, b, j) >>
  /\ sameArena \in BOOLEAN
  /\ bytes = << >>
  /\ decoded = << >>
  /\ written = << >>
  /\ call = << "new" >>
  /\ calls = 0

Called(how) ==
  /\ calls < MaxCalls(class)
  /\ calls' = calls + 1
  /\ call' = how

Assign(x, new, how) ==
  /\ Called(how)
  /\ msg' = [msg EXCEPT ![x] = new]
  /\ UNCHANGED <<class, sameArena, bytes, decoded, written>>

-------------------------------------------------------------------------------
(* Accessors.                                                                *)
Scalars == {"string", "number", "bool"}

Set(x, m, v) ==
  /\ Accessors[class][m] \in Scalars
  /\ Assign(x, [msg[x] EXCEPT ![m] = v], << "set", x, m, v >>)

ClearField(x, m) ==
  Assign(x, [msg[x] EXCEPT ![m] = Default(Kind(class, m))], << "clear field", x, m >>)

\* Adds a number, or a message that the caller then fills.
Add(x, m, v, junk) ==
  /\ Accessors[class][m] \in {"numbers", "messages"}
  /\ Assign(x, [msg[x] EXCEPT ![m] =
                  Append(@, IF Accessors[class][m] = "numbers" THEN v
                            ELSE Build(ClassBelow(class, m), v, junk))], << "add", x, m, v >>)

Mutable(x, m, junk) ==
  /\ Accessors[class][m] = "pointer"
  /\ Assign(x, [msg[x] EXCEPT ![m] =
                  IF @ = << >> THEN << New(ClassBelow(class, m), junk) >> ELSE @],
            << "mutable", x, m >>)

-------------------------------------------------------------------------------
(* Member functions.                                                         *)
CallClear(x) == Assign(x, Clear(class, msg[x]), << "clear", x >>)

CallMergeFrom(x, y, junk) ==
  x # y /\ Assign(x, MergeFrom(class, msg[x], msg[y], junk), << "merge", x, y >>)

\* CopyFrom of a message to itself returns at once.
CallCopyFrom(x, y, junk) ==
  Assign(x, IF x = y THEN msg[x] ELSE CopyFrom(class, msg[x], msg[y], junk), << "copy", x, y >>)

\* The message is destroyed and constructed anew as a copy.
CopyConstruct(x, y, junk) ==
  x # y /\ Assign(x, CopyOf(class, msg[y], junk), << "copy", x, y >>)

CallSwap(x, y, junk) ==
  /\ Called(<< "swap", x, y >>)
  /\ LET after == Swap(class, msg[x], msg[y], sameArena, junk)
     IN  msg' = IF x = y THEN msg ELSE [msg EXCEPT ![x] = after[1], ![y] = after[2]]
  /\ UNCHANGED <<class, sameArena, bytes, decoded, written>>

\* The runtime writes no message of more than MaxInt bytes.
SerializeMessage(x, mode) ==
  /\ Called(<< "write", x >>)
  /\ msg' = [msg EXCEPT ![x] = ByteSizeLong(class, @)]
  /\ msg'[x]._cached_size_ <= MaxInt
  /\ bytes' = << Serialize(class, msg'[x], mode) >>
  /\ decoded' = << Decode(class, bytes'[1]).content >>
  /\ written' = << msg'[x]._cached_size_ >>
  /\ UNCHANGED <<class, sameArena>>

ParseMessage(x, junk) ==
  /\ bytes # << >>
  /\ \E r \in {ParseFromIstream(class, msg[x], bytes[1], junk)} :
       r.ok /\ Assign(x, r.msg, << "read", x >>)

Next ==
  \E x \in {1, 2}, j \in Junk :
    \/ \E m \in DOMAIN Accessors[class] :
         \/ \E v \in Values(class, m) : Set(x, m, v) \/ Add(x, m, v, j)
         \/ ClearField(x, m)
         \/ Mutable(x, m, j)
    \/ CallClear(x)
    \/ \E y \in {1, 2} : \/ CallMergeFrom(x, y, j)
                         \/ CallCopyFrom(x, y, j)
                         \/ CopyConstruct(x, y, j)
                         \/ CallSwap(x, y, j)
    \/ \E mode \in {"stream", "mixed", "array"} : SerializeMessage(x, mode)
    \/ ParseMessage(x, j)

Spec == Init /\ [][Next]_vars

-------------------------------------------------------------------------------
(* Properties.                                                               *)

\* Whatever was called before, and whatever the caches of the messages hold,
\* the size computed before writing (ByteSizeLong) is the number of bytes then
\* written: the buffer the runtime takes for the bytes is neither too short nor
\* too long.
SizeIsBytes == bytes # << >> => written[1] = Len(bytes[1])

\* The classes keep the promise of Messages: every call does to the contents
\* what the descriptor says, and the bytes written are, to a reader who has the
\* descriptor only (MessageToJsonString), the content of the message.
Promise == INSTANCE Messages WITH
  content <- << Content(class, msg[1]), Content(class, msg[2]) >>,
  wire <- decoded

ImplementsMessages == Promise!Spec
===============================================================================
