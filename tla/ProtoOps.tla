------------------------------- MODULE ProtoOps -------------------------------
(*****************************************************************************)
(* The member functions of the message classes, as operators on messages,    *)
(* driven by the tables of ProtoClasses.  A message is a record with one     *)
(* field for each member of its class, the cached sizes included; a pointer  *)
(* to a message is a sequence of at most one.                                *)
(*****************************************************************************)
EXTENDS ProtoClasses, ProtoSchema

CONSTANT Junk  \* what uninitialised memory may hold

ASSUME JunkAssumption == Junk \subseteq Int

Kind(c, m) == MemberOf[c][m].kind
ClassBelow(c, m) == MemberOf[c][m].class
IsBelow(c, m) == Kind(c, m) \in {"pointer", "messages"}
Below(c) == {m \in MemberNames(c) : IsBelow(c, m)}

\* What F makes of the message x of class c and of what it makes of each message
\* below: F(c, x, below), where below[m] is the sequence of the results for member m.
\* It is one definition for each height, as messages are no deeper.
\* (Evaluated(e) is e, and tells TLC to compute it once.)
Evaluated(e) == CHOOSE v \in {e} : v = v

Flat(F(_, _, _), c, x) == F(c, x, << >>)
High(F(_, _, _), c, x) ==
  F(c, x, Evaluated([m \in Below(c) |->
                      [k \in DOMAIN x[m] |-> Flat(F, ClassBelow(c, m), x[m][k])]]))
Higher(F(_, _, _), c, x) ==
  F(c, x, Evaluated([m \in Below(c) |->
                      [k \in DOMAIN x[m] |-> High(F, ClassBelow(c, m), x[m][k])]]))
Deep(F(_, _, _), c, x) ==
  F(c, x, Evaluated([m \in Below(c) |->
                      [k \in DOMAIN x[m] |-> Higher(F, ClassBelow(c, m), x[m][k])]]))

Default(kind) ==
  CASE kind \in {"number", "cache"} -> 0
    [] kind = "bool" -> FALSE
    [] kind \in {"string", "numbers", "pointer", "messages"} -> << >>

\* A new message.  What no constructor sets holds whatever was in memory: junk.
New(c, junk) ==
  [m \in MemberNames(c) |-> IF m \in Constructed[c] THEN Default(Kind(c, m)) ELSE junk]

Clear(c, msg) ==
  [m \in MemberNames(c) |-> IF m \in Cleared[c] THEN Default(Kind(c, m)) ELSE msg[m]]

\* MergeFrom of a class whose messages have none below them: Value.
MergeScalars(c, to, from) ==
  [m \in MemberNames(c) |->
     IF m \in MergedIn[c] /\ from[m] # Default(Kind(c, m)) THEN from[m] ELSE to[m]]

\* Zero, false, empty and NULL are not merged: has_... , size() > 0 and != 0.
\* copies are new messages with what the messages below from say.  A pointer is
\* to a Value always; one that is NULL gets a new message, as a list does.
MergeMembers(c, to, from, copies) ==
  [m \in MemberNames(c) |->
     CASE m \notin MergedIn[c] \/ from[m] = Default(Kind(c, m)) -> to[m]
       [] m \in MergedIn[c] /\ from[m] # Default(Kind(c, m)) ->
            CASE Kind(c, m) = "numbers" -> to[m] \o from[m]
              [] Kind(c, m) = "messages" -> to[m] \o copies[m]
              [] Kind(c, m) = "pointer" ->
                   IF to[m] = << >> THEN copies[m]
                   ELSE << MergeScalars(ClassBelow(c, m), to[m][1], from[m][1]) >>
              [] Kind(c, m) \in {"string", "number", "bool", "cache"} -> from[m]]

\* A new message into which from is merged.
Copy(c, from, junk) == Deep(LAMBDA d, x, copies : MergeMembers(d, New(d, junk), x, copies), c, from)

MergeFrom(c, to, from, junk) ==
  MergeMembers(c, to, from,
    [m \in Below(c) |-> [k \in DOMAIN from[m] |-> Copy(ClassBelow(c, m), from[m][k], junk)]])

CopyFrom(c, to, from, junk) == MergeFrom(c, Clear(c, to), from, junk)

\* The copy constructor.  The messages of its lists are copies made by MergeFrom,
\* and the Value that a pointer is to is one made by the copy constructor.
CopyScalars(c, from, junk) ==
  [m \in MemberNames(c) |-> IF m \in Copied[c] THEN from[m] ELSE New(c, junk)[m]]

CopyOf(c, from, junk) ==
  [m \in MemberNames(c) |->
     CASE m \notin Copied[c] -> New(c, junk)[m]
       [] m \in Copied[c] /\ Kind(c, m) = "messages" ->
            [k \in DOMAIN from[m] |-> Copy(ClassBelow(c, m), from[m][k], junk)]
       [] m \in Copied[c] /\ Kind(c, m) = "pointer" ->
            [k \in DOMAIN from[m] |-> CopyScalars(ClassBelow(c, m), from[m][k], junk)]
       [] m \in Copied[c] /\ Kind(c, m) \notin {"messages", "pointer"} -> from[m]]

\* The first of two messages after InternalSwap with the other.
InternalSwap(c, this, other) ==
  [m \in MemberNames(c) |-> IF m \in Swapped[c] THEN other[m] ELSE this[m]]

\* Swap: <<this, other>> afterwards.  Between arenas the contents are copied,
\* with a temporary message of this arena.
\* Wrong variant: the temporary is filled after other was overwritten.
SwapLate(c, this, other, sameArena, junk) ==
  IF sameArena THEN << InternalSwap(c, this, other), InternalSwap(c, other, this) >>
  ELSE LET new == CopyFrom(c, other, this, junk)
           temp == MergeFrom(c, New(c, junk), new, junk)
       IN  << InternalSwap(c, this, temp), new >>

Swap(c, this, other, sameArena, junk) ==
  IF sameArena THEN << InternalSwap(c, this, other), InternalSwap(c, other, this) >>
  ELSE LET temp == MergeFrom(c, New(c, junk), other, junk)
       IN  << InternalSwap(c, this, temp), CopyFrom(c, other, this, junk) >>

-------------------------------------------------------------------------------
\* The size of packed numbers, by the runtime's table of sizes.
DataSize(numbers) == Total([k \in DOMAIN numbers |-> Int32Size(numbers[k])])

\* What ByteSizeLong counts for a length and the bytes it is the length of.
LengthDelimitedSize(size) == Int32Size(size) + size

\* What ByteSizeLong counts for a member; sized are the messages below.
MemberSize(c, m, msg, sized) ==
  IF m \notin DOMAIN TagSizes[c] THEN 0
  ELSE LET tag == TagSizes[c][m]
       IN  CASE msg[m] = Default(Kind(c, m)) -> 0
             [] msg[m] # Default(Kind(c, m)) ->
                  CASE Kind(c, m) = "string" -> tag + LengthDelimitedSize(Len(msg[m]))
                    [] Kind(c, m) = "bool" -> tag + 1
                    [] Kind(c, m) = "number" -> tag + Int32Size(msg[m])
                    [] Kind(c, m) = "numbers" -> tag + LengthDelimitedSize(DataSize(msg[m]))
                    [] Kind(c, m) \in {"pointer", "messages"} ->
                         Total([k \in DOMAIN sized[m] |->
                                  tag + LengthDelimitedSize(sized[m][k]._cached_size_)])

SizeMembers(c, msg, sized) ==
  [m \in MemberNames(c) |->
     CASE m = "_cached_size_" ->
            Total([k \in 1 .. Len(Members[c]) |-> MemberSize(c, Members[c][k], msg, sized)])
       [] m = "_paramtype_cached_byte_size_" -> DataSize(msg["paramType"])
       [] IsBelow(c, m) -> sized[m]
       [] Kind(c, m) \in {"string", "number", "numbers", "bool"} -> msg[m]]

\* ByteSizeLong: the message with its cached sizes and those of all messages
\* below it brought up to date.
ByteSizeLong(c, msg) == Deep(SizeMembers, c, msg)

\* The bytes of a member, the field with number n; below are the bytes of the messages
\* below.
LengthDelimited(n, size, bytes) == Varint(MakeTag(n, LENGTH_DELIMITED)) \o Varint(size) \o bytes

MemberBytes(c, n, m, msg, below) ==
  CASE msg[m] = Default(Kind(c, m)) -> << >>
    [] msg[m] # Default(Kind(c, m)) ->
         CASE Kind(c, m) = "string" -> LengthDelimited(n, Len(msg[m]), msg[m])
           [] Kind(c, m) = "bool" -> Varint(MakeTag(n, VARINT)) \o << 1 >>
           [] Kind(c, m) = "number" -> Varint(MakeTag(n, VARINT)) \o Varint(msg[m])
           [] Kind(c, m) = "numbers" ->
                LengthDelimited(n, msg["_paramtype_cached_byte_size_"],
                                FlattenSeq([k \in DOMAIN msg[m] |-> Varint(msg[m][k])]))
           [] Kind(c, m) \in {"pointer", "messages"} ->
                FlattenSeq([k \in DOMAIN msg[m] |->
                              LengthDelimited(n, msg[m][k]._cached_size_, below[m][k])])

\* All members, in the order of the table.
AllBytes(table, c, msg, below) ==
  FlattenSeq([k \in 1 .. Len(table) |-> MemberBytes(c, table[k][1], table[k][2], msg, below)])

\* A message as the array writer or the stream writer puts it, with all below it.
WholeBytes(tables, c, msg) ==
  Deep(LAMBDA d, x, below : AllBytes(tables[d], d, x, below), c, msg)

\* The bytes of a message, its sizes being cached.  The stream writer hands a
\* message below to the array writer when the stream's buffer has the room;
\* mode says which writers are used: "stream", "array", or "mixed".
Serialize(c, msg, mode) ==
  LET table == IF mode = "array" THEN ToArray[c] ELSE ToStream[c]
      tablesBelow == IF mode = "stream" THEN ToStream ELSE ToArray
  IN  AllBytes(table, c, msg,
        [m \in Below(c) |->
           [k \in DOMAIN msg[m] |-> WholeBytes(tablesBelow, ClassBelow(c, m), msg[m][k])]])

\* SerializeToOstream, SerializeAsString: the sizes are computed first.
SerializeToOstream(c, msg, mode) == Serialize(c, ByteSizeLong(c, msg), mode)

-------------------------------------------------------------------------------
\* The entry of the parser of class c for a tag; there is none for an unusual tag.
Known(c, tag) == tag <= Cutoff[c] /\ \E p \in Parsed[c] : p[1] = tag
Entry(c, tag) == CHOOSE p \in Parsed[c] : p[1] = tag

\* What reading the field f as `how` makes of the value old of a member; sub is
\* how reading its bytes as the message below went.
ReadAs(how, kind, old, f, sub) ==
  CASE how = "string" -> [ok |-> f.sound /\ VerifyUtf8String(f.bytes), value |-> f.bytes]
    [] how = "bytes" -> [ok |-> f.sound, value |-> f.bytes]
    [] how = "message" /\ f.headed ->
         [ok |-> sub.end = "limit",
          value |-> IF kind = "pointer" THEN << sub.msg >> ELSE Append(old, sub.msg)]
    [] how = "message" /\ ~ f.headed -> [ok |-> FALSE, value |-> old]
    [] how = "packed" ->
         [ok |-> f.sound /\ Unpacked(f.bytes).ok, value |-> old \o Unpacked(f.bytes).values]
    [] how = "bool" ->
         [ok |-> f.sound, value |-> \E k \in 1 .. Len(f.bytes) : f.bytes[k] % 128 # 0]
    [] how \in {"int32", "enum"} ->
         [ok |-> f.sound, value |-> IF kind = "numbers" THEN Append(old, f.value) ELSE f.value]

\* The parser, being at st = [end, msg], after it read member m with the outcome r.
Took(st, m, r) == IF r.ok THEN [st EXCEPT !.msg[m] = r.value] ELSE [st EXCEPT !.end = "failure"]

\* One turn of the loop of MergePartialFromCodedStream.  SkipField drops a field that
\* the class does not know.
ParseField(c, st, f, sub) ==
  CASE st.end # "limit" -> st
    [] st.end = "limit" /\ (f.tag = 0 \/ WireType(f.tag) = END_GROUP) -> [st EXCEPT !.end = "tag"]
    [] st.end = "limit" /\ ~ (f.tag = 0 \/ WireType(f.tag) = END_GROUP) ->
         IF Known(c, f.tag)
         THEN LET m == Entry(c, f.tag)[2]
              IN  Took(st, m, ReadAs(Entry(c, f.tag)[3], Kind(c, m), st.msg[m], f, sub))
         ELSE IF f.sound THEN st ELSE [st EXCEPT !.end = "failure"]

\* The message that the bytes of a known field are read into: the one that a pointer
\* has, or a new one.
Target(c, m, st, junk) ==
  IF Kind(c, m) = "pointer" /\ st.msg[m] # << >> THEN st.msg[m][1] ELSE New(ClassBelow(c, m), junk)

\* MergePartialFromCodedStream into msg of the fields f: [end, msg].  It ends at
\* the end of the bytes ("limit"), at a tag that ends a group or at bytes that
\* are no tag ("tag"), or it fails.  A message below is read, as Sub does, to its
\* length or to the end of the bytes, where that comes first.
ParseBy(Sub(_, _, _, _), c, msg, f, junk) ==
  LET Under(st, m, k) == Sub(ClassBelow(c, m), Target(c, m, st, junk), f[k].bytes, junk)
      Turn(st, k) == ParseField(c, st, f[k], Under(st, Entry(c, f[k].tag)[2], k))
      run[k \in 0 .. Len(f)] ==
        IF k = 0 THEN [end |-> "limit", msg |-> msg] ELSE Turn(run[k - 1], k)
  IN  run[Len(f)]

ParseFlat(c, msg, s, junk) ==
  ParseBy(LAMBDA d, x, t, j : [end |-> "failure", msg |-> x], c, msg, Fields(s), junk)
ParseHigh(c, msg, s, junk) == ParseBy(ParseFlat, c, msg, Fields(s), junk)
ParseHigher(c, msg, s, junk) == ParseBy(ParseHigh, c, msg, Fields(s), junk)
Parse(c, msg, s, junk) == ParseBy(ParseHigher, c, msg, Fields(s), junk)

\* ParseFromIstream: the message is cleared, read to the end of the file, and
\* must have ended there.
AtEnd(r) == [ok |-> r.end = "limit", msg |-> r.msg]
ParseFromIstream(c, msg, s, junk) == AtEnd(Parse(c, Clear(c, msg), s, junk))

-------------------------------------------------------------------------------
\* What a message says, its caches left out.
Says(c, msg, below) == [n \in FieldNames(c) |-> IF IsBelow(c, n) THEN below[n] ELSE msg[n]]
Content(c, msg) == Deep(Says, c, msg)

\* A message with a content, as the setters build it.
Builds(c, content, below, junk) ==
  [m \in MemberNames(c) |->
     CASE m \notin FieldNames(c) -> New(c, junk)[m]
       [] m \in FieldNames(c) /\ IsBelow(c, m) -> below[m]
       [] m \in FieldNames(c) /\ ~ IsBelow(c, m) -> content[m]]
Build(c, content, junk) == Deep(LAMBDA d, x, below : Builds(d, x, below, junk), c, content)
===============================================================================
