------------------------------ MODULE ProtoWire ------------------------------
(*****************************************************************************)
(* What the protocol buffer runtime does with single values: varints, tags   *)
(* and lengths.  The runtime is a library; these operators say what the      *)
(* generated classes of src/autoffi.pb.cc rely on.  A byte is a number, and  *)
(* a string or a file is a sequence of bytes.                                *)
(*****************************************************************************)
EXTENDS Integers, FiniteSets, SequencesExt

Byte == 0 .. 255
MaxInt == 2147483647
Int32 == -MaxInt - 1 .. MaxInt

\* A sequence without its first n elements.
Drop(s, n) == SubSeq(s, n + 1, Len(s))

\* The sum of a sequence of numbers.
Total(numbers) ==
  LET sum[k \in 0 .. Len(numbers)] == IF k = 0 THEN 0 ELSE sum[k - 1] + numbers[k]
  IN  sum[Len(numbers)]

\* Wire types.
VARINT == 0
FIXED64 == 1
LENGTH_DELIMITED == 2
END_GROUP == 4
FIXED32 == 5

MakeTag(number, wireType) == 8 * number + wireType
WireType(tag) == tag % 8
FieldNumber(tag) == tag \div 8

\* The base 128 groups of a number, the least significant one first.  int32
\* and enum values are sign-extended to 64 bits, so that a negative one has
\* ten groups.
Weight == << 1, 128, 16384, 2097152, 268435456 >>

GroupCount(v) ==
  IF v < 0 THEN 10
  ELSE CHOOSE k \in 1 .. 5 : (k < 5 => v < Weight[k + 1]) /\ (k > 1 => v >= Weight[k])

Group(v, k) ==
  CASE k <= 5 -> (v \div Weight[k]) % 128
    [] k \in 6 .. 9 -> 127
    [] k = 10 -> 1

Varint(v) ==
  LET n == GroupCount(v)
  IN  [k \in 1 .. n |-> Group(v, k) + (IF k < n THEN 128 ELSE 0)]

\* The size the runtime computes for a varint without encoding it.
Int32Size(v) ==
  CASE v < 0 -> 10
    [] 0 <= v /\ v < 128 -> 1
    [] 128 <= v /\ v < 16384 -> 2
    [] 16384 <= v /\ v < 2097152 -> 3
    [] 2097152 <= v /\ v < 268435456 -> 4
    [] 268435456 <= v -> 5

\* The number in the groups of the first n bytes of s, cut to 32 bits.
Groups(s, n) == [k \in 1 .. 5 |-> IF k <= n THEN s[k] % 128 ELSE 0]

Int32Of(s, n) ==
  LET g == Groups(s, n)
      high == g[5] % 16
  IN  g[1] + 128 * g[2] + 16384 * g[3] + 2097152 * g[4]
        + 268435456 * (IF high >= 8 THEN high - 16 ELSE high)

\* The varint that s begins with: its value and its size.  It has an end and
\* at most ten bytes, or the read fails.
ReadVarint(s) ==
  LET ends == {q \in 1 .. 10 : q <= Len(s) /\ s[q] < 128 /\ \A r \in 1 .. q - 1 : s[r] >= 128}
  IN  IF ends = {} THEN [ok |-> FALSE, value |-> 0, size |-> 0]
      ELSE LET q == CHOOSE q \in ends : TRUE
           IN  [ok |-> TRUE, value |-> Int32Of(s, q), size |-> q]

\* A field: its tag (0 when there is none), its bytes as far as s has them, which
\* are length many after the first skip and, for a varint, the number.  headed
\* says that its length or its number is there, sound that all of it is.
Framed(s, tag, headed, value, skip, length) ==
  [tag |-> tag.value, headed |-> headed, value |-> value, size |-> skip + length,
   sound |-> headed /\ skip + length <= Len(s),
   bytes |-> SubSeq(s, skip + 1, IF skip + length <= Len(s) THEN skip + length ELSE Len(s))]

\* The field that s begins with.
FieldAt(s) ==
  LET tag == ReadVarint(s)
      head == ReadVarint(Drop(s, tag.size))
  IN  CASE WireType(tag.value) = VARINT ->
             Framed(s, tag, tag.ok /\ head.ok, head.value, tag.size, head.size)
        [] WireType(tag.value) = LENGTH_DELIMITED ->
             Framed(s, tag, tag.ok /\ head.ok /\ head.value >= 0, head.value,
                    tag.size + head.size, head.value)
        [] WireType(tag.value) = FIXED32 -> Framed(s, tag, tag.ok, 0, tag.size, 4)
        [] WireType(tag.value) = FIXED64 -> Framed(s, tag, tag.ok, 0, tag.size, 8)
        [] WireType(tag.value) \notin {VARINT, LENGTH_DELIMITED, FIXED32, FIXED64} ->
             Framed(s, tag, FALSE, 0, tag.size, 0)

\* The fields of s, up to the first that is not all there.
Fields(s) ==
  LET from[p \in 0 .. Len(s)] ==
        IF p = Len(s) THEN << >>
        ELSE LET f == FieldAt(Drop(s, p))
             IN  << f >> \o (IF f.sound THEN from[p + f.size] ELSE << >>)
  IN  from[0]

\* The numbers packed into a sequence of bytes.
Unpacked(s) ==
  LET from[p \in 0 .. Len(s)] ==
        IF p = Len(s) THEN [ok |-> TRUE, values |-> << >>]
        ELSE LET v == ReadVarint(Drop(s, p))
                 rest == from[p + v.size]
             IN  IF ~ v.ok \/ ~ rest.ok THEN [ok |-> FALSE, values |-> << >>]
                 ELSE [ok |-> TRUE, values |-> << v.value >> \o rest.values]
  IN  from[0]

\* A byte that no UTF-8 text contains.
BadByte == 255
VerifyUtf8String(str) == \A k \in 1 .. Len(str) : str[k] # BadByte
===============================================================================
