---------------------------- MODULE ContentProofs -----------------------------
(*****************************************************************************)
(* What TLAPS proves of what messages say, for messages of any size and any  *)
(* calls: what is written of a message is what the message says, to whoever  *)
(* reads it by the descriptor; a file of catalogs is read as all that was    *)
(* written to it; and the classes keep the promise of Messages.              *)
(*                                                                           *)
(* First the numbers of the wire, as they are written and read back; then    *)
(* the fields of a message, one member after the other, and the messages     *)
(* below it, by the height of its class; then the writes of CatalogFile, one *)
(* after the other; and last what every call of ProtoMessage does to the     *)
(* contents.                                                                 *)
(*****************************************************************************)
EXTENDS MessageProofs

-------------------------------------------------------------------------------
(* Numbers come back from their varints.                                     *)

\* The largest int, without its digits.
LEMMA MaxIntIs == MaxInt = 8 * 268435456 - 1
BY SMT DEF MaxInt

\* The ints of 32 bits lie between two bounds.
LEMMA Int32Is ==
  MaxInt \in Int /\ \A v : v \in Int32 <=> v \in Int /\ -MaxInt - 1 <= v /\ v <= MaxInt
<1>1. MaxInt \in Int
  BY DEF MaxInt
<1>2. \A v : v \in Int32 <=> v \in Int /\ -MaxInt - 1 <= v /\ v <= MaxInt
  BY <1>1 DEF Int32
<1> QED
  BY <1>1, <1>2

\* The number that five groups make, the fifth cut to four bits, and the groups of a number.
Joined(a, b, c, d, e) ==
  a + 128 * b + 16384 * c + 2097152 * d + 268435456 * (IF e % 16 >= 8 THEN (e % 16) - 16 ELSE e % 16)

\* The first five groups of an int.
GroupsOf(v, a, b, c, d, e) ==
  /\ a = v % 128 /\ b = (v \div 128) % 128 /\ c = (v \div 16384) % 128
  /\ d = (v \div 2097152) % 128 /\ e = (v \div 268435456) % 128

\* An int32 is the sum of its first five groups.
LEMMA GroupsSum ==
  ASSUME NEW v \in Int32, NEW a, NEW b, NEW c, NEW d, NEW e, GroupsOf(v, a, b, c, d, e)
  PROVE  Joined(a, b, c, d, e) = v
<1>0. v \in Int /\ -MaxInt - 1 <= v /\ v <= MaxInt /\ MaxInt = 8 * 268435456 - 1
  BY Int32Is, MaxIntIs, SMT
<1>9. /\ a = v % 128 /\ b = (v \div 128) % 128 /\ c = (v \div 16384) % 128
      /\ d = (v \div 2097152) % 128 /\ e = (v \div 268435456) % 128
  BY SMT DEF GroupsOf
<1>1. PICK q1 \in Int, q2 \in Int, q3 \in Int, q4 \in Int :
        q1 = v \div 128 /\ q2 = v \div 16384 /\ q3 = v \div 2097152 /\ q4 = v \div 268435456
  BY <1>0, SMT
<1>2. v = 128 * q1 + a
  BY <1>0, <1>1, <1>9, SMT
<1>3. q1 = 128 * q2 + b
  BY <1>0, <1>1, <1>9, SMT
<1>4. q2 = 128 * q3 + c
  BY <1>0, <1>1, <1>9, SMT
<1>5. q3 = 128 * q4 + d
  BY <1>0, <1>1, <1>9, SMT
<1>6. -8 <= q4 /\ q4 <= 7
  BY <1>0, <1>1, SMT
<1>7. e = q4 % 128
  BY <1>1, <1>9, SMT
<1>8. q4 = IF e % 16 >= 8 THEN (e % 16) - 16 ELSE e % 16
  BY <1>6, <1>7, SMT
<1> QED
  BY <1>2, <1>3, <1>4, <1>5, <1>8, <1>9, SMT DEF Joined

\* A group that the varint of a number leaves out is zero.
LEMMA LeftOutIsZero ==
  ASSUME NEW v \in Int32, NEW k \in 1 .. 5, GroupCount(v) < k
  PROVE  Group(v, k) = 0
<1>0. v \in Int /\ -MaxInt - 1 <= v /\ v <= MaxInt /\ MaxInt = 8 * 268435456 - 1
  BY Int32Is, MaxIntIs, SMT
<1>1. GroupCount(v) = Int32Size(v)
  BY <1>0, GroupCountIs
<1>2. v >= 0
  <2>1. v < 0 => Int32Size(v) = 10
    BY <1>0, SMT DEF Int32Size
  <2> QED
    BY <1>0, <1>1, <2>1, SMT
<1>3. PICK w : w = Weight[k]
  OBVIOUS
<1>4. v < w /\ w \in {1, 128, 16384, 2097152, 268435456}
  BY <1>0, <1>1, <1>2, <1>3, Weights, SMT DEF Int32Size
<1>5. v \div w = 0
  BY <1>0, <1>2, <1>4, SMT
<1>6. Group(v, k) = (v \div w) % 128
  BY <1>3, SMT DEF Group
<1> QED
  BY <1>5, <1>6, SMT

\* What a varint begins with is read as its number, whatever follows.
LEMMA VarintReads ==
  ASSUME NEW v \in Int32, NEW t \in Seq(Byte)
  PROVE  /\ Varint(v) \o t \in Seq(Byte)
         /\ ReadVarint(Varint(v) \o t) = [ok |-> TRUE, value |-> v, size |-> Len(Varint(v))]
<1>0. v \in Int
  BY Int32Is
<1>1. PICK n \in 1 .. 10 : n = GroupCount(v) /\ n = Int32Size(v)
  BY <1>0, GroupCountIs
<1>2. PICK u, s : u = Varint(v) /\ s = u \o t
  OBVIOUS
<1>3. u \in Seq(Byte) /\ Len(u) = n
  BY <1>0, <1>1, <1>2, VarintType
<1>4. s \in Seq(Byte) /\ Len(s) = n + Len(t) /\ \A k \in 1 .. n : s[k] = u[k]
  <2>1. s \in Seq(Byte) /\ Len(s) = n + Len(t)
    BY <1>2, <1>3
  <2>2. ASSUME NEW k \in 1 .. n PROVE s[k] = u[k]
    BY <1>2, <1>3, ConcatProperties
  <2> QED
    BY <2>1, <2>2
<1>5. ASSUME NEW k \in 1 .. n
      PROVE  /\ Group(v, k) \in 0 .. 127 /\ k \in 1 .. 10
             /\ s[k] = Group(v, k) + (IF k < n THEN 128 ELSE 0)
  <2>1. k \in 1 .. 10
    OBVIOUS
  <2>2. u[k] = Group(v, k) + (IF k < n THEN 128 ELSE 0)
    BY <1>1, <1>2 DEF Varint
  <2> QED
    BY <1>4, <2>1, <2>2, <1>0, GroupType
<1>6. PICK ends : ends = {q \in 1 .. 10 : q <= Len(s) /\ s[q] < 128 /\ \A r \in 1 .. q - 1 : s[r] >= 128}
  OBVIOUS
<1>7. n \in ends
  <2>1. n <= Len(s)
    BY <1>4
  <2>2. s[n] < 128
    <3>1. n \in 1 .. n /\ ~ (n < n)
      OBVIOUS
    <3>2. PICK h \in 0 .. 127 : s[n] = h + 0
      BY <1>5, <3>1
    <3> QED
      BY <3>2
  <2>3. ASSUME NEW r \in 1 .. n - 1 PROVE s[r] >= 128
    <3>1. r \in 1 .. n /\ r < n
      OBVIOUS
    <3>2. PICK h \in 0 .. 127 : s[r] = h + 128
      BY <1>5, <3>1
    <3> QED
      BY <3>2
  <2> QED
    BY <1>6, <2>1, <2>2, <2>3
<1>8. ASSUME NEW q \in ends PROVE q = n
  <2>1. q \in 1 .. 10 /\ s[q] < 128 /\ \A r \in 1 .. q - 1 : s[r] >= 128
    BY <1>6
  <2>2. ~ (q < n)
    <3>1. SUFFICES ASSUME q < n PROVE FALSE
      OBVIOUS
    <3>2. q \in 1 .. n
      BY <2>1, <3>1
    <3>3. PICK h \in 0 .. 127 : s[q] = h + 128
      BY <1>5, <3>1, <3>2
    <3> QED
      BY <2>1, <3>3
  <2>3. ~ (n < q)
    <3>1. SUFFICES ASSUME n < q PROVE FALSE
      OBVIOUS
    <3>2. n \in 1 .. q - 1 /\ n \in 1 .. n /\ ~ (n < n)
      BY <2>1, <3>1
    <3>3. PICK h \in 0 .. 127 : s[n] = h + 0
      BY <1>5, <3>2
    <3>4. s[n] >= 128
      BY <2>1, <3>2
    <3> QED
      BY <3>3, <3>4
  <2> QED
    BY <2>1, <2>2, <2>3
<1>9. (CHOOSE q \in ends : TRUE) = n /\ ends # {}
  BY <1>7, <1>8
<1>10. ReadVarint(s) = [ok |-> TRUE, value |-> Int32Of(s, n), size |-> n]
  BY <1>6, <1>9, Zenon DEF ReadVarint
<1>11. PICK g : g = Groups(s, n)
  OBVIOUS
<1>12. ASSUME NEW k \in 1 .. 5 PROVE g[k] = (v \div Weight[k]) % 128
  <2>0. Group(v, k) = (v \div Weight[k]) % 128
    BY SMT DEF Group
  <2>1. g[k] = IF k <= n THEN s[k] % 128 ELSE 0
    BY <1>11 DEF Groups
  <2>2. CASE k <= n
    <3>1. k \in 1 .. n
      BY <2>2
    <3>2. Group(v, k) \in 0 .. 127 /\ (s[k] = Group(v, k) + 128 \/ s[k] = Group(v, k) + 0)
      BY <1>5, <3>1
    <3>3. PICK h \in 0 .. 127 : h = Group(v, k) /\ (s[k] = h + 128 \/ s[k] = h + 0)
      BY <3>2
    <3>4. s[k] % 128 = h
      <4>1. PICK y : y = s[k]
        OBVIOUS
      <4>2. y \in Int /\ (y = h + 128 \/ y = h + 0)
        BY <3>3, <4>1
      <4>3. y % 128 = h
        BY <4>2, SMT
      <4> QED
        BY <4>1, <4>3
    <3> QED
      BY <2>0, <2>1, <2>2, <3>3, <3>4
  <2>3. CASE ~ (k <= n)
    <3>0. GroupCount(v) < k
      BY <1>1, <2>3
    <3>1. Group(v, k) = 0
      BY <3>0, LeftOutIsZero
    <3> QED
      BY <2>0, <2>1, <2>3, <3>1
  <2> QED
    BY <2>2, <2>3
<1>13. PICK a, b, c, d, e : a = g[1] /\ b = g[2] /\ c = g[3] /\ d = g[4] /\ e = g[5]
  OBVIOUS
<1>14. GroupsOf(v, a, b, c, d, e)
  <2>1. 1 \in 1 .. 5 /\ 2 \in 1 .. 5 /\ 3 \in 1 .. 5 /\ 4 \in 1 .. 5 /\ 5 \in 1 .. 5
    OBVIOUS
  <2>2. /\ a = (v \div Weight[1]) % 128 /\ b = (v \div Weight[2]) % 128 /\ c = (v \div Weight[3]) % 128
        /\ d = (v \div Weight[4]) % 128 /\ e = (v \div Weight[5]) % 128
    BY <1>12, <1>13, <2>1
  <2> QED
    BY <1>0, <2>2, Weights, SMT DEF GroupsOf
<1>15. Int32Of(s, n) = Joined(a, b, c, d, e)
  BY <1>11, <1>13, SMT DEF Int32Of, Joined
<1>17. Int32Of(s, n) = v
  BY <1>14, <1>15, GroupsSum
<1> QED
  BY <1>2, <1>3, <1>4, <1>10, <1>17

-------------------------------------------------------------------------------
(* Fields come back from their bytes.                                        *)

\* What follows the first of two sequences is the second.
LEMMA DropFirst ==
  ASSUME NEW u \in Seq(Byte), NEW t \in Seq(Byte), NEW p \in 0 .. Len(t)
  PROVE  Drop(u \o t, Len(u) + p) = Drop(t, p)
<1>1. PICK s, n, l : s = u \o t /\ n = Len(u) /\ l = Len(t)
  OBVIOUS
<1>2. s \in Seq(Byte) /\ Len(s) = n + l /\ n \in Nat /\ l \in Nat
  BY <1>1
<1>3. Drop(s, n + p) = SubSeq(s, n + p + 1, n + l) /\ Drop(t, p) = SubSeq(t, p + 1, l)
  BY <1>1, <1>2 DEF Drop
<1>4. CASE p = l
  <2>1. n + p + 1 \in Int /\ n + l \in Int /\ n + l < n + p + 1 /\ p + 1 \in Int /\ l \in Int /\ l < p + 1
    BY <1>2, <1>4
  <2>2. SubSeq(s, n + p + 1, n + l) = << >>
    BY <2>1, SubSeqEmpty
  <2>3. SubSeq(t, p + 1, l) = << >>
    BY <2>1, SubSeqEmpty
  <2> QED
    BY <1>1, <1>3, <2>2, <2>3
<1>5. CASE p # l
  <2>1. PICK a, b : a = n + p + 1 /\ b = n + l
    OBVIOUS
  <2>2. a \in n + 1 .. n + l /\ b \in n + 1 .. n + l /\ a - n = p + 1 /\ b - n = l
    BY <1>1, <1>2, <1>5, <2>1
  <2>3. SubSeq(u \o t, a, b) = SubSeq(t, a - n, b - n)
    BY <1>1, <2>2, SubSeqOfConcat2
  <2> QED
    BY <1>1, <1>3, <2>1, <2>2, <2>3
<1> QED
  BY <1>4, <1>5

\* Dropping nothing, and dropping a beginning.
LEMMA DropWhole ==
  ASSUME NEW u \in Seq(Byte), NEW t \in Seq(Byte)
  PROVE  Drop(t, 0) = t /\ Drop(u \o t, Len(u)) = t
<1>1. Drop(t, 0) = t
  <2>1. 0 + 1 = 1
    OBVIOUS
  <2> QED
    BY <2>1, SubSeqFull DEF Drop
<1>2. 0 \in 0 .. Len(t) /\ Len(u) + 0 = Len(u)
  OBVIOUS
<1>3. Drop(u \o t, Len(u) + 0) = Drop(t, 0)
  BY <1>2, DropFirst
<1> QED
  BY <1>1, <1>2, <1>3

\* What lies between the first and the last of three sequences is the one in the middle.
\* It does not matter which of three pieces are joined first.
LEMMA BytesAssociate ==
  \A a, b, c \in Seq(Byte) : (a \o b) \o c = a \o (b \o c)
<1>1. SUFFICES ASSUME NEW a \in Seq(Byte), NEW b \in Seq(Byte), NEW c \in Seq(Byte)
               PROVE  (a \o b) \o c = a \o (b \o c)
  OBVIOUS
<1> QED
  BY ConcatAssociative

\* What lies between two parts is cut out by its place.
LEMMA MiddleIs ==
  ASSUME NEW p \in Seq(Byte), NEW b \in Seq(Byte), NEW t \in Seq(Byte)
  PROVE  SubSeq(p \o (b \o t), Len(p) + 1, Len(p) + Len(b)) = b
<1>1. PICK n, l, s : n = Len(p) /\ l = Len(b) /\ s = b \o t
  OBVIOUS
<1>2. n \in Nat /\ l \in Nat /\ s \in Seq(Byte) /\ Len(s) = l + Len(t)
  BY <1>1
<1>3. CASE l = 0
  <2>1. n + 1 \in Int /\ n + l \in Int /\ n + l < n + 1
    BY <1>2, <1>3
  <2>2. SubSeq(p \o s, n + 1, n + l) = << >>
    BY <2>1, SubSeqEmpty
  <2>3. b = << >>
    BY <1>1, <1>3, EmptySeq
  <2> QED
    BY <1>1, <2>2, <2>3
<1>4. CASE l # 0
  <2>1. PICK a, e : a = n + 1 /\ e = n + l
    OBVIOUS
  <2>2. a \in n + 1 .. n + Len(s) /\ e \in n + 1 .. n + Len(s) /\ a - n = 1 /\ e - n = l
    BY <1>2, <1>4, <2>1
  <2>3. SubSeq(p \o s, a, e) = SubSeq(s, a - n, e - n)
    BY <1>1, <1>2, <2>2, SubSeqOfConcat2
  <2>4. 1 \in 1 .. l /\ l \in 1 .. l
    BY <1>2, <1>4
  <2>5. SubSeq(b \o t, 1, l) = SubSeq(b, 1, l)
    BY <1>1, <2>4, SubSeqOfConcat1
  <2>6. SubSeq(b, 1, l) = b
    BY <1>1, SubSeqFull
  <2> QED
    BY <1>1, <2>1, <2>2, <2>3, <2>5, <2>6
<1> QED
  BY <1>3, <1>4

\* The bytes u are the field f, whatever follows them.
Whole(u, f) ==
  /\ u \in Seq(Byte) /\ 1 <= Len(u) /\ f.sound /\ f.size = Len(u)
  /\ \A t \in Seq(Byte) : FieldAt(u \o t) = f

\* The field is read first, and then what follows it.
LEMMA FieldFirst ==
  ASSUME NEW u, NEW f, Whole(u, f), NEW t \in Seq(Byte)
  PROVE  u \o t \in Seq(Byte) /\ Fields(u \o t) = << f >> \o Fields(t) /\ Fields(t) \in Seq(FieldSet) /\ f \in FieldSet
<1>1. PICK s, n, l : s = u \o t /\ n = Len(u) /\ l = Len(t)
  OBVIOUS
<1>2. /\ s \in Seq(Byte) /\ Len(s) = n + l /\ n \in Nat /\ 1 <= n /\ l \in Nat /\ u \in Seq(Byte)
      /\ f.sound /\ f.size = n /\ FieldAt(s) = f
  BY <1>1 DEF Whole
<1>3. PICK g : FieldsFrom(g, s) /\ Fields(s) = g[0]
  BY <1>2, FieldsRead
<1>4. PICK h : FieldsFrom(h, t) /\ Fields(t) = h[0]
  BY FieldsRead
<1>5. PICK e : e = [p \in 0 .. l |-> g[n + p]]
  OBVIOUS
<1>6. g[0] = << f >> \o g[n]
  <2>1. 0 \in 0 .. Len(s) - 1 /\ 0 + n = n
    BY <1>2
  <2>2. Drop(s, 0) = s
    BY <1>2, DropWhole
  <2>3. FieldAt(Drop(s, 0)) = f
    BY <1>2, <2>2
  <2>4. g[0] = << FieldAt(Drop(s, 0)) >> \o
                (IF FieldAt(Drop(s, 0)).sound THEN g[0 + FieldAt(Drop(s, 0)).size] ELSE << >>)
    BY <1>3, <2>1 DEF FieldsFrom
  <2> QED
    BY <1>2, <2>1, <2>3, <2>4
<1>7. e[l] = h[l]
  <2>1. l \in 0 .. l
    BY <1>2
  <2> QED
    BY <1>1, <1>2, <1>3, <1>4, <1>5, <2>1 DEF FieldsFrom
<1>8. PICK F : F = [p \in 0 .. l |-> FieldAt(Drop(t, p))]
  OBVIOUS
<1>9. PICK next : next = [p \in 0 .. l |-> IF F[p].sound THEN p + F[p].size ELSE l]
  OBVIOUS
<1>10. ASSUME NEW p \in 0 .. l - 1
       PROVE  /\ next[p] \in 0 .. l /\ p < next[p]
              /\ e[next[p]] = h[next[p]] => e[p] = h[p]
  <2>1. p \in 0 .. l /\ p \in 0 .. Len(t) /\ n + p \in 0 .. Len(s) - 1 /\ p \in 0 .. Len(t) - 1 /\ p \in Nat /\ p < l
    BY <1>1, <1>2
  <2>2. Drop(s, n + p) = Drop(t, p)
    BY <1>1, <1>2, <2>1, DropFirst
  <2>3. PICK a : a = F[p]
    OBVIOUS
  <2>4. a = FieldAt(Drop(t, p)) /\ a = FieldAt(Drop(s, n + p))
    BY <1>8, <2>1, <2>2, <2>3
  <2>5. h[p] = << a >> \o (IF a.sound THEN h[p + a.size] ELSE << >>)
    BY <1>4, <2>1, <2>4 DEF FieldsFrom
  <2>6. g[n + p] = << a >> \o (IF a.sound THEN g[n + p + a.size] ELSE << >>)
    BY <1>3, <2>1, <2>4 DEF FieldsFrom
  <2>7. e[p] = g[n + p]
    BY <1>5, <2>1
  <2>8. Drop(t, p) \in Seq(Byte) /\ Len(Drop(t, p)) = l - p
    BY <1>1, <2>1, DropType
  <2>9. a \in FieldOf(Drop(t, p))
    BY <2>4, <2>8, FieldAtType
  <2>10. a.size \in Int /\ (a.sound => 1 <= a.size /\ a.size <= l - p)
    BY <2>8, <2>9 DEF FieldOf, FieldSet
  <2>11. CASE a.sound
    <3>1. PICK q : q = p + a.size
      OBVIOUS
    <3>2. q \in 0 .. l /\ p < q /\ n + p + a.size = n + q
      BY <1>2, <2>1, <2>10, <2>11, <3>1
    <3>3. next[p] = q /\ e[q] = g[n + q]
      BY <1>5, <1>9, <2>1, <2>3, <2>11, <3>1, <3>2
    <3> QED
      BY <2>5, <2>6, <2>7, <2>11, <3>1, <3>2, <3>3
  <2>12. CASE ~ a.sound
    <3>1. next[p] = l
      BY <1>9, <2>1, <2>3, <2>12
    <3>2. l \in 0 .. l /\ p < l
      BY <1>2, <2>1
    <3> QED
      BY <2>5, <2>6, <2>7, <2>12, <3>1, <3>2
  <2> QED
    BY <2>11, <2>12
<1>11. AlikeFrom(e, h, l, next)
  BY <1>2, <1>7, <1>10 DEF AlikeFrom
<1>12. e[0] = h[0] /\ e[0] = g[n]
  <2>1. 0 \in 0 .. l /\ n + 0 = n
    BY <1>2
  <2>2. \A p \in 0 .. l : e[p] = h[p]
    BY <1>11, FallsAgree
  <2>3. e[0] = g[n]
    BY <1>5, <2>1
  <2> QED
    BY <2>1, <2>2, <2>3
<1>13. f \in FieldSet
  BY <1>2, FieldAtType DEF FieldOf
<1> QED
  BY <1>1, <1>2, <1>3, <1>4, <1>6, <1>12, <1>13, FieldsType

\* A field that is framed between what comes before its bytes and what comes after.
IsTrue(yes) == yes = TRUE

\* A sound field.
FieldIs(tag, value, size, b, yes) ==
  [tag |-> tag, headed |-> yes, value |-> value, size |-> size, sound |-> yes, bytes |-> b]

\* What the parts of a sound field are.
LEMMA FieldIsSo ==
  ASSUME NEW tag, NEW value, NEW size, NEW b, NEW yes, IsTrue(yes)
  PROVE  LET f == FieldIs(tag, value, size, b, yes)
         IN  f.tag = tag /\ f.value = value /\ f.size = size /\ f.sound /\ f.bytes = b
<1>1. PICK f : f = FieldIs(tag, value, size, b, yes)
  OBVIOUS
<1>2. f.tag = tag /\ f.value = value /\ f.size = size /\ f.sound = yes /\ f.bytes = b
  BY <1>1 DEF FieldIs
<1> QED
  BY <1>1, <1>2 DEF IsTrue

\* A field whose bytes are all there is framed as they are.
LEMMA FramedIs ==
  ASSUME NEW p \in Seq(Byte), NEW b \in Seq(Byte), NEW t \in Seq(Byte), NEW h, NEW value, NEW yes, IsTrue(yes)
  PROVE  Framed(p \o (b \o t), h, yes, value, Len(p), Len(b)) = FieldIs(h.value, value, Len(p) + Len(b), b, yes)
<1>1. PICK s, n, l : s = p \o (b \o t) /\ n = Len(p) /\ l = Len(b)
  OBVIOUS
<1>2. n + l <= Len(s)
  BY <1>1
<1>3. SubSeq(s, n + 1, n + l) = b
  BY <1>1, MiddleIs
<1>4. PICK u, v : u = (yes /\ n + l <= Len(s)) /\ v = SubSeq(s, n + 1, IF n + l <= Len(s) THEN n + l ELSE Len(s))
  OBVIOUS
<1>5. Framed(s, h, yes, value, n, l) =
        [tag |-> h.value, headed |-> yes, value |-> value, size |-> n + l, sound |-> u, bytes |-> v]
  BY <1>4, Zenon DEF Framed
<1>6. v = b
  BY <1>2, <1>3, <1>4
<1>7. u = yes
  BY <1>2, <1>4 DEF IsTrue
<1> QED
  BY <1>1, <1>5, <1>6, <1>7, Zenon DEF FieldIs

\* How a field starts says how the rest of it is read.
LEMMA NumberFramed ==
  ASSUME NEW s, NEW h, NEW d, h = ReadVarint(s), d = ReadVarint(Drop(s, h.size)), WireType(h.value) = VARINT
  PROVE  FieldAt(s) = Framed(s, h, h.ok /\ d.ok, d.value, h.size, d.size)
BY DEF FieldAt, VARINT, LENGTH_DELIMITED, FIXED32, FIXED64

\* How a field with bytes is framed.
LEMMA BytesFramed ==
  ASSUME NEW s, NEW h, NEW d, h = ReadVarint(s), d = ReadVarint(Drop(s, h.size)),
         WireType(h.value) = LENGTH_DELIMITED
  PROVE  FieldAt(s) = Framed(s, h, h.ok /\ d.ok /\ d.value >= 0, d.value, h.size + d.size, d.value)
BY DEF FieldAt, VARINT, LENGTH_DELIMITED, FIXED32, FIXED64

\* A tag and a number after it, with anything behind them.
ReadTwice(tag, v, t, a, b, s, h, d) ==
  /\ a = Varint(tag) /\ b = Varint(v) /\ s = a \o (b \o t)
  /\ h = ReadVarint(s) /\ d = ReadVarint(Drop(s, h.size))

\* A tag and a number are read back.
LEMMA TwoNumbers ==
  ASSUME NEW tag \in Int32, NEW v \in Int32, NEW t \in Seq(Byte), NEW yes, IsTrue(yes),
         NEW a, NEW b, NEW s, NEW h, NEW d, ReadTwice(tag, v, t, a, b, s, h, d)
  PROVE  /\ a \in Seq(Byte) /\ b \in Seq(Byte) /\ s \in Seq(Byte)
         /\ 1 <= Len(a) /\ Len(a) \in Nat /\ Len(b) \in Nat
         /\ h.ok = yes /\ h.value = tag /\ h.size = Len(a)
         /\ d.ok = yes /\ d.value = v /\ d.size = Len(b)
<1>1. /\ a = Varint(tag) /\ b = Varint(v) /\ s = a \o (b \o t)
      /\ h = ReadVarint(s) /\ d = ReadVarint(Drop(s, h.size))
  BY DEF ReadTwice
<1>2. a \in Seq(Byte) /\ b \in Seq(Byte) /\ 1 <= Len(a) /\ Len(a) \in Nat /\ Len(b) \in Nat
  <2>1. tag \in Int /\ v \in Int
    BY Int32Is
  <2>2. /\ Varint(tag) \in Seq(Byte) /\ Len(Varint(tag)) = Int32Size(tag) /\ Int32Size(tag) \in 1 .. 10
        /\ Varint(v) \in Seq(Byte) /\ Len(Varint(v)) \in Nat
    BY <2>1, VarintType
  <2>3. \A k \in 1 .. 10 : 1 <= k /\ k \in Nat
    OBVIOUS
  <2> QED
    BY <1>1, <2>2, <2>3
<1>3. b \o t \in Seq(Byte) /\ ReadVarint(b \o t) = [ok |-> TRUE, value |-> v, size |-> Len(b)]
  BY <1>1, VarintReads
<1>4. s \in Seq(Byte) /\ ReadVarint(s) = [ok |-> TRUE, value |-> tag, size |-> Len(a)]
  BY <1>1, <1>3, VarintReads
<1>5. Drop(s, Len(a)) = b \o t
  BY <1>1, <1>2, <1>3, DropWhole
<1>7. h = [ok |-> yes, value |-> tag, size |-> Len(a)]
  BY <1>1, <1>4 DEF IsTrue
<1>8. h.ok = yes /\ h.value = tag /\ h.size = Len(a)
  BY <1>7
<1>10. d = [ok |-> yes, value |-> v, size |-> Len(b)]
  BY <1>1, <1>3, <1>5, <1>8 DEF IsTrue
<1>11. d.ok = yes /\ d.value = v /\ d.size = Len(b)
  BY <1>10
<1> QED
  BY <1>2, <1>3, <1>4, <1>8, <1>11

\* A number after its tag.
LEMMA NumberField ==
  ASSUME NEW tag \in Int32, WireType(tag) = VARINT, NEW v \in Int32
  PROVE  \E f : Whole(Varint(tag) \o Varint(v), f) /\ f.tag = tag /\ f.value = v /\ f.bytes = Varint(v)
<1>1. PICK a, b, yes : a = Varint(tag) /\ b = Varint(v) /\ IsTrue(yes)
  BY DEF IsTrue
<1>2. a \in Seq(Byte) /\ b \in Seq(Byte) /\ 1 <= Len(a) /\ Len(a) \in Nat /\ Len(b) \in Nat
  <2>1. << >> \in Seq(Byte)
    BY EmptySeq
  <2>2. PICK s, h, d : s = a \o (b \o << >>) /\ h = ReadVarint(s) /\ d = ReadVarint(Drop(s, h.size))
    OBVIOUS
  <2>3. ReadTwice(tag, v, << >>, a, b, s, h, d)
    BY <1>1, <2>2 DEF ReadTwice
  <2> QED
    BY <1>1, <2>1, <2>3, TwoNumbers
<1>3. a \o b \in Seq(Byte) /\ Len(a \o b) = Len(a) + Len(b)
  BY <1>2
<1>4. PICK f : f = FieldIs(tag, v, Len(a) + Len(b), b, yes)
  OBVIOUS
<1>5. f.tag = tag /\ f.value = v /\ f.size = Len(a) + Len(b) /\ f.sound /\ f.bytes = b
  BY <1>1, <1>4, FieldIsSo
<1>6. ASSUME NEW t \in Seq(Byte) PROVE FieldAt((a \o b) \o t) = f
  <2>1. PICK s, h, d : s = a \o (b \o t) /\ h = ReadVarint(s) /\ d = ReadVarint(Drop(s, h.size))
    OBVIOUS
  <2>2. /\ h.ok = yes /\ h.value = tag /\ h.size = Len(a)
        /\ d.ok = yes /\ d.value = v /\ d.size = Len(b)
    <3>1. ReadTwice(tag, v, t, a, b, s, h, d)
      BY <1>1, <2>1 DEF ReadTwice
    <3> QED
      BY <1>1, <3>1, TwoNumbers
  <2>3. FieldAt(s) = Framed(s, h, h.ok /\ d.ok, d.value, h.size, d.size)
    <3>1. WireType(h.value) = VARINT
      BY <2>2
    <3> QED
      BY <2>1, <3>1, NumberFramed
  <2>4. (h.ok /\ d.ok) = yes
    BY <1>1, <2>2 DEF IsTrue
  <2>5. FieldAt(s) = Framed(s, h, yes, v, Len(a), Len(b))
    BY <2>2, <2>3, <2>4, Zenon
  <2>6. Framed(s, h, yes, v, Len(a), Len(b)) = FieldIs(h.value, v, Len(a) + Len(b), b, yes)
    BY <1>1, <1>2, <2>1, FramedIs
  <2>7. (a \o b) \o t = s
    BY <1>2, <2>1, ConcatAssociative
  <2> QED
    BY <1>4, <2>2, <2>5, <2>6, <2>7
<1>7. Whole(a \o b, f)
  BY <1>2, <1>3, <1>5, <1>6 DEF Whole
<1> QED
  BY <1>1, <1>5, <1>7

\* Bytes after their tag and their length.
LEMMA BytesField ==
  ASSUME NEW n, MakeTag(n, LENGTH_DELIMITED) \in Int32,
         WireType(MakeTag(n, LENGTH_DELIMITED)) = LENGTH_DELIMITED,
         NEW b \in Seq(Byte), Len(b) <= MaxInt
  PROVE  \E f : Whole(LengthDelimited(n, Len(b), b), f) /\ f.tag = MakeTag(n, LENGTH_DELIMITED) /\ f.bytes = b
<1>1. PICK tag, l, a, c, yes :
        tag = MakeTag(n, LENGTH_DELIMITED) /\ l = Len(b) /\ a = Varint(tag) /\ c = Varint(l) /\ IsTrue(yes)
  BY DEF IsTrue
<1>0. tag \in Int32 /\ l \in Int32 /\ l \in Nat
  BY <1>1, Int32Is
<1>2. a \in Seq(Byte) /\ c \in Seq(Byte) /\ 1 <= Len(a) /\ Len(a) \in Nat /\ Len(c) \in Nat
  <2>1. << >> \in Seq(Byte)
    BY EmptySeq
  <2>2. PICK s, h, d : s = a \o (c \o << >>) /\ h = ReadVarint(s) /\ d = ReadVarint(Drop(s, h.size))
    OBVIOUS
  <2>3. ReadTwice(tag, l, << >>, a, c, s, h, d)
    BY <1>1, <2>2 DEF ReadTwice
  <2> QED
    BY <1>0, <1>1, <2>1, <2>3, TwoNumbers
<1>3. PICK p : p = a \o c
  OBVIOUS
<1>a. p \in Seq(Byte) /\ Len(p) = Len(a) + Len(c) /\ p \o b \in Seq(Byte) /\ Len(p \o b) = Len(p) + l
  BY <1>1, <1>2, <1>3
<1>b. LengthDelimited(n, Len(b), b) = p \o b
  BY <1>1, <1>3 DEF LengthDelimited
<1>4. PICK f : f = FieldIs(tag, l, Len(p) + l, b, yes)
  OBVIOUS
<1>5. f.tag = tag /\ f.size = Len(p) + l /\ f.sound /\ f.bytes = b
  BY <1>1, <1>4, FieldIsSo
<1>6. ASSUME NEW t \in Seq(Byte) PROVE FieldAt((p \o b) \o t) = f
  <2>1. PICK r, s, h, d : r = b \o t /\ s = a \o (c \o r) /\ h = ReadVarint(s) /\ d = ReadVarint(Drop(s, h.size))
    OBVIOUS
  <2>r. r \in Seq(Byte)
    BY <2>1
  <2>2. /\ h.ok = yes /\ h.value = tag /\ h.size = Len(a)
        /\ d.ok = yes /\ d.value = l /\ d.size = Len(c)
    <3>1. ReadTwice(tag, l, r, a, c, s, h, d)
      BY <1>1, <2>1 DEF ReadTwice
    <3> QED
      BY <1>0, <1>1, <2>r, <3>1, TwoNumbers
  <2>3. FieldAt(s) = Framed(s, h, h.ok /\ d.ok /\ d.value >= 0, d.value, h.size + d.size, d.value)
    <3>1. WireType(h.value) = LENGTH_DELIMITED
      BY <1>1, <2>2
    <3> QED
      BY <2>1, <3>1, BytesFramed
  <2>4. (h.ok /\ d.ok /\ d.value >= 0) = yes
    <3>1. d.value >= 0
      BY <1>0, <2>2
    <3>2. h.ok /\ d.ok /\ yes = TRUE
      BY <1>1, <2>2 DEF IsTrue
    <3> QED
      BY <3>1, <3>2
  <2>5. FieldAt(s) = Framed(s, h, yes, l, Len(p), l)
    BY <1>a, <2>2, <2>3, <2>4, Zenon
  <2>8. s = p \o (b \o t)
    <3>0. a \in Seq(Byte) /\ c \in Seq(Byte)
      BY <1>2
    <3>1. (a \o c) \o r = a \o (c \o r)
      BY <3>0, <2>r, BytesAssociate
    <3> QED
      BY <1>3, <2>1, <3>1
  <2>6. Framed(s, h, yes, l, Len(p), l) = FieldIs(h.value, l, Len(p) + l, b, yes)
    <3>1. Framed(p \o (b \o t), h, yes, l, Len(p), Len(b)) = FieldIs(h.value, l, Len(p) + Len(b), b, yes)
      BY <1>1, <1>a, FramedIs
    <3> QED
      BY <1>1, <2>8, <3>1
  <2>7. (p \o b) \o t = s
    BY <1>a, <2>8, ConcatAssociative
  <2> QED
    BY <1>4, <2>2, <2>5, <2>6, <2>7
<1>7. 1 <= Len(p \o b)
  BY <1>0, <1>2, <1>a
<1>8. Whole(p \o b, f)
  BY <1>5, <1>6, <1>7, <1>a DEF Whole
<1> QED
  BY <1>1, <1>5, <1>8, <1>b

-------------------------------------------------------------------------------
(* The levels of the reader by the descriptor agree.                         *)

\* The members below are the fields whose type is a message.
LEMMA BelowIsMessage ==
  ASSUME NEW c \in Classes, NEW n \in FieldNames(c)
  PROVE  /\ n \in Below(c) => /\ IsMessage(Schema[c][n]) /\ Schema[c][n].type = ClassBelow(c, n)
                              /\ ClassBelow(c, n) \in Classes /\ Height[ClassBelow(c, n)] < Height[c]
         /\ n \notin Below(c) => ~ IsMessage(Schema[c][n])
<1>1. n \in MemberNames(c)
  BY FieldsAreMembers
<1>2. Describes(Schema[c][n], Kind(c, n), ClassBelow(c, n))
  BY SchemaDescribes
<1>3. CASE n \in Below(c)
  <2>1. Kind(c, n) \in {"pointer", "messages"}
    BY <1>3 DEF Below, IsBelow
  <2>2. Schema[c][n].type \in ClassNames /\ Schema[c][n].type = ClassBelow(c, n)
    BY <1>2, <2>1 DEF Describes
  <2>3. ClassBelow(c, n) \in Classes /\ Height[ClassBelow(c, n)] < Height[c]
    BY <1>3, LowerBelow
  <2> QED
    BY <1>3, <2>2, <2>3, ClassesAre DEF IsMessage
<1>4. CASE n \notin Below(c)
  <2>1. Kind(c, n) \notin {"pointer", "messages"}
    BY <1>1, <1>4 DEF Below, IsBelow
  <2>2. Schema[c][n].type \in {"string", "bytes", "int32", "enum", "bool"}
    BY <1>2, <2>1 DEF Describes
  <2> QED
    BY <1>4, <2>2, ClassesAre DEF IsMessage, ClassNames
<1> QED
  BY <1>3, <1>4

\* What is no message is read without what its bytes would be as one.
LEMMA SubIgnored ==
  ASSUME NEW f, ~ IsMessage(f), f.type \in {"string", "bytes", "int32", "enum", "bool"},
         NEW old, NEW w, WireType(w.tag) \in Wires(f), NEW s1, NEW s2
  PROVE  Decoded(f, old, w, s1) = Decoded(f, old, w, s2)
<1>1. CASE f.type = "string"
  BY <1>1, Zenon DEF Decoded
<1>2. CASE f.type = "bytes"
  BY <1>2, Zenon DEF Decoded
<1>3. CASE f.type = "bool"
  BY <1>3, Zenon DEF Decoded
<1>4. CASE f.type \in {"int32", "enum"}
  <2>1. f.repeated => WireType(w.tag) \in {VARINT, LENGTH_DELIMITED}
    BY <1>4, WiresAre
  <2>2. CASE f.repeated /\ WireType(w.tag) = VARINT
    <3>1. WireType(w.tag) # LENGTH_DELIMITED
      BY <2>2 DEF VARINT, LENGTH_DELIMITED
    <3> QED
      BY <1>4, <2>2, <3>1, Zenon DEF Decoded
  <2>3. CASE f.repeated /\ WireType(w.tag) = LENGTH_DELIMITED
    <3>1. WireType(w.tag) # VARINT
      BY <2>3 DEF VARINT, LENGTH_DELIMITED
    <3> QED
      BY <1>4, <2>3, <3>1, Zenon DEF Decoded
  <2>4. CASE ~ f.repeated
    BY <1>4, <2>4, Zenon DEF Decoded
  <2> QED
    BY <2>1, <2>2, <2>3, <2>4
<1> QED
  BY <1>1, <1>2, <1>3, <1>4

\* Only for a message it matters what its bytes were read as.
LEMMA SubMatters ==
  ASSUME NEW c \in Classes, NEW st, NEW w, NEW s1, NEW s2,
         Meant(c, w.tag) # {} /\ TheField(c, w) \in Below(c) => s1 = s2
  PROVE  DecodeField(c, st, w, s1) = DecodeField(c, st, w, s2)
<1>1. CASE Meant(c, w.tag) = {}
  BY <1>1 DEF DecodeField
<1>2. CASE Meant(c, w.tag) # {}
  <2>1. PICK n : n = TheField(c, w)
    OBVIOUS
  <2>2. n \in FieldNames(c)
    BY <1>2, <2>1 DEF TheField, Meant
  <2>3. Decoded(Schema[c][n], st.content[n], w, s1) = Decoded(Schema[c][n], st.content[n], w, s2)
    <3>1. CASE n \in Below(c)
      BY <1>2, <2>1, <3>1
    <3>2. CASE n \notin Below(c)
      <4>1. ~ IsMessage(Schema[c][n])
        BY <2>2, <3>2, BelowIsMessage
      <4>2. n \in MemberNames(c) /\ Kind(c, n) \notin {"pointer", "messages"}
        BY <2>2, <3>2, FieldsAreMembers DEF Below, IsBelow
      <4>3. Schema[c][n].type \in {"string", "bytes", "int32", "enum", "bool"}
        BY <2>2, <4>2, SchemaDescribes DEF Describes
      <4>4. TheField(c, w) \in Meant(c, w.tag)
        BY <1>2 DEF TheField
      <4>5. WireType(w.tag) \in Wires(Schema[c][n])
        BY <2>1, <4>4 DEF Meant
      <4> QED
        BY <4>1, <4>3, <4>5, SubIgnored
    <3> QED
      BY <3>1, <3>2
  <2> QED
    BY <1>2, <2>1, <2>3 DEF DecodeField, TheField
<1> QED
  BY <1>1, <1>2

\* A message of a class with nothing below is decoded flat.
LEMMA FlatIsHigh ==
  ASSUME NEW c \in Classes, Height[c] <= 0, NEW x, NEW s \in Seq(Byte)
  PROVE  DecodeFlat(c, x, s) = DecodeHigh(c, x, s)
<1>0. PICK f, n : f = Fields(s) /\ n = Len(f)
  OBVIOUS
<1>1. f \in Seq(FieldSet) /\ n \in Nat
  BY <1>0, FieldsType
<1>2. PICK g : DecodeFlatRuns(g, c, x, f) /\ DecodeFlat(c, x, s) = g[n]
  BY <1>0, DecodeFlatIsRun
<1>3. PICK h : DecodeHighRuns(h, c, x, f) /\ DecodeHigh(c, x, s) = h[n]
  BY <1>0, DecodeHighIsRun
<1>4. ASSUME NEW k \in 1 .. n, g[k - 1] = h[k - 1] PROVE g[k] = h[k]
  <2>1. PICK w, st, s1, s2 : /\ w = f[k] /\ st = g[k - 1]
                             /\ s1 = BeneathFlat(c, st, w) /\ s2 = BeneathHigh(c, st, w)
    OBVIOUS
  <2>2. k \in 1 .. Len(f)
    BY <1>0
  <2>3. g[k] = DecodeField(c, st, w, s1)
    BY <1>2, <2>1, <2>2 DEF DecodeFlatRuns
  <2>4. h[k] = DecodeField(c, st, w, s2)
    BY <1>3, <1>4, <2>1, <2>2 DEF DecodeHighRuns
  <2>5. ASSUME Meant(c, w.tag) # {}, TheField(c, w) \in Below(c) PROVE s1 = s2
    <3>1. PICK m : m = TheField(c, w)
      OBVIOUS
    <3>2. ClassBelow(c, m) \in Classes /\ Height[ClassBelow(c, m)] < Height[c]
      BY <2>5, <3>1, LowerBelow
    <3>3. Height[ClassBelow(c, m)] \in 0 .. 3 /\ Height[c] \in 0 .. 3
      BY <3>2, LowerBelow
    <3> QED
      BY <3>2, <3>3
  <2> QED
    BY <2>3, <2>4, <2>5, SubMatters
<1>5. g[0] = h[0]
  BY <1>2, <1>3 DEF DecodeFlatRuns, DecodeHighRuns
<1>6. Alike(g, h, n)
  BY <1>1, <1>4, <1>5 DEF Alike
<1>7. g[n] = h[n]
  BY <1>6, RunsAgree
<1> QED
  BY <1>2, <1>3, <1>7

\* A message of a class of height 1 is decoded by two levels.
LEMMA HighIsHigher ==
  ASSUME NEW c \in Classes, Height[c] <= 1, NEW x, NEW s \in Seq(Byte)
  PROVE  DecodeHigh(c, x, s) = DecodeHigher(c, x, s)
<1>0. PICK f, n : f = Fields(s) /\ n = Len(f)
  OBVIOUS
<1>1. f \in Seq(FieldSet) /\ n \in Nat
  BY <1>0, FieldsType
<1>2. PICK g : DecodeHighRuns(g, c, x, f) /\ DecodeHigh(c, x, s) = g[n]
  BY <1>0, DecodeHighIsRun
<1>3. PICK h : DecodeHigherRuns(h, c, x, f) /\ DecodeHigher(c, x, s) = h[n]
  BY <1>0, DecodeHigherIsRun
<1>4. ASSUME NEW k \in 1 .. n, g[k - 1] = h[k - 1] PROVE g[k] = h[k]
  <2>1. PICK w, st, s1, s2 : /\ w = f[k] /\ st = g[k - 1]
                             /\ s1 = BeneathHigh(c, st, w) /\ s2 = BeneathHigher(c, st, w)
    OBVIOUS
  <2>2. k \in 1 .. Len(f)
    BY <1>0
  <2>3. g[k] = DecodeField(c, st, w, s1)
    BY <1>2, <2>1, <2>2 DEF DecodeHighRuns
  <2>4. h[k] = DecodeField(c, st, w, s2)
    BY <1>3, <1>4, <2>1, <2>2 DEF DecodeHigherRuns
  <2>5. ASSUME Meant(c, w.tag) # {}, TheField(c, w) \in Below(c) PROVE s1 = s2
    <3>1. PICK m, d, v : m = TheField(c, w) /\ d = Schema[c][m].type /\ v = Started(Schema[c][m], st.content[m])
      OBVIOUS
    <3>2. m \in FieldNames(c)
      BY <2>5, <3>1 DEF TheField, Meant
    <3>3. d \in Classes /\ Height[d] < Height[c]
      BY <2>5, <3>1, <3>2, BelowIsMessage
    <3>4. Height[d] \in 0 .. 3 /\ Height[c] \in 0 .. 3
      BY <3>3, LowerBelow
    <3>5. Height[d] <= 0
      BY <3>3, <3>4
    <3>6. w.bytes \in Seq(Byte)
      BY <1>1, <2>1, <2>2 DEF FieldSet
    <3>7. DecodeFlat(d, v, w.bytes) = DecodeHigh(d, v, w.bytes)
      BY <3>3, <3>5, <3>6, FlatIsHigh
    <3> QED
      BY <2>1, <3>1, <3>7 DEF BeneathHigh, BeneathHigher
  <2> QED
    BY <2>3, <2>4, <2>5, SubMatters
<1>5. g[0] = h[0]
  BY <1>2, <1>3 DEF DecodeHighRuns, DecodeHigherRuns
<1>6. Alike(g, h, n)
  BY <1>1, <1>4, <1>5 DEF Alike
<1>7. g[n] = h[n]
  BY <1>6, RunsAgree
<1> QED
  BY <1>2, <1>3, <1>7

\* A message of a class of height 2 is decoded by three levels.
LEMMA HigherIsInto ==
  ASSUME NEW c \in Classes, Height[c] <= 2, NEW x, NEW s \in Seq(Byte)
  PROVE  DecodeHigher(c, x, s) = DecodeInto(c, x, s)
<1>0. PICK f, n : f = Fields(s) /\ n = Len(f)
  OBVIOUS
<1>1. f \in Seq(FieldSet) /\ n \in Nat
  BY <1>0, FieldsType
<1>2. PICK g : DecodeHigherRuns(g, c, x, f) /\ DecodeHigher(c, x, s) = g[n]
  BY <1>0, DecodeHigherIsRun
<1>3. PICK h : DecodeIntoRuns(h, c, x, f) /\ DecodeInto(c, x, s) = h[n]
  BY <1>0, DecodeIntoIsRun
<1>4. ASSUME NEW k \in 1 .. n, g[k - 1] = h[k - 1] PROVE g[k] = h[k]
  <2>1. PICK w, st, s1, s2 : /\ w = f[k] /\ st = g[k - 1]
                             /\ s1 = BeneathHigher(c, st, w) /\ s2 = BeneathDeep(c, st, w)
    OBVIOUS
  <2>2. k \in 1 .. Len(f)
    BY <1>0
  <2>3. g[k] = DecodeField(c, st, w, s1)
    BY <1>2, <2>1, <2>2 DEF DecodeHigherRuns
  <2>4. h[k] = DecodeField(c, st, w, s2)
    BY <1>3, <1>4, <2>1, <2>2 DEF DecodeIntoRuns
  <2>5. ASSUME Meant(c, w.tag) # {}, TheField(c, w) \in Below(c) PROVE s1 = s2
    <3>1. PICK m, d, v : m = TheField(c, w) /\ d = Schema[c][m].type /\ v = Started(Schema[c][m], st.content[m])
      OBVIOUS
    <3>2. m \in FieldNames(c)
      BY <2>5, <3>1 DEF TheField, Meant
    <3>3. d \in Classes /\ Height[d] < Height[c]
      BY <2>5, <3>1, <3>2, BelowIsMessage
    <3>4. Height[d] \in 0 .. 3 /\ Height[c] \in 0 .. 3
      BY <3>3, LowerBelow
    <3>5. Height[d] <= 1
      BY <3>3, <3>4
    <3>6. w.bytes \in Seq(Byte)
      BY <1>1, <2>1, <2>2 DEF FieldSet
    <3>7. DecodeHigh(d, v, w.bytes) = DecodeHigher(d, v, w.bytes)
      BY <3>3, <3>5, <3>6, HighIsHigher
    <3> QED
      BY <2>1, <3>1, <3>7 DEF BeneathHigher, BeneathDeep
  <2> QED
    BY <2>3, <2>4, <2>5, SubMatters
<1>5. g[0] = h[0]
  BY <1>2, <1>3 DEF DecodeHigherRuns, DecodeIntoRuns
<1>6. Alike(g, h, n)
  BY <1>1, <1>4, <1>5 DEF Alike
<1>7. g[n] = h[n]
  BY <1>6, RunsAgree
<1> QED
  BY <1>2, <1>3, <1>7

\* What the bytes of the field w of a message of class c are read as.
Beneath(c, st, w) ==
  DecodeInto(Schema[c][TheField(c, w)].type, Started(Schema[c][TheField(c, w)], st.content[TheField(c, w)]), w.bytes)

\* The states of a reader of the fields f.
DecodeRuns(run, c, x, f) ==
  /\ run[0] = [ok |-> TRUE, content |-> x]
  /\ \A k \in 1 .. Len(f) : run[k] = DecodeField(c, run[k - 1], f[k], Beneath(c, run[k - 1], f[k]))

\* DecodeInto reads the messages below as it reads the message.
LEMMA DecodeIsRun ==
  ASSUME NEW c \in Classes, NEW x, NEW s \in Seq(Byte)
  PROVE  \E run : DecodeRuns(run, c, x, Fields(s)) /\ DecodeInto(c, x, s) = run[Len(Fields(s))]
<1>0. PICK f : f = Fields(s)
  OBVIOUS
<1>1. f \in Seq(FieldSet)
  BY <1>0, FieldsType
<1>2. PICK g : DecodeIntoRuns(g, c, x, f) /\ DecodeInto(c, x, s) = g[Len(f)]
  BY <1>0, DecodeIntoIsRun
<1>3. ASSUME NEW k \in 1 .. Len(f)
      PROVE  g[k] = DecodeField(c, g[k - 1], f[k], Beneath(c, g[k - 1], f[k]))
  <2>1. PICK w, st, s1, s2 : /\ w = f[k] /\ st = g[k - 1]
                             /\ s1 = BeneathDeep(c, st, w) /\ s2 = Beneath(c, st, w)
    OBVIOUS
  <2>3. g[k] = DecodeField(c, st, w, s1)
    BY <1>2, <2>1 DEF DecodeIntoRuns
  <2>5. ASSUME Meant(c, w.tag) # {}, TheField(c, w) \in Below(c) PROVE s1 = s2
    <3>1. PICK m, d, v : m = TheField(c, w) /\ d = Schema[c][m].type /\ v = Started(Schema[c][m], st.content[m])
      OBVIOUS
    <3>2. m \in FieldNames(c)
      BY <2>5, <3>1 DEF TheField, Meant
    <3>3. d \in Classes /\ Height[d] < Height[c]
      BY <2>5, <3>1, <3>2, BelowIsMessage
    <3>4. Height[d] \in 0 .. 3 /\ Height[c] \in 0 .. 3
      BY <3>3, LowerBelow
    <3>5. Height[d] <= 2
      BY <3>3, <3>4
    <3>6. w.bytes \in Seq(Byte)
      BY <1>1, <2>1 DEF FieldSet
    <3>7. DecodeHigher(d, v, w.bytes) = DecodeInto(d, v, w.bytes)
      BY <3>3, <3>5, <3>6, HigherIsInto
    <3> QED
      BY <2>1, <3>1, <3>7 DEF BeneathDeep, Beneath
  <2>6. DecodeField(c, st, w, s1) = DecodeField(c, st, w, s2)
    BY <2>5, SubMatters
  <2> QED
    BY <2>1, <2>3, <2>6
<1>4. DecodeRuns(g, c, x, f)
  BY <1>2, <1>3 DEF DecodeRuns, DecodeIntoRuns
<1> QED
  BY <1>0, <1>2, <1>4

-------------------------------------------------------------------------------
(* Reading a message goes on where its first bytes have left it.             *)

\* The bytes s make b of a, whatever follows them.
Yields(c, a, s, b) ==
  s \in Seq(Byte) /\ \A t \in Seq(Byte) : DecodeInto(c, a, s \o t) = DecodeInto(c, b, t)

\* Nothing changes nothing.
LEMMA YieldsNothing ==
  ASSUME NEW c, NEW a
  PROVE  Yields(c, a, << >>, a)
<1>1. << >> \in Seq(Byte) /\ \A t \in Seq(Byte) : << >> \o t = t
  BY EmptySeq, ConcatEmptySeq
<1> QED
  BY <1>1 DEF Yields

\* What is read is read one part after the other.
LEMMA YieldsBoth ==
  ASSUME NEW c, NEW a, NEW s, NEW b, Yields(c, a, s, b), NEW r, NEW e, Yields(c, b, r, e)
  PROVE  Yields(c, a, s \o r, e)
<1>1. s \in Seq(Byte) /\ r \in Seq(Byte) /\ s \o r \in Seq(Byte)
  BY DEF Yields
<1>2. ASSUME NEW t \in Seq(Byte) PROVE DecodeInto(c, a, (s \o r) \o t) = DecodeInto(c, e, t)
  <2>1. (s \o r) \o t = s \o (r \o t)
    BY <1>1, ConcatAssociative
  <2>2. r \o t \in Seq(Byte)
    BY <1>1
  <2>3. DecodeInto(c, a, s \o (r \o t)) = DecodeInto(c, b, r \o t)
    BY <2>2 DEF Yields
  <2>4. DecodeInto(c, b, r \o t) = DecodeInto(c, e, t)
    BY DEF Yields
  <2> QED
    BY <2>1, <2>3, <2>4
<1> QED
  BY <1>1, <1>2 DEF Yields

\* The state of a reader that has refused nothing.
Reading(x) == [ok |-> TRUE, content |-> x]

\* There is nothing to read in nothing.
LEMMA ReadingEnds ==
  ASSUME NEW c \in Classes, NEW a
  PROVE  DecodeInto(c, a, << >>) = Reading(a)
<1>1. << >> \in Seq(Byte)
  BY EmptySeq
<1>2. Fields(<< >>) = << >>
  <2>1. PICK s : s = << >>
    OBVIOUS
  <2>a. s \in Seq(Byte) /\ Len(s) = 0
    BY <2>1
  <2>2. PICK f : FieldsFrom(f, s) /\ Fields(s) = f[0]
    BY <2>a, FieldsRead
  <2> QED
    BY <2>1, <2>a, <2>2 DEF FieldsFrom
<1>3. PICK run : DecodeRuns(run, c, a, Fields(<< >>)) /\ DecodeInto(c, a, << >>) = run[Len(Fields(<< >>))]
  BY <1>1, DecodeIsRun
<1>4. Len(Fields(<< >>)) = 0
  BY <1>2
<1> QED
  BY <1>3, <1>4 DEF DecodeRuns, Reading

\* Who reads all of the bytes has what they yield.
LEMMA YieldsAll ==
  ASSUME NEW c \in Classes, NEW a, NEW s, NEW b, Yields(c, a, s, b)
  PROVE  DecodeInto(c, a, s) = Reading(b)
<1>1. << >> \in Seq(Byte) /\ s \in Seq(Byte) /\ s \o << >> = s
  BY EmptySeq, ConcatEmptySeq DEF Yields
<1>2. DecodeInto(c, a, s \o << >>) = DecodeInto(c, b, << >>)
  BY <1>1 DEF Yields
<1> QED
  BY <1>1, <1>2, ReadingEnds

\* One field first, and then the others.
LEMMA FieldYields ==
  ASSUME NEW c \in Classes, NEW a, NEW b, NEW u, NEW f, Whole(u, f),
         DecodeField(c, Reading(a), f, Beneath(c, Reading(a), f)) = Reading(b)
  PROVE  Yields(c, a, u, b)
<1>1. u \in Seq(Byte)
  BY DEF Whole
<1>2. ASSUME NEW t \in Seq(Byte) PROVE DecodeInto(c, a, u \o t) = DecodeInto(c, b, t)
  <2>1. PICK e, F, n : e = Fields(u \o t) /\ F = Fields(t) /\ n = Len(F)
    OBVIOUS
  <2>2. u \o t \in Seq(Byte) /\ e = << f >> \o F /\ F \in Seq(FieldSet) /\ f \in FieldSet
    BY <2>1, FieldFirst
  <2>3. n \in Nat /\ Len(e) = n + 1 /\ e[1] = f /\ \A k \in 1 .. n : e[k + 1] = F[k]
    <3>1. << f >> \in Seq(FieldSet) /\ Len(<< f >>) = 1 /\ << f >>[1] = f
      BY <2>2
    <3> QED
      BY <2>1, <2>2, <3>1, ConcatProperties
  <2>4. PICK g : DecodeRuns(g, c, a, e) /\ DecodeInto(c, a, u \o t) = g[n + 1]
    <3>1. \E g : DecodeRuns(g, c, a, Fields(u \o t)) /\ DecodeInto(c, a, u \o t) = g[Len(Fields(u \o t))]
      BY <2>2, DecodeIsRun
    <3> QED
      BY <2>1, <2>3, <3>1
  <2>5. PICK h : DecodeRuns(h, c, b, F) /\ DecodeInto(c, b, t) = h[n]
    BY <2>1, DecodeIsRun
  <2>6. g[0] = Reading(a) /\ g[1] = Reading(b)
    <3>1. g[0] = Reading(a)
      BY <2>4 DEF DecodeRuns, Reading
    <3>2. 1 \in 1 .. Len(e) /\ 1 - 1 = 0
      BY <2>3
    <3>3. g[1] = DecodeField(c, g[0], e[1], Beneath(c, g[0], e[1]))
      BY <2>4, <3>2 DEF DecodeRuns
    <3> QED
      BY <2>3, <3>1, <3>3
  <2>7. PICK i : i = [k \in 0 .. n |-> g[k + 1]]
    OBVIOUS
  <2>8. i[0] = h[0]
    <3>1. 0 \in 0 .. n /\ 0 + 1 = 1
      BY <2>3
    <3> QED
      BY <2>5, <2>6, <2>7, <3>1 DEF DecodeRuns, Reading
  <2>9. ASSUME NEW k \in 1 .. n, i[k - 1] = h[k - 1] PROVE i[k] = h[k]
    <3>1. k \in 0 .. n /\ k - 1 \in 0 .. n /\ k + 1 \in 1 .. Len(e) /\ (k + 1) - 1 = k /\ (k - 1) + 1 = k /\ k \in 1 .. Len(F)
      BY <2>1, <2>3
    <3>2. g[k + 1] = DecodeField(c, g[k], e[k + 1], Beneath(c, g[k], e[k + 1]))
      BY <2>4, <3>1 DEF DecodeRuns
    <3>3. h[k] = DecodeField(c, h[k - 1], F[k], Beneath(c, h[k - 1], F[k]))
      BY <2>5, <3>1 DEF DecodeRuns
    <3>4. i[k] = g[k + 1] /\ i[k - 1] = g[k] /\ e[k + 1] = F[k]
      BY <2>3, <2>7, <3>1
    <3> QED
      BY <2>9, <3>2, <3>3, <3>4
  <2>10. Alike(i, h, n)
    BY <2>3, <2>8, <2>9 DEF Alike
  <2>11. i[n] = h[n] /\ i[n] = g[n + 1]
    BY <2>7, <2>10, RunsAgree
  <2> QED
    BY <2>4, <2>5, <2>11
<1> QED
  BY <1>1, <1>2 DEF Yields

-------------------------------------------------------------------------------
(* The contents of a class, field by field.                                  *)

\* What a field of the descriptor may be.
Meaning(f) ==
  CASE f.type = "string" -> Text
    [] f.type = "bytes" -> Seq(Byte)
    [] f.type = "bool" -> BOOLEAN
    [] f.type \in {"int32", "enum"} -> IF f.repeated THEN Seq(Int32) ELSE Int32
    [] f.type \in ClassNames -> IF f.repeated THEN Seq(Contents(f.type)) ELSE AtMostOne(Contents(f.type))

\* The values by the type of the field.
LEMMA MeaningsAre ==
  \A n : /\ Meaning(Optional(n, "string")) = Text /\ Meaning(Optional(n, "bytes")) = Seq(Byte)
         /\ Meaning(Optional(n, "bool")) = BOOLEAN
         /\ Meaning(Optional(n, "int32")) = Int32 /\ Meaning(Optional(n, "enum")) = Int32
         /\ Meaning(Repeated(n, "int32")) = Seq(Int32)
         /\ \A d \in ClassNames : /\ Meaning(Optional(n, d)) = AtMostOne(Contents(d))
                                  /\ Meaning(Repeated(n, d)) = Seq(Contents(d))
BY EntryFields DEF Meaning, ClassNames

\* The values of the fields of RecordField.
LEMMA RecordFieldMeans ==
  /\ Meaning(Schema["RecordField"]["name"]) = Text
  /\ Meaning(Schema["RecordField"]["type"]) = Int32
  /\ Meaning(Schema["RecordField"]["defaultValue"]) = AtMostOne(ValueContents)
BY SchemaIs, MeaningsAre, ContentsAre DEF RecordFieldSchema, ClassNames

\* The contents of RecordField, field by field.
LEMMA RecordFieldContentsAre ==
  \A x : x \in RecordFieldContents <=> /\ x = [n \in FieldNames("RecordField") |-> x[n]]
                               /\ \A n \in FieldNames("RecordField") : x[n] \in Meaning(Schema["RecordField"][n])
<1>1. SUFFICES ASSUME NEW x
               PROVE  x \in RecordFieldContents <=> /\ x = [n \in FieldNames("RecordField") |-> x[n]]
                                           /\ \A n \in FieldNames("RecordField") : x[n] \in Meaning(Schema["RecordField"][n])
  OBVIOUS
<1>2. x = [n \in FieldNames("RecordField") |-> x[n]] =>
        (x \in RecordFieldContents <=> /\ x["name"] \in Text
                                 /\ x["type"] \in Int32
                                 /\ x["defaultValue"] \in AtMostOne(ValueContents))
  BY FieldsAre DEF RecordFieldContents
<1>3. x \in RecordFieldContents => x = [n \in FieldNames("RecordField") |-> x[n]]
  BY ContentIs, ContentsAre, ClassesAre DEF ClassNames
<1>4. (\A n \in FieldNames("RecordField") : x[n] \in Meaning(Schema["RecordField"][n])) <=>
        (/\ x["name"] \in Text
         /\ x["type"] \in Int32
         /\ x["defaultValue"] \in AtMostOne(ValueContents))
  BY FieldsAre, RecordFieldMeans
<1> QED
  BY <1>2, <1>3, <1>4

\* The values of the fields of EnumValue.
LEMMA EnumValueMeans ==
  /\ Meaning(Schema["EnumValue"]["name"]) = Text
  /\ Meaning(Schema["EnumValue"]["value"]) = Int32
BY SchemaIs, MeaningsAre, ContentsAre DEF EnumValueSchema, ClassNames

\* The contents of EnumValue, field by field.
LEMMA EnumValueContentsAre ==
  \A x : x \in EnumValueContents <=> /\ x = [n \in FieldNames("EnumValue") |-> x[n]]
                               /\ \A n \in FieldNames("EnumValue") : x[n] \in Meaning(Schema["EnumValue"][n])
<1>1. SUFFICES ASSUME NEW x
               PROVE  x \in EnumValueContents <=> /\ x = [n \in FieldNames("EnumValue") |-> x[n]]
                                           /\ \A n \in FieldNames("EnumValue") : x[n] \in Meaning(Schema["EnumValue"][n])
  OBVIOUS
<1>2. x = [n \in FieldNames("EnumValue") |-> x[n]] =>
        (x \in EnumValueContents <=> /\ x["name"] \in Text
                                 /\ x["value"] \in Int32)
  BY FieldsAre DEF EnumValueContents
<1>3. x \in EnumValueContents => x = [n \in FieldNames("EnumValue") |-> x[n]]
  BY ContentIs, ContentsAre, ClassesAre DEF ClassNames
<1>4. (\A n \in FieldNames("EnumValue") : x[n] \in Meaning(Schema["EnumValue"][n])) <=>
        (/\ x["name"] \in Text
         /\ x["value"] \in Int32)
  BY FieldsAre, EnumValueMeans
<1> QED
  BY <1>2, <1>3, <1>4

\* The values of the fields of Type.
LEMMA TypeMeans ==
  /\ Meaning(Schema["Type"]["id"]) = Int32
  /\ Meaning(Schema["Type"]["kind"]) = Int32
  /\ Meaning(Schema["Type"]["referencedType"]) = Int32
  /\ Meaning(Schema["Type"]["isBlockPointer"]) = BOOLEAN
  /\ Meaning(Schema["Type"]["elementType"]) = Int32
  /\ Meaning(Schema["Type"]["size"]) = Int32
  /\ Meaning(Schema["Type"]["primitiveKind"]) = Int32
  /\ Meaning(Schema["Type"]["recordKind"]) = Int32
  /\ Meaning(Schema["Type"]["field"]) = Seq(RecordFieldContents)
  /\ Meaning(Schema["Type"]["returnType"]) = Int32
  /\ Meaning(Schema["Type"]["paramType"]) = Seq(Int32)
  /\ Meaning(Schema["Type"]["value"]) = Seq(EnumValueContents)
  /\ Meaning(Schema["Type"]["underlyingType"]) = Int32
  /\ Meaning(Schema["Type"]["isConst"]) = BOOLEAN
  /\ Meaning(Schema["Type"]["isVolatile"]) = BOOLEAN
BY SchemaIs, MeaningsAre, ContentsAre DEF TypeSchema, ClassNames

\* The contents of Type, field by field.
LEMMA TypeContentsAre ==
  \A x : x \in TypeContents <=> /\ x = [n \in FieldNames("Type") |-> x[n]]
                               /\ \A n \in FieldNames("Type") : x[n] \in Meaning(Schema["Type"][n])
<1>1. SUFFICES ASSUME NEW x
               PROVE  x \in TypeContents <=> /\ x = [n \in FieldNames("Type") |-> x[n]]
                                           /\ \A n \in FieldNames("Type") : x[n] \in Meaning(Schema["Type"][n])
  OBVIOUS
<1>2. x = [n \in FieldNames("Type") |-> x[n]] =>
        (x \in TypeContents <=> /\ x["id"] \in Int32
                                 /\ x["kind"] \in Int32
                                 /\ x["referencedType"] \in Int32
                                 /\ x["isBlockPointer"] \in BOOLEAN
                                 /\ x["elementType"] \in Int32
                                 /\ x["size"] \in Int32
                                 /\ x["primitiveKind"] \in Int32
                                 /\ x["recordKind"] \in Int32
                                 /\ x["field"] \in Seq(RecordFieldContents)
                                 /\ x["returnType"] \in Int32
                                 /\ x["paramType"] \in Seq(Int32)
                                 /\ x["value"] \in Seq(EnumValueContents)
                                 /\ x["underlyingType"] \in Int32
                                 /\ x["isConst"] \in BOOLEAN
                                 /\ x["isVolatile"] \in BOOLEAN)
  BY FieldsAre DEF TypeContents, TypeFields
<1>3. x \in TypeContents => x = [n \in FieldNames("Type") |-> x[n]]
  BY ContentIs, ContentsAre, ClassesAre DEF ClassNames
<1>4. (\A n \in FieldNames("Type") : x[n] \in Meaning(Schema["Type"][n])) <=>
        (/\ x["id"] \in Int32
         /\ x["kind"] \in Int32
         /\ x["referencedType"] \in Int32
         /\ x["isBlockPointer"] \in BOOLEAN
         /\ x["elementType"] \in Int32
         /\ x["size"] \in Int32
         /\ x["primitiveKind"] \in Int32
         /\ x["recordKind"] \in Int32
         /\ x["field"] \in Seq(RecordFieldContents)
         /\ x["returnType"] \in Int32
         /\ x["paramType"] \in Seq(Int32)
         /\ x["value"] \in Seq(EnumValueContents)
         /\ x["underlyingType"] \in Int32
         /\ x["isConst"] \in BOOLEAN
         /\ x["isVolatile"] \in BOOLEAN)
  BY FieldsAre, TypeMeans DEF TypeFields
<1> QED
  BY <1>2, <1>3, <1>4

\* The values of the fields of Value.
LEMMA ValueMeans ==
  /\ Meaning(Schema["Value"]["typeId"]) = Int32
  /\ Meaning(Schema["Value"]["mangledName"]) = Text
  /\ Meaning(Schema["Value"]["value"]) = Seq(Byte)
BY SchemaIs, MeaningsAre, ContentsAre DEF ValueSchema, ClassNames

\* The contents of Value, field by field.
LEMMA ValueContentsAre ==
  \A x : x \in ValueContents <=> /\ x = [n \in FieldNames("Value") |-> x[n]]
                               /\ \A n \in FieldNames("Value") : x[n] \in Meaning(Schema["Value"][n])
<1>1. SUFFICES ASSUME NEW x
               PROVE  x \in ValueContents <=> /\ x = [n \in FieldNames("Value") |-> x[n]]
                                           /\ \A n \in FieldNames("Value") : x[n] \in Meaning(Schema["Value"][n])
  OBVIOUS
<1>2. x = [n \in FieldNames("Value") |-> x[n]] =>
        (x \in ValueContents <=> /\ x["typeId"] \in Int32
                                 /\ x["mangledName"] \in Text
                                 /\ x["value"] \in Seq(Byte))
  BY FieldsAre DEF ValueContents
<1>3. x \in ValueContents => x = [n \in FieldNames("Value") |-> x[n]]
  BY ContentIs, ContentsAre, ClassesAre DEF ClassNames
<1>4. (\A n \in FieldNames("Value") : x[n] \in Meaning(Schema["Value"][n])) <=>
        (/\ x["typeId"] \in Int32
         /\ x["mangledName"] \in Text
         /\ x["value"] \in Seq(Byte))
  BY FieldsAre, ValueMeans
<1> QED
  BY <1>2, <1>3, <1>4

\* The values of the fields of Export.
LEMMA ExportMeans ==
  /\ Meaning(Schema["Export"]["name"]) = Text
  /\ Meaning(Schema["Export"]["type"]) = Int32
  /\ Meaning(Schema["Export"]["value"]) = AtMostOne(ValueContents)
BY SchemaIs, MeaningsAre, ContentsAre DEF ExportSchema, ClassNames

\* The contents of Export, field by field.
LEMMA ExportContentsAre ==
  \A x : x \in ExportContents <=> /\ x = [n \in FieldNames("Export") |-> x[n]]
                               /\ \A n \in FieldNames("Export") : x[n] \in Meaning(Schema["Export"][n])
<1>1. SUFFICES ASSUME NEW x
               PROVE  x \in ExportContents <=> /\ x = [n \in FieldNames("Export") |-> x[n]]
                                           /\ \A n \in FieldNames("Export") : x[n] \in Meaning(Schema["Export"][n])
  OBVIOUS
<1>2. x = [n \in FieldNames("Export") |-> x[n]] =>
        (x \in ExportContents <=> /\ x["name"] \in Text
                                 /\ x["type"] \in Int32
                                 /\ x["value"] \in AtMostOne(ValueContents))
  BY FieldsAre DEF ExportContents
<1>3. x \in ExportContents => x = [n \in FieldNames("Export") |-> x[n]]
  BY ContentIs, ContentsAre, ClassesAre DEF ClassNames
<1>4. (\A n \in FieldNames("Export") : x[n] \in Meaning(Schema["Export"][n])) <=>
        (/\ x["name"] \in Text
         /\ x["type"] \in Int32
         /\ x["value"] \in AtMostOne(ValueContents))
  BY FieldsAre, ExportMeans
<1> QED
  BY <1>2, <1>3, <1>4

\* The values of the fields of Catalog.
LEMMA CatalogMeans ==
  /\ Meaning(Schema["Catalog"]["type"]) = Seq(TypeContents)
  /\ Meaning(Schema["Catalog"]["export"]) = Seq(ExportContents)
BY SchemaIs, MeaningsAre, ContentsAre DEF CatalogSchema, ClassNames

\* The contents of Catalog, field by field.
LEMMA CatalogContentsAre ==
  \A x : x \in CatalogContents <=> /\ x = [n \in FieldNames("Catalog") |-> x[n]]
                               /\ \A n \in FieldNames("Catalog") : x[n] \in Meaning(Schema["Catalog"][n])
<1>1. SUFFICES ASSUME NEW x
               PROVE  x \in CatalogContents <=> /\ x = [n \in FieldNames("Catalog") |-> x[n]]
                                           /\ \A n \in FieldNames("Catalog") : x[n] \in Meaning(Schema["Catalog"][n])
  OBVIOUS
<1>2. x = [n \in FieldNames("Catalog") |-> x[n]] =>
        (x \in CatalogContents <=> /\ x["type"] \in Seq(TypeContents)
                                 /\ x["export"] \in Seq(ExportContents))
  BY FieldsAre DEF CatalogContents
<1>3. x \in CatalogContents => x = [n \in FieldNames("Catalog") |-> x[n]]
  BY ContentIs, ContentsAre, ClassesAre DEF ClassNames
<1>4. (\A n \in FieldNames("Catalog") : x[n] \in Meaning(Schema["Catalog"][n])) <=>
        (/\ x["type"] \in Seq(TypeContents)
         /\ x["export"] \in Seq(ExportContents))
  BY FieldsAre, CatalogMeans
<1> QED
  BY <1>2, <1>3, <1>4

\* A content has a value of each field of its class, and no more.
LEMMA ContentsByField ==
  \A c \in Classes : \A x : x \in AllContents[c] <=> /\ x = [n \in FieldNames(c) |-> x[n]]
                                                   /\ \A n \in FieldNames(c) : x[n] \in Meaning(Schema[c][n])
<1>1. SUFFICES ASSUME NEW c \in ClassNames, NEW x
               PROVE  x \in Contents(c) <=> /\ x = [n \in FieldNames(c) |-> x[n]]
                                           /\ \A n \in FieldNames(c) : x[n] \in Meaning(Schema[c][n])
  BY ClassesAre DEF AllContents
<1>2. CASE c = "RecordField"
  BY <1>2, RecordFieldContentsAre, ContentsAre
<1>3. CASE c = "EnumValue"
  BY <1>3, EnumValueContentsAre, ContentsAre
<1>4. CASE c = "Type"
  BY <1>4, TypeContentsAre, ContentsAre
<1>5. CASE c = "Value"
  BY <1>5, ValueContentsAre, ContentsAre
<1>6. CASE c = "Export"
  BY <1>6, ExportContentsAre, ContentsAre
<1>7. CASE c = "Catalog"
  BY <1>7, CatalogContentsAre, ContentsAre
<1> QED
  BY <1>2, <1>3, <1>4, <1>5, <1>6, <1>7 DEF ClassNames

-------------------------------------------------------------------------------
(* The writers' tables: every field once, under the number it has.           *)

\* The writer of a class writes every field of it once, under its number.
WritesOnce(c) ==
  /\ \A k \in 1 .. Len(ToStream[c]) : /\ ToStream[c][k][2] \in FieldNames(c)
                                       /\ ToStream[c][k][1] = Schema[c][ToStream[c][k][2]].number
  /\ \A k, l \in 1 .. Len(ToStream[c]) : ToStream[c][k][2] = ToStream[c][l][2] => k = l
  /\ \A n \in FieldNames(c) : \E k \in 1 .. Len(ToStream[c]) : ToStream[c][k][2] = n

\* The writer of RecordField.
LEMMA RecordFieldOnce == WritesOnce("RecordField")
<1>1. 1 .. 3 = {1, 2, 3}
  OBVIOUS
<1>2. PICK t : t = ToStream["RecordField"]
  OBVIOUS
<1>3. /\ Len(t) = 3
      /\ t[1][1] = 1 /\ t[1][2] = "name"
      /\ t[2][1] = 2 /\ t[2][2] = "type"
      /\ t[3][1] = 3 /\ t[3][2] = "defaultValue"
  BY <1>2, ToStreamIs, RecordFieldWritten
<1>4. /\ Schema["RecordField"]["name"].number = 1
      /\ Schema["RecordField"]["type"].number = 2
      /\ Schema["RecordField"]["defaultValue"].number = 3
  BY SchemaIs, EntryFields DEF RecordFieldSchema
<1>5. \A k \in 1 .. 3 : t[k][2] \in FieldNames("RecordField") /\ t[k][1] = Schema["RecordField"][t[k][2]].number
  BY <1>1, <1>3, <1>4, FieldsAre
<1>6. \A k, l \in 1 .. 3 : t[k][2] = t[l][2] => k = l
  BY <1>1, <1>3
<1>7. \A n \in FieldNames("RecordField") : \E k \in 1 .. 3 : t[k][2] = n
  BY <1>1, <1>3, FieldsAre
<1>8. Len(t) = 3
  BY <1>3
<1> QED
  BY <1>2, <1>5, <1>6, <1>7, <1>8 DEF WritesOnce

\* The writer of EnumValue.
LEMMA EnumValueOnce == WritesOnce("EnumValue")
<1>1. 1 .. 2 = {1, 2}
  OBVIOUS
<1>2. PICK t : t = ToStream["EnumValue"]
  OBVIOUS
<1>3. /\ Len(t) = 2
      /\ t[1][1] = 1 /\ t[1][2] = "name"
      /\ t[2][1] = 2 /\ t[2][2] = "value"
  BY <1>2, ToStreamIs, EnumValueWritten
<1>4. /\ Schema["EnumValue"]["name"].number = 1
      /\ Schema["EnumValue"]["value"].number = 2
  BY SchemaIs, EntryFields DEF EnumValueSchema
<1>5. \A k \in 1 .. 2 : t[k][2] \in FieldNames("EnumValue") /\ t[k][1] = Schema["EnumValue"][t[k][2]].number
  BY <1>1, <1>3, <1>4, FieldsAre
<1>6. \A k, l \in 1 .. 2 : t[k][2] = t[l][2] => k = l
  BY <1>1, <1>3
<1>7. \A n \in FieldNames("EnumValue") : \E k \in 1 .. 2 : t[k][2] = n
  BY <1>1, <1>3, FieldsAre
<1>8. Len(t) = 2
  BY <1>3
<1> QED
  BY <1>2, <1>5, <1>6, <1>7, <1>8 DEF WritesOnce

\* The writer of Type.
LEMMA TypeOnce == WritesOnce("Type")
<1>1. 1 .. 15 = {1, 2, 3, 4, 5, 6, 7, 8, 9, 10, 11, 12, 13, 14, 15}
  OBVIOUS
<1>2. PICK t : t = ToStream["Type"]
  OBVIOUS
<1>3. /\ Len(t) = 15
      /\ t[1][1] = 1 /\ t[1][2] = "id"
      /\ t[2][1] = 2 /\ t[2][2] = "kind"
      /\ t[3][1] = 5 /\ t[3][2] = "referencedType"
      /\ t[4][1] = 6 /\ t[4][2] = "isBlockPointer"
      /\ t[5][1] = 10 /\ t[5][2] = "elementType"
      /\ t[6][1] = 11 /\ t[6][2] = "size"
      /\ t[7][1] = 15 /\ t[7][2] = "primitiveKind"
      /\ t[8][1] = 20 /\ t[8][2] = "recordKind"
      /\ t[9][1] = 21 /\ t[9][2] = "field"
      /\ t[10][1] = 25 /\ t[10][2] = "returnType"
      /\ t[11][1] = 26 /\ t[11][2] = "paramType"
      /\ t[12][1] = 30 /\ t[12][2] = "value"
      /\ t[13][1] = 49 /\ t[13][2] = "underlyingType"
      /\ t[14][1] = 50 /\ t[14][2] = "isConst"
      /\ t[15][1] = 51 /\ t[15][2] = "isVolatile"
  BY <1>2, ToStreamIs, TypeWritten
<1>4. /\ Schema["Type"]["id"].number = 1
      /\ Schema["Type"]["kind"].number = 2
      /\ Schema["Type"]["referencedType"].number = 5
      /\ Schema["Type"]["isBlockPointer"].number = 6
      /\ Schema["Type"]["elementType"].number = 10
      /\ Schema["Type"]["size"].number = 11
      /\ Schema["Type"]["primitiveKind"].number = 15
      /\ Schema["Type"]["recordKind"].number = 20
      /\ Schema["Type"]["field"].number = 21
      /\ Schema["Type"]["returnType"].number = 25
      /\ Schema["Type"]["paramType"].number = 26
      /\ Schema["Type"]["value"].number = 30
      /\ Schema["Type"]["underlyingType"].number = 49
      /\ Schema["Type"]["isConst"].number = 50
      /\ Schema["Type"]["isVolatile"].number = 51
  BY SchemaIs, EntryFields DEF TypeSchema
<1>5. \A k \in 1 .. 15 : t[k][2] \in FieldNames("Type") /\ t[k][1] = Schema["Type"][t[k][2]].number
  BY <1>1, <1>3, <1>4, FieldsAre DEF TypeFields
<1>6. \A k, l \in 1 .. 15 : t[k][2] = t[l][2] => k = l
  BY <1>1, <1>3
<1>7. \A n \in FieldNames("Type") : \E k \in 1 .. 15 : t[k][2] = n
  BY <1>1, <1>3, FieldsAre DEF TypeFields
<1>8. Len(t) = 15
  BY <1>3
<1> QED
  BY <1>2, <1>5, <1>6, <1>7, <1>8 DEF WritesOnce

\* The writer of Value.
LEMMA ValueOnce == WritesOnce("Value")
<1>1. 1 .. 3 = {1, 2, 3}
  OBVIOUS
<1>2. PICK t : t = ToStream["Value"]
  OBVIOUS
<1>3. /\ Len(t) = 3
      /\ t[1][1] = 1 /\ t[1][2] = "typeId"
      /\ t[2][1] = 5 /\ t[2][2] = "mangledName"
      /\ t[3][1] = 10 /\ t[3][2] = "value"
  BY <1>2, ToStreamIs, ValueWritten
<1>4. /\ Schema["Value"]["typeId"].number = 1
      /\ Schema["Value"]["mangledName"].number = 5
      /\ Schema["Value"]["value"].number = 10
  BY SchemaIs, EntryFields DEF ValueSchema
<1>5. \A k \in 1 .. 3 : t[k][2] \in FieldNames("Value") /\ t[k][1] = Schema["Value"][t[k][2]].number
  BY <1>1, <1>3, <1>4, FieldsAre
<1>6. \A k, l \in 1 .. 3 : t[k][2] = t[l][2] => k = l
  BY <1>1, <1>3
<1>7. \A n \in FieldNames("Value") : \E k \in 1 .. 3 : t[k][2] = n
  BY <1>1, <1>3, FieldsAre
<1>8. Len(t) = 3
  BY <1>3
<1> QED
  BY <1>2, <1>5, <1>6, <1>7, <1>8 DEF WritesOnce

\* The writer of Export.
LEMMA ExportOnce == WritesOnce("Export")
<1>1. 1 .. 3 = {1, 2, 3}
  OBVIOUS
<1>2. PICK t : t = ToStream["Export"]
  OBVIOUS
<1>3. /\ Len(t) = 3
      /\ t[1][1] = 1 /\ t[1][2] = "name"
      /\ t[2][1] = 2 /\ t[2][2] = "type"
      /\ t[3][1] = 3 /\ t[3][2] = "value"
  BY <1>2, ToStreamIs, ExportWritten
<1>4. /\ Schema["Export"]["name"].number = 1
      /\ Schema["Export"]["type"].number = 2
      /\ Schema["Export"]["value"].number = 3
  BY SchemaIs, EntryFields DEF ExportSchema
<1>5. \A k \in 1 .. 3 : t[k][2] \in FieldNames("Export") /\ t[k][1] = Schema["Export"][t[k][2]].number
  BY <1>1, <1>3, <1>4, FieldsAre
<1>6. \A k, l \in 1 .. 3 : t[k][2] = t[l][2] => k = l
  BY <1>1, <1>3
<1>7. \A n \in FieldNames("Export") : \E k \in 1 .. 3 : t[k][2] = n
  BY <1>1, <1>3, FieldsAre
<1>8. Len(t) = 3
  BY <1>3
<1> QED
  BY <1>2, <1>5, <1>6, <1>7, <1>8 DEF WritesOnce

\* The writer of Catalog.
LEMMA CatalogOnce == WritesOnce("Catalog")
<1>1. 1 .. 2 = {1, 2}
  OBVIOUS
<1>2. PICK t : t = ToStream["Catalog"]
  OBVIOUS
<1>3. /\ Len(t) = 2
      /\ t[1][1] = 1 /\ t[1][2] = "type"
      /\ t[2][1] = 2 /\ t[2][2] = "export"
  BY <1>2, ToStreamIs, CatalogWritten
<1>4. /\ Schema["Catalog"]["type"].number = 1
      /\ Schema["Catalog"]["export"].number = 2
  BY SchemaIs, EntryFields DEF CatalogSchema
<1>5. \A k \in 1 .. 2 : t[k][2] \in FieldNames("Catalog") /\ t[k][1] = Schema["Catalog"][t[k][2]].number
  BY <1>1, <1>3, <1>4, FieldsAre
<1>6. \A k, l \in 1 .. 2 : t[k][2] = t[l][2] => k = l
  BY <1>1, <1>3
<1>7. \A n \in FieldNames("Catalog") : \E k \in 1 .. 2 : t[k][2] = n
  BY <1>1, <1>3, FieldsAre
<1>8. Len(t) = 2
  BY <1>3
<1> QED
  BY <1>2, <1>5, <1>6, <1>7, <1>8 DEF WritesOnce

\* The writers of all classes do.
LEMMA WrittenOnce == \A c \in Classes : WritesOnce(c)
BY ClassesAre, RecordFieldOnce, EnumValueOnce, TypeOnce, ValueOnce, ExportOnce, CatalogOnce DEF ClassNames

-------------------------------------------------------------------------------
(* What a field may be, and what merging makes of it.                        *)

\* How field n of class c, f by the descriptor, is held by a member of a kind.
ShapeIs(c, n, f, kind) ==
  \/ kind = "string" /\ f.type = "string" /\ Meaning(f) = Text /\ n \notin Below(c) /\ ~ IsMessage(f) /\ ~ f.repeated
  \/ kind = "string" /\ f.type = "bytes" /\ Meaning(f) = Seq(Byte) /\ n \notin Below(c) /\ ~ IsMessage(f) /\ ~ f.repeated
  \/ /\ kind = "number" /\ f.type \in {"int32", "enum"} /\ Meaning(f) = Int32
     /\ n \notin Below(c) /\ ~ IsMessage(f) /\ ~ f.repeated
  \/ kind = "bool" /\ f.type = "bool" /\ Meaning(f) = BOOLEAN /\ n \notin Below(c) /\ ~ IsMessage(f) /\ ~ f.repeated
  \/ /\ kind = "numbers" /\ f.type = "int32" /\ Meaning(f) = Seq(Int32)
     /\ n \notin Below(c) /\ ~ IsMessage(f) /\ f.repeated
  \/ /\ kind = "pointer" /\ f.type = "Value" /\ Meaning(f) = AtMostOne(AllContents["Value"])
     /\ n \in Below(c) /\ IsMessage(f) /\ ~ f.repeated
  \/ /\ kind = "messages" /\ f.type \in Classes /\ Meaning(f) = Seq(AllContents[f.type])
     /\ n \in Below(c) /\ IsMessage(f) /\ f.repeated

\* The only message that a member points to is a Value.
LEMMA PointersAreValues ==
  ASSUME NEW c \in Classes, NEW n \in FieldNames(c), Kind(c, n) = "pointer"
  PROVE  ClassBelow(c, n) = "Value"
<1>1. n \in Below(c)
  BY FieldsAreMembers DEF Below, IsBelow
<1>2. c \in {"RecordField", "Export"}
  <2>1. c \notin {"EnumValue", "Value"}
    BY <1>1, BelowAre
  <2>2. c # "Type"
    BY <1>1, BelowAre, TypeKindsAre
  <2>3. c # "Catalog"
    BY <1>1, BelowAre, CatalogKindsAre
  <2> QED
    BY <2>1, <2>2, <2>3, ClassesAre DEF ClassNames
<1> QED
  BY <1>1, <1>2, BelowAre, ClassesBelow

\* Every member holds what its field is by the descriptor.
LEMMA ShapesAre ==
  ASSUME NEW c \in Classes, NEW n \in FieldNames(c)
  PROVE  ShapeIs(c, n, Schema[c][n], Kind(c, n)) /\ Absent(Schema[c][n]) = Default(Kind(c, n))
<1>1. PICK f, kind, d : f = Schema[c][n] /\ kind = Kind(c, n) /\ d = ClassBelow(c, n)
  OBVIOUS
<1>2. Describes(f, kind, d) /\ n \in MemberNames(c)
  BY <1>1, SchemaDescribes, FieldsAreMembers
<1>3. n \in Below(c) <=> kind \in {"pointer", "messages"}
  BY <1>1, <1>2 DEF Below, IsBelow
<1>4. n \in Below(c) <=> IsMessage(f)
  BY <1>1, BelowIsMessage
<1>5. Classes = ClassNames /\ \A e \in ClassNames : AllContents[e] = Contents(e)
  BY ClassesAre DEF AllContents
<1>6. kind = "pointer" => d = "Value"
  BY <1>1, PointersAreValues
<1>7. ShapeIs(c, n, f, kind)
  <2>1. CASE f.type = "string" /\ kind = "string" /\ ~ f.repeated
    <3>1. Meaning(f) = Text
      BY <2>1 DEF Meaning, ClassNames
    <3> QED
      BY <1>3, <1>4, <2>1, <3>1 DEF ShapeIs
  <2>2. CASE f.type = "bytes" /\ kind = "string" /\ ~ f.repeated
    <3>1. Meaning(f) = Seq(Byte)
      BY <2>2 DEF Meaning, ClassNames
    <3> QED
      BY <1>3, <1>4, <2>2, <3>1 DEF ShapeIs
  <2>3. CASE f.type \in {"int32", "enum"} /\ kind = "number" /\ ~ f.repeated
    <3>1. Meaning(f) = Int32
      BY <2>3 DEF Meaning, ClassNames
    <3> QED
      BY <1>3, <1>4, <2>3, <3>1 DEF ShapeIs
  <2>4. CASE f.type = "bool" /\ kind = "bool" /\ ~ f.repeated
    <3>1. Meaning(f) = BOOLEAN
      BY <2>4 DEF Meaning, ClassNames
    <3> QED
      BY <1>3, <1>4, <2>4, <3>1 DEF ShapeIs
  <2>5. CASE f.type = "int32" /\ kind = "numbers" /\ f.repeated
    <3>1. Meaning(f) = Seq(Int32)
      BY <2>5 DEF Meaning, ClassNames
    <3> QED
      BY <1>3, <1>4, <2>5, <3>1 DEF ShapeIs
  <2>6. CASE f.type \in ClassNames /\ f.type = d /\ kind = "pointer" /\ ~ f.repeated
    <3>1. Meaning(f) = AtMostOne(AllContents[f.type])
      BY <1>5, <2>6 DEF Meaning, ClassNames
    <3> QED
      BY <1>3, <1>4, <1>5, <1>6, <2>6, <3>1 DEF ShapeIs
  <2>7. CASE f.type \in ClassNames /\ f.type = d /\ kind = "messages" /\ f.repeated
    <3>1. Meaning(f) = Seq(AllContents[f.type])
      BY <1>5, <2>7 DEF Meaning, ClassNames
    <3> QED
      BY <1>3, <1>4, <1>5, <1>6, <2>7, <3>1 DEF ShapeIs
  <2> QED
    BY <1>2, <2>1, <2>2, <2>3, <2>4, <2>5, <2>6, <2>7 DEF Describes
<1> QED
  BY <1>1, <1>7, AbsentIs

\* An absent field has a value.
LEMMA AbsentMeans ==
  ASSUME NEW c \in Classes, NEW n \in FieldNames(c)
  PROVE  Absent(Schema[c][n]) \in Meaning(Schema[c][n])
<1>1. PICK f, kind : f = Schema[c][n] /\ kind = Kind(c, n)
  OBVIOUS
<1>2. ShapeIs(c, n, f, kind) /\ Absent(f) = Default(kind)
  BY <1>1, ShapesAre
<1>3. 0 \in Int32
  BY Int32Is, MaxIntIs, SMT
<1>4. << >> \in Text
  <2>1. << >> \in Seq(Byte) /\ Len(<< >>) = 0
    BY EmptySeq
  <2> QED
    BY <2>1 DEF Text, VerifyUtf8String
<1>5. << >> \in Seq(Byte) /\ << >> \in Seq(Int32)
  BY EmptySeq
<1>6. \A A : << >> \in Seq(A) /\ << >> \in AtMostOne(A)
  BY EmptySeq DEF AtMostOne
<1>7. CASE kind = "bool"
  <2>1. Meaning(f) = BOOLEAN
    BY <1>2, <1>7 DEF ShapeIs
  <2>2. Absent(f) = FALSE
    BY <1>2, <1>7, DefaultIs, Zenon
  <2>3. FALSE \in BOOLEAN
    OBVIOUS
  <2> QED
    BY <1>1, <2>1, <2>2, <2>3, Zenon
<1>8. CASE kind = "number"
  BY <1>1, <1>2, <1>3, <1>8, DefaultIs DEF ShapeIs
<1>9. CASE kind = "string"
  <2>1. Absent(f) = << >>
    BY <1>2, <1>9, DefaultIs
  <2>2. Meaning(f) \in {Text, Seq(Byte)}
    BY <1>2, <1>9 DEF ShapeIs
  <2>3. << >> \in Meaning(f)
    BY <1>4, <1>5, <2>2
  <2> QED
    BY <1>1, <2>1, <2>3
<1>10. CASE kind \in {"numbers", "pointer", "messages"}
  <2>1. Absent(f) = << >>
    BY <1>2, <1>10, DefaultIs
  <2>2. << >> \in Meaning(f)
    BY <1>2, <1>5, <1>6, <1>10 DEF ShapeIs
  <2> QED
    BY <1>1, <2>1, <2>2
<1> QED
  BY <1>2, <1>7, <1>8, <1>9, <1>10 DEF ShapeIs

\* What merging makes of a field.
MergedAs(f, to, from) ==
  IF from = Absent(f) THEN to
  ELSE IF f.repeated THEN to \o from
  ELSE IF IsMessage(f) /\ to # << >> THEN << MergedScalars(f.type, to[1], from[1]) >>
  ELSE from

\* Merging goes field by field.
LEMMA MergedIs ==
  ASSUME NEW c, NEW a, NEW x
  PROVE  Merged(c, a, x) = [n \in FieldNames(c) |-> MergedAs(Schema[c][n], a[n], x[n])]
<1>1. ASSUME NEW n \in FieldNames(c)
      PROVE  (LET f == Schema[c][n]
              IN  CASE x[n] = Absent(f) -> a[n]
                    [] x[n] # Absent(f) /\ f.repeated -> a[n] \o x[n]
                    [] x[n] # Absent(f) /\ ~ f.repeated ->
                         IF IsMessage(f) /\ a[n] # << >>
                         THEN << MergedScalars(f.type, a[n][1], x[n][1]) >>
                         ELSE x[n])
             = MergedAs(Schema[c][n], a[n], x[n])
  <2>1. CASE x[n] = Absent(Schema[c][n])
    BY <2>1 DEF MergedAs
  <2>2. CASE x[n] # Absent(Schema[c][n])
    BY <2>2 DEF MergedAs
  <2> QED
    BY <2>1, <2>2
<1> QED
  BY <1>1 DEF Merged

\* Values have nothing below that merging would have to merge.
LEMMA ValueMerges ==
  ASSUME NEW a, NEW x
  PROVE  MergedScalars("Value", a, x) = Merged("Value", a, x)
<1>1. "Value" \in Classes
  BY ClassesAre DEF ClassNames
<1>2. ASSUME NEW n \in FieldNames("Value")
      PROVE  (IF x[n] = Absent(Schema["Value"][n]) THEN a[n] ELSE x[n]) = MergedAs(Schema["Value"][n], a[n], x[n])
  <2>1. Kind("Value", n) \in {"string", "number"}
    BY FieldsAre, ValueKindsAre
  <2>2. ~ Schema["Value"][n].repeated /\ ~ IsMessage(Schema["Value"][n])
    BY <1>1, <2>1, ShapesAre DEF ShapeIs
  <2> QED
    BY <2>2 DEF MergedAs
<1> QED
  BY <1>2, MergedIs DEF MergedScalars

\* Merging two contents of Value makes one.
LEMMA ValueMergedType ==
  ASSUME NEW a \in AllContents["Value"], NEW x \in AllContents["Value"]
  PROVE  Merged("Value", a, x) \in AllContents["Value"]
<1>1. "Value" \in Classes
  BY ClassesAre DEF ClassNames
<1>2. PICK b : b = Merged("Value", a, x)
  OBVIOUS
<1>3. b = [n \in FieldNames("Value") |-> MergedAs(Schema["Value"][n], a[n], x[n])]
  BY <1>2, MergedIs
<1>4. ASSUME NEW n \in FieldNames("Value") PROVE b[n] \in Meaning(Schema["Value"][n])
  <2>1. Kind("Value", n) \in {"string", "number"}
    BY FieldsAre, ValueKindsAre
  <2>2. ~ Schema["Value"][n].repeated /\ ~ IsMessage(Schema["Value"][n])
    BY <1>1, <2>1, ShapesAre DEF ShapeIs
  <2>3. a[n] \in Meaning(Schema["Value"][n]) /\ x[n] \in Meaning(Schema["Value"][n])
    BY <1>1, ContentsByField
  <2> QED
    BY <1>3, <2>2, <2>3 DEF MergedAs
<1>5. b = [n \in FieldNames("Value") |-> b[n]]
  BY <1>3
<1> QED
  BY <1>1, <1>2, <1>4, <1>5, ContentsByField

\* Merging two values of a field makes one.
LEMMA MergedMeans ==
  ASSUME NEW c \in Classes, NEW n \in FieldNames(c),
         NEW to \in Meaning(Schema[c][n]), NEW from \in Meaning(Schema[c][n])
  PROVE  MergedAs(Schema[c][n], to, from) \in Meaning(Schema[c][n])
<1>1. PICK f, kind, v : f = Schema[c][n] /\ kind = Kind(c, n) /\ v = MergedAs(f, to, from)
  OBVIOUS
<1>2. ShapeIs(c, n, f, kind)
  BY <1>1, ShapesAre
<1>3. CASE ~ f.repeated /\ ~ IsMessage(f)
  BY <1>1, <1>3 DEF MergedAs
<1>4. CASE f.repeated
  <2>1. PICK A : Meaning(f) = Seq(A)
    BY <1>2, <1>4 DEF ShapeIs
  <2>2. to \o from \in Seq(A)
    BY <1>1, <2>1, ConcatProperties
  <2> QED
    BY <1>1, <1>4, <2>1, <2>2 DEF MergedAs
<1>5. CASE ~ f.repeated /\ IsMessage(f)
  <2>1. PICK A : A = AllContents["Value"]
    OBVIOUS
  <2>2. Meaning(f) = AtMostOne(A) /\ f.type = "Value" /\ kind = "pointer"
    BY <1>2, <1>5, <2>1 DEF ShapeIs
  <2>3. Absent(f) = << >>
    BY <1>1, <2>2, ShapesAre, DefaultIs
  <2>4. CASE from = << >> \/ to = << >>
    BY <1>1, <1>5, <2>3, <2>4 DEF MergedAs
  <2>5. CASE from # << >> /\ to # << >>
    <3>1. from[1] \in A /\ to[1] \in A
      BY <1>1, <2>2, <2>5, PointerIs
    <3>2. MergedScalars("Value", to[1], from[1]) \in A
      BY <2>1, <3>1, ValueMerges, ValueMergedType
    <3>3. v = << MergedScalars("Value", to[1], from[1]) >>
      BY <1>1, <1>5, <2>2, <2>3, <2>5 DEF MergedAs
    <3> QED
      BY <1>1, <2>2, <3>2, <3>3, OneIs
  <2> QED
    BY <2>4, <2>5
<1> QED
  BY <1>1, <1>3, <1>4, <1>5

\* Merging two contents of a class makes one.
LEMMA MergedType ==
  ASSUME NEW c \in Classes, NEW a \in AllContents[c], NEW x \in AllContents[c]
  PROVE  Merged(c, a, x) \in AllContents[c]
<1>1. PICK b : b = Merged(c, a, x)
  OBVIOUS
<1>2. b = [n \in FieldNames(c) |-> MergedAs(Schema[c][n], a[n], x[n])]
  BY <1>1, MergedIs
<1>3. ASSUME NEW n \in FieldNames(c) PROVE b[n] \in Meaning(Schema[c][n])
  <2>1. a[n] \in Meaning(Schema[c][n]) /\ x[n] \in Meaning(Schema[c][n])
    BY ContentsByField
  <2> QED
    BY <1>2, <2>1, MergedMeans
<1>4. b = [n \in FieldNames(c) |-> b[n]]
  BY <1>2
<1> QED
  BY <1>1, <1>3, <1>4, ContentsByField

\* Merging into an empty content is copying.
LEMMA MergedIntoNothing ==
  ASSUME NEW c \in Classes
  PROVE  Empty(c) \in AllContents[c] /\ \A x \in AllContents[c] : Merged(c, Empty(c), x) = x
<1>1. PICK a : a = Empty(c)
  OBVIOUS
<1>2. a = [n \in FieldNames(c) |-> Absent(Schema[c][n])]
  BY <1>1 DEF Empty
<1>3. a \in AllContents[c]
  <2>1. \A n \in FieldNames(c) : a[n] \in Meaning(Schema[c][n])
    BY <1>2, AbsentMeans
  <2>2. a = [n \in FieldNames(c) |-> a[n]]
    BY <1>2
  <2> QED
    BY <2>1, <2>2, ContentsByField
<1>4. ASSUME NEW x \in AllContents[c] PROVE Merged(c, a, x) = x
  <2>1. ASSUME NEW n \in FieldNames(c) PROVE MergedAs(Schema[c][n], a[n], x[n]) = x[n]
    <3>1. PICK f, kind : f = Schema[c][n] /\ kind = Kind(c, n)
      OBVIOUS
    <3>2. ShapeIs(c, n, f, kind) /\ Absent(f) = Default(kind) /\ a[n] = Absent(f)
      BY <1>2, <3>1, ShapesAre
    <3>3. x[n] \in Meaning(f)
      BY <3>1, ContentsByField
    <3>4. CASE x[n] = Absent(f)
      BY <3>1, <3>2, <3>4 DEF MergedAs
    <3>5. CASE x[n] # Absent(f) /\ f.repeated
      <4>1. a[n] = << >>
        BY <3>2, <3>5, DefaultIs DEF ShapeIs
      <4>2. PICK A : x[n] \in Seq(A)
        BY <3>2, <3>3, <3>5 DEF ShapeIs
      <4>3. << >> \o x[n] = x[n]
        BY <4>2, ConcatEmptySeq
      <4> QED
        BY <3>1, <3>5, <4>1, <4>3 DEF MergedAs
    <3>6. CASE x[n] # Absent(f) /\ ~ f.repeated /\ IsMessage(f)
      <4>1. a[n] = << >>
        BY <3>2, <3>6, DefaultIs DEF ShapeIs
      <4> QED
        BY <3>1, <3>6, <4>1 DEF MergedAs
    <3>7. CASE x[n] # Absent(f) /\ ~ f.repeated /\ ~ IsMessage(f)
      BY <3>1, <3>7 DEF MergedAs
    <3> QED
      BY <3>4, <3>5, <3>6, <3>7
  <2>2. Merged(c, a, x) = [n \in FieldNames(c) |-> x[n]]
    BY <2>1, MergedIs
  <2>3. x = [n \in FieldNames(c) |-> x[n]]
    BY ContentsByField
  <2> QED
    BY <2>2, <2>3
<1> QED
  BY <1>1, <1>3, <1>4

-------------------------------------------------------------------------------
(* Reading the fields that the classes write.                                *)

\* The tag of a field.
Tag(c, n, wire) == MakeTag(Schema[c][n].number, wire)

\* The wire type is read back from a tag.
LEMMA TagIs ==
  ASSUME NEW number \in Nat, NEW wire \in {VARINT, LENGTH_DELIMITED}
  PROVE  WireType(MakeTag(number, wire)) = wire
BY SMT DEF WireType, MakeTag, VARINT, LENGTH_DELIMITED

\* A tag means its field and no other.
LEMMA TagMeans ==
  ASSUME NEW c \in Classes, NEW n \in FieldNames(c), NEW wire \in Wires(Schema[c][n])
  PROVE  /\ Tag(c, n, wire) \in Int32 /\ WireType(Tag(c, n, wire)) = wire
         /\ FieldNumber(Tag(c, n, wire)) # 0 /\ Meant(c, Tag(c, n, wire)) = {n}
<1>1. PICK tag : tag = Tag(c, n, wire)
  OBVIOUS
<1>2. PICK p \in Parsed[c] : p[1] = tag /\ p[2] = n
  BY <1>1, EntriesCover DEF EntryFor, Tag
<1>3. EntrySound(c, p)
  BY EntriesSound
<1>4. tag \in Nat /\ tag <= Cutoff[c] /\ FieldNumber(tag) = Schema[c][n].number
  BY <1>2, <1>3 DEF EntrySound
<1>5. Known(c, tag)
  BY <1>2, <1>4 DEF Known
<1>6. Entry(c, tag) = p
  BY <1>2, <1>5, EntryIs, EntriesDiffer
<1>7. Meant(c, tag) = {n}
  BY <1>2, <1>4, <1>5, <1>6, MeantIs
<1>8. tag \in Int32
  <2>1. Cutoff[c] \in {127, 16383}
    BY CutoffsAre, ClassesAre DEF ClassNames
  <2> QED
    BY <1>4, <2>1, Int32Is, MaxIntIs, SMT
<1>9. Schema[c][n].number \in Nat \ {0}
  BY FieldsHaveNumbers
<1>10. WireType(tag) = wire
  <2>1. n \in Meant(c, tag)
    BY <1>7
  <2>2. wire \in {VARINT, LENGTH_DELIMITED}
    <3>1. Describes(Schema[c][n], Kind(c, n), ClassBelow(c, n))
      BY SchemaDescribes
    <3>2. Schema[c][n].type \in {"string", "bytes", "int32", "enum", "bool"} \/ IsMessage(Schema[c][n])
      BY <3>1, ClassesAre DEF Describes, IsMessage
    <3> QED
      BY <3>2, WiresAre
  <2> QED
    BY <1>1, <1>9, <2>2, TagIs DEF Tag
<1> QED
  BY <1>1, <1>4, <1>7, <1>8, <1>9, <1>10

\* A field that is read has this value then.
Taken(v) == [ok |-> TRUE, value |-> v]

\* A decoded value becomes the value of its field.
LEMMA UpdatedIs ==
  ASSUME NEW a, NEW n, NEW v
  PROVE  Updated(Reading(a), n, Taken(v)) = Reading([a EXCEPT ![n] = v])
<1>1. PICK st, d : st = Reading(a) /\ d = Taken(v)
  OBVIOUS
<1>2. st.ok = TRUE /\ d.ok = TRUE
  BY <1>1, Zenon DEF Reading, Taken
<1>3. st.content = a /\ d.value = v
  BY <1>1 DEF Reading, Taken
<1>4. (st.ok /\ d.ok) = TRUE
  BY <1>2, Zenon
<1>5. Updated(st, n, d) = [ok |-> TRUE, content |-> [a EXCEPT ![n] = v]]
  BY <1>3, <1>4, Zenon DEF Updated
<1> QED
  BY <1>1, <1>5 DEF Reading

\* The field n of a message is one of the bytes u, which say v.
Carries(c, n, wire, u, f) == wire \in Wires(Schema[c][n]) /\ Whole(u, f) /\ f.tag = Tag(c, n, wire)

\* A field that is decoded to a value yields it.
LEMMA FieldDecodes ==
  ASSUME NEW c \in Classes, NEW n \in FieldNames(c), NEW wire, NEW u, NEW f, Carries(c, n, wire, u, f),
         NEW a, NEW v,
         Decoded(Schema[c][n], a[n], f, DecodeInto(Schema[c][n].type, Started(Schema[c][n], a[n]), f.bytes)) = Taken(v)
  PROVE  Yields(c, a, u, [a EXCEPT ![n] = v])
<1>1. wire \in Wires(Schema[c][n]) /\ Whole(u, f) /\ f.tag = Tag(c, n, wire) /\ f.sound
  BY DEF Carries, Whole
<1>2. Meant(c, f.tag) = {n} /\ FieldNumber(f.tag) # 0
  BY <1>1, TagMeans
<1>3. PICK st : st = Reading(a)
  OBVIOUS
<1>4. st.content = a
  BY <1>3 DEF Reading
<1>5. TheField(c, f) = n
  BY <1>2 DEF TheField
<1>6. Beneath(c, st, f) = DecodeInto(Schema[c][n].type, Started(Schema[c][n], a[n]), f.bytes)
  BY <1>4, <1>5 DEF Beneath
<1>7. DecodeField(c, st, f, Beneath(c, st, f)) = Updated(st, n, Taken(v))
  <2>1. PICK sub : sub = Beneath(c, st, f)
    OBVIOUS
  <2>2. Meant(c, f.tag) # {}
    BY <1>2
  <2>3. (CHOOSE k \in Meant(c, f.tag) : TRUE) = n
    BY <1>5 DEF TheField
  <2>4. DecodeField(c, st, f, sub) = Updated(st, n, Decoded(Schema[c][n], st.content[n], f, sub))
    BY <1>1, <1>2, <2>2, <2>3 DEF DecodeField
  <2> QED
    BY <1>4, <1>6, <2>1, <2>4
<1>8. Updated(st, n, Taken(v)) = Reading([a EXCEPT ![n] = v])
  BY <1>3, UpdatedIs
<1> QED
  BY <1>1, <1>3, <1>7, <1>8, FieldYields

\* A number written is the number read.
LEMMA NumberYields ==
  ASSUME NEW c \in Classes, NEW n \in FieldNames(c), Kind(c, n) = "number", NEW a, NEW v \in Int32
  PROVE  Yields(c, a, Varint(Tag(c, n, VARINT)) \o Varint(v), [a EXCEPT ![n] = v])
<1>1. PICK g, s : g = Schema[c][n] /\ s = Varint(Tag(c, n, VARINT)) \o Varint(v)
  OBVIOUS
<1>2. g.type \in {"int32", "enum"} /\ ~ g.repeated /\ ~ IsMessage(g)
  BY <1>1, ShapesAre DEF ShapeIs
<1>3. VARINT \in Wires(g)
  BY <1>2, WiresAre
<1>4. PICK f : Whole(s, f) /\ f.tag = Tag(c, n, VARINT) /\ f.value = v
  BY <1>1, <1>3, TagMeans, NumberField
<1>5. Carries(c, n, VARINT, s, f)
  BY <1>1, <1>3, <1>4 DEF Carries
<1>6. ASSUME NEW sub PROVE Decoded(g, a[n], f, sub) = Taken(v)
  BY <1>2, <1>4, Zenon DEF Decoded, Taken
<1> QED
  BY <1>1, <1>5, <1>6, FieldDecodes

\* A boolean is written if it is true, and read as it.
LEMMA BoolYields ==
  ASSUME NEW c \in Classes, NEW n \in FieldNames(c), Kind(c, n) = "bool", NEW a
  PROVE  Yields(c, a, Varint(Tag(c, n, VARINT)) \o << 1 >>, [a EXCEPT ![n] = TRUE])
<1>1. PICK g, s : g = Schema[c][n] /\ s = Varint(Tag(c, n, VARINT)) \o << 1 >>
  OBVIOUS
<1>2. g.type = "bool" /\ ~ g.repeated /\ ~ IsMessage(g)
  BY <1>1, ShapesAre DEF ShapeIs
<1>3. VARINT \in Wires(g)
  BY <1>2, WiresAre
<1>4. 1 \in Int32 /\ Varint(1) = << 1 >>
  <2>1. 1 \in Int32
    BY Int32Is, MaxIntIs, SMT
  <2>2. GroupCount(1) = 1
    BY GroupCountIs, SMT DEF Int32Size
  <2>3. Group(1, 1) = 1
    BY Weights, SMT DEF Group
  <2>4. Varint(1) = [k \in 1 .. 1 |-> Group(1, k) + (IF k < 1 THEN 128 ELSE 0)]
    BY <2>2 DEF Varint
  <2>5. ASSUME NEW k \in 1 .. 1 PROVE Group(1, k) + (IF k < 1 THEN 128 ELSE 0) = 1
    BY <2>3, SMT
  <2>6. Varint(1) = [k \in 1 .. 1 |-> 1]
    BY <2>4, <2>5
  <2>7. << 1 >> = [k \in 1 .. 1 |-> 1]
    OBVIOUS
  <2> QED
    BY <2>1, <2>6, <2>7
<1>5. PICK f : Whole(s, f) /\ f.tag = Tag(c, n, VARINT) /\ f.bytes = << 1 >>
  <2>1. \E f : Whole(Varint(Tag(c, n, VARINT)) \o Varint(1), f) /\ f.tag = Tag(c, n, VARINT) /\ f.value = 1 /\ f.bytes = Varint(1)
    BY <1>1, <1>3, <1>4, TagMeans, NumberField
  <2> QED
    BY <1>1, <1>4, <2>1
<1>6. Carries(c, n, VARINT, s, f)
  BY <1>1, <1>3, <1>5 DEF Carries
<1>7. PICK yes : yes = (\E k \in 1 .. Len(f.bytes) : f.bytes[k] \notin {0, 128})
  OBVIOUS
<1>8. yes = TRUE
  <2>1. Len(f.bytes) = 1 /\ f.bytes[1] = 1
    BY <1>5
  <2>2. 1 \in 1 .. Len(f.bytes) /\ f.bytes[1] \notin {0, 128}
    BY <2>1
  <2> QED
    BY <1>7, <2>2, Zenon
<1>9. ASSUME NEW sub PROVE Decoded(g, a[n], f, sub) = Taken(TRUE)
  <2>1. Decoded(g, a[n], f, sub) = [ok |-> TRUE, value |-> yes]
    BY <1>2, <1>7, Zenon DEF Decoded
  <2> QED
    BY <1>8, <2>1, Zenon DEF Taken
<1> QED
  BY <1>1, <1>6, <1>9, FieldDecodes

\* The field n with the bytes b.
LEMMA BytesCarry ==
  ASSUME NEW c \in Classes, NEW n \in FieldNames(c), LENGTH_DELIMITED \in Wires(Schema[c][n]),
         NEW b \in Seq(Byte), Len(b) <= MaxInt
  PROVE  \E f : /\ Carries(c, n, LENGTH_DELIMITED, LengthDelimited(Schema[c][n].number, Len(b), b), f)
                /\ f.bytes = b
<1>1. PICK m, s : m = Schema[c][n].number /\ s = LengthDelimited(m, Len(b), b)
  OBVIOUS
<1>2. MakeTag(m, LENGTH_DELIMITED) \in Int32 /\ WireType(MakeTag(m, LENGTH_DELIMITED)) = LENGTH_DELIMITED
  BY <1>1, TagMeans DEF Tag
<1>3. PICK f : Whole(s, f) /\ f.tag = MakeTag(m, LENGTH_DELIMITED) /\ f.bytes = b
  <2>1. \E f : Whole(LengthDelimited(m, Len(b), b), f) /\ f.tag = MakeTag(m, LENGTH_DELIMITED) /\ f.bytes = b
    BY <1>2, BytesField
  <2> QED
    BY <1>1, <2>1
<1>4. Carries(c, n, LENGTH_DELIMITED, s, f)
  BY <1>1, <1>3 DEF Carries, Tag
<1> QED
  BY <1>1, <1>3, <1>4

\* A string written is the string read.
LEMMA StringYields ==
  ASSUME NEW c \in Classes, NEW n \in FieldNames(c), Kind(c, n) = "string", NEW a,
         NEW v \in Meaning(Schema[c][n]), Len(v) <= MaxInt
  PROVE  Yields(c, a, LengthDelimited(Schema[c][n].number, Len(v), v), [a EXCEPT ![n] = v])
<1>1. PICK g, s : g = Schema[c][n] /\ s = LengthDelimited(Schema[c][n].number, Len(v), v)
  OBVIOUS
<1>2. /\ (g.type = "string" /\ v \in Text) \/ (g.type = "bytes" /\ v \in Seq(Byte))
      /\ ~ g.repeated /\ ~ IsMessage(g)
  BY <1>1, ShapesAre DEF ShapeIs
<1>3. LENGTH_DELIMITED \in Wires(g) /\ v \in Seq(Byte)
  BY <1>2, WiresAre, TextIs
<1>4. PICK f : Carries(c, n, LENGTH_DELIMITED, s, f) /\ f.bytes = v
  <2>1. \E f : /\ Carries(c, n, LENGTH_DELIMITED, LengthDelimited(Schema[c][n].number, Len(v), v), f)
               /\ f.bytes = v
    BY <1>1, <1>3, BytesCarry
  <2> QED
    BY <1>1, <2>1
<1>5. ASSUME NEW sub PROVE Decoded(g, a[n], f, sub) = Taken(v)
  <2>1. CASE g.type = "bytes"
    BY <1>2, <1>4, <2>1, Zenon DEF Decoded, Taken
  <2>2. CASE g.type = "string"
    <3>1. VerifyUtf8String(v) = TRUE
      <4>1. v \in Text
        BY <1>2, <2>2
      <4>2. VerifyUtf8String(v)
        BY <4>1 DEF Text
      <4>3. VerifyUtf8String(v) \in BOOLEAN
        BY Zenon DEF VerifyUtf8String
      <4> QED
        BY <4>2, <4>3, Zenon
    <3>2. Decoded(g, a[n], f, sub) = [ok |-> VerifyUtf8String(v), value |-> v]
      BY <1>2, <1>4, <2>2, Zenon DEF Decoded
    <3> QED
      BY <3>1, <3>2, Zenon DEF Taken
  <2> QED
    BY <1>2, <2>1, <2>2
<1> QED
  BY <1>1, <1>4, <1>5, FieldDecodes

\* What reading the bytes of a message below makes of the field that it is in.
With(f, old, z) == IF f.repeated THEN Append(old, z) ELSE << z >>

\* A message below is read from its bytes and no others.
LEMMA MessageYields ==
  ASSUME NEW c \in Classes, NEW n \in Below(c), NEW a, NEW b \in Seq(Byte), Len(b) <= MaxInt, NEW z,
         DecodeInto(ClassBelow(c, n), Started(Schema[c][n], a[n]), b) = Reading(z)
  PROVE  Yields(c, a, LengthDelimited(Schema[c][n].number, Len(b), b),
                [a EXCEPT ![n] = With(Schema[c][n], a[n], z)])
<1>1. PICK g, s : g = Schema[c][n] /\ s = LengthDelimited(Schema[c][n].number, Len(b), b)
  OBVIOUS
<1>2. n \in FieldNames(c)
  BY FieldsAreMembers
<1>3. IsMessage(g) /\ g.type = ClassBelow(c, n)
  BY <1>1, <1>2, BelowIsMessage
<1>4. LENGTH_DELIMITED \in Wires(g)
  BY <1>3, WiresAre
<1>5. PICK f : Carries(c, n, LENGTH_DELIMITED, s, f) /\ f.bytes = b
  <2>1. \E f : /\ Carries(c, n, LENGTH_DELIMITED, LengthDelimited(Schema[c][n].number, Len(b), b), f)
               /\ f.bytes = b
    BY <1>1, <1>2, <1>4, BytesCarry
  <2> QED
    BY <1>1, <2>1
<1>6. Decoded(g, a[n], f, Reading(z)) = Taken(With(g, a[n], z))
  <2>1. PICK sub : sub = Reading(z)
    OBVIOUS
  <2>2. sub.ok = TRUE
    BY <2>1, Zenon DEF Reading
  <2>3. sub.content = z
    BY <2>1 DEF Reading
  <2>4. Decoded(g, a[n], f, sub) = [ok |-> sub.ok, value |-> IF g.repeated THEN Append(a[n], sub.content) ELSE << sub.content >>]
    <3>1. g.type \in ClassNames
      BY <1>3, ClassesAre DEF IsMessage
    <3>2. g.type \notin {"string", "bytes", "int32", "enum", "bool"}
      BY <3>1 DEF ClassNames
    <3> QED
      BY <1>3, <3>2, Zenon DEF Decoded
  <2>5. With(g, a[n], z) = IF g.repeated THEN Append(a[n], sub.content) ELSE << sub.content >>
    BY <2>3 DEF With
  <2> QED
    BY <2>1, <2>2, <2>4, <2>5, Zenon DEF Taken
<1>7. DecodeInto(g.type, Started(g, a[n]), f.bytes) = Reading(z)
  BY <1>1, <1>3, <1>5
<1> QED
  BY <1>1, <1>2, <1>5, <1>6, <1>7, FieldDecodes

-------------------------------------------------------------------------------
(* Packed numbers come back from their bytes.                                *)

\* The first k elements of s.
First(s, k) == SubSeq(s, 1, k)

\* They grow by one element at a time.
LEMMA FirstIs ==
  ASSUME NEW A, NEW s \in Seq(A)
  PROVE  /\ First(s, 0) = << >> /\ First(s, Len(s)) = s
         /\ \A k \in 1 .. Len(s) : /\ First(s, k) = First(s, k - 1) \o << s[k] >>
                                   /\ First(s, k) = Append(First(s, k - 1), s[k])
                                   /\ First(s, k - 1) \in Seq(A) /\ s[k] \in A
<1>1. First(s, 0) = << >>
  BY SubSeqEmpty DEF First
<1>2. First(s, Len(s)) = s
  BY SubSeqFull DEF First
<1>3. ASSUME NEW k \in 1 .. Len(s)
      PROVE  /\ First(s, k) = First(s, k - 1) \o << s[k] >>
             /\ First(s, k) = Append(First(s, k - 1), s[k])
             /\ First(s, k - 1) \in Seq(A) /\ s[k] \in A
  <2>1. s[k] \in A /\ Len(s) \in Nat
    BY ElementOfSeq
  <2>2. ASSUME NEW l \in 0 .. Len(s)
        PROVE  First(s, l) \in Seq(A) /\ Len(First(s, l)) = l /\ \A i \in 1 .. l : First(s, l)[i] = s[i]
    <3>1. l \in Nat /\ l <= Len(s) /\ \A i \in 1 .. l : i \in 1 .. Len(s)
      BY <2>1
    <3>2. \A i \in 1 .. l : s[i] \in A
      BY <3>1, ElementOfSeq
    <3>3. First(s, l) = [i \in 1 .. l |-> s[i]]
      <4>1. First(s, l) = [i \in 1 .. (1 + l - 1) |-> s[i + 1 - 1]]
        BY <2>1, <3>1, SMT DEF First
      <4>2. 1 + l - 1 = l /\ \A i \in 1 .. l : i + 1 - 1 = i
        BY <3>1
      <4> QED
        BY <4>1, <4>2
    <3> QED
      BY <3>1, <3>2, <3>3
  <2>3. PICK a, b : a = First(s, k - 1) /\ b = First(s, k)
    OBVIOUS
  <2>4. k \in Nat /\ k - 1 \in 0 .. Len(s) /\ k \in 0 .. Len(s) /\ k - 1 \in Nat /\ (k - 1) + 1 = k
    BY <2>1
  <2>5. a \in Seq(A) /\ b \in Seq(A) /\ Len(a) = k - 1 /\ Len(b) = k
    BY <2>2, <2>3, <2>4
  <2>6. PICK e : e = Append(a, s[k])
    OBVIOUS
  <2>7. e \in Seq(A) /\ Len(e) = k /\ e[k] = s[k] /\ \A i \in 1 .. k - 1 : e[i] = a[i]
    BY <2>1, <2>4, <2>5, <2>6, AppendProperties
  <2>8. \A i \in 1 .. k : e[i] = b[i]
    <3>1. \A i \in 1 .. k - 1 : e[i] = s[i]
      BY <2>2, <2>3, <2>4, <2>7
    <3>2. \A i \in 1 .. k : b[i] = s[i]
      BY <2>2, <2>3, <2>4
    <3>3. \A i \in 1 .. k : i = k \/ i \in 1 .. k - 1
      BY <2>4
    <3> QED
      BY <2>7, <3>1, <3>2, <3>3
  <2>9. e = b
    BY <2>4, <2>5, <2>7, <2>8, SeqEqual
  <2>10. e = a \o << s[k] >>
    BY <2>1, <2>5, <2>6, AppendIsConcat
  <2> QED
    BY <2>1, <2>3, <2>5, <2>6, <2>9, <2>10
<1> QED
  BY <1>1, <1>2, <1>3

\* The numbers z, all read.
Numbers(z) == [ok |-> TRUE, values |-> z]

\* One number and the rest, or nothing.
Taking(v, rest) ==
  IF ~ v.ok \/ ~ rest.ok THEN [ok |-> FALSE, values |-> << >>]
  ELSE [ok |-> TRUE, values |-> << v.value >> \o rest.values]

\* What taking one number does.
LEMMA TakingIs ==
  /\ \A v, rest, other : ~ v.ok => Taking(v, rest) = Taking(v, other)
  /\ \A v, z : v.ok => Taking(v, Numbers(z)) = Numbers(<< v.value >> \o z)
<1>1. ASSUME NEW v, NEW rest, NEW other, ~ v.ok PROVE Taking(v, rest) = Taking(v, other)
  BY <1>1, Zenon DEF Taking
<1>2. ASSUME NEW v, NEW z, v.ok PROVE Taking(v, Numbers(z)) = Numbers(<< v.value >> \o z)
  <2>1. PICK r : r = Numbers(z)
    OBVIOUS
  <2>2. r.ok = TRUE
    BY <2>1, Zenon DEF Numbers
  <2>3. r.values = z
    BY <2>1 DEF Numbers
  <2>4. Taking(v, r) = [ok |-> TRUE, values |-> << v.value >> \o r.values]
    BY <1>2, <2>2, Zenon DEF Taking
  <2> QED
    BY <2>1, <2>3, <2>4 DEF Numbers
<1> QED
  BY <1>1, <1>2

\* Unpacking takes one number and goes on behind it.
LEMMA NumbersTaken ==
  ASSUME NEW s \in Seq(Byte), NEW f, NumbersFrom(f, s), NEW p \in 0 .. Len(s) - 1
  PROVE  f[p] = Taking(ReadVarint(Drop(s, p)), f[p + ReadVarint(Drop(s, p)).size])
BY Zenon DEF NumbersFrom, Taking

\* A varint is unpacked first, and then what follows it.
LEMMA NumberFirst ==
  ASSUME NEW v \in Int32, NEW t \in Seq(Byte), NEW z, Unpacked(t) = Numbers(z)
  PROVE  Unpacked(Varint(v) \o t) = Numbers(<< v >> \o z)
<1>0. PICK u : u = Varint(v)
  OBVIOUS
<1>a. u \in Seq(Byte) /\ 1 <= Len(u)
  <2>1. v \in Int
    BY Int32Is
  <2>2. u \in Seq(Byte) /\ Len(u) = Int32Size(v) /\ Int32Size(v) \in 1 .. 10
    BY <1>0, <2>1, VarintType
  <2> QED
    BY <2>2
<1>1. PICK s, n, l : s = u \o t /\ n = Len(u) /\ l = Len(t)
  OBVIOUS
<1>2. s \in Seq(Byte) /\ Len(s) = n + l /\ n \in Nat /\ 1 <= n /\ l \in Nat
  BY <1>a, <1>1
<1>3. PICK g : NumbersFrom(g, s) /\ Unpacked(s) = g[0]
  BY <1>2, NumbersAreRead
<1>4. PICK h : NumbersFrom(h, t) /\ Unpacked(t) = h[0]
  BY NumbersAreRead
<1>5. PICK e : e = [p \in 0 .. l |-> g[n + p]]
  OBVIOUS
<1>6. PICK r : r = ReadVarint(s)
  OBVIOUS
<1>7. r = [ok |-> TRUE, value |-> v, size |-> n]
  BY <1>0, <1>1, <1>6, VarintReads
<1>8. r.size = n /\ r.value = v
  BY <1>7
<1>9. r.ok
  <2>1. r.ok = TRUE
    BY <1>7, Zenon
  <2> QED
    BY <2>1, Zenon
<1>10. g[0] = Taking(r, g[n])
  <2>1. 0 \in 0 .. Len(s) - 1 /\ 0 + n = n
    BY <1>2
  <2>2. Drop(s, 0) = s
    BY <1>2, DropWhole
  <2>3. g[0] = Taking(ReadVarint(Drop(s, 0)), g[0 + ReadVarint(Drop(s, 0)).size])
    BY <1>2, <1>3, <2>1, NumbersTaken
  <2> QED
    BY <1>6, <1>8, <2>1, <2>2, <2>3
<1>11. e[l] = h[l]
  <2>1. l \in 0 .. l
    BY <1>2
  <2>2. g[n + l] = Numbers(<< >>) /\ h[l] = Numbers(<< >>)
    BY <1>1, <1>2, <1>3, <1>4 DEF NumbersFrom, Numbers
  <2> QED
    BY <1>5, <2>1, <2>2
<1>12. PICK F : F = [p \in 0 .. l |-> ReadVarint(Drop(t, p))]
  OBVIOUS
<1>13. PICK next : next = [p \in 0 .. l |-> IF F[p].ok THEN p + F[p].size ELSE l]
  OBVIOUS
<1>14. ASSUME NEW p \in 0 .. l - 1
       PROVE  /\ next[p] \in 0 .. l /\ p < next[p]
              /\ e[next[p]] = h[next[p]] => e[p] = h[p]
  <2>1. p \in 0 .. l /\ p \in 0 .. Len(t) /\ n + p \in 0 .. Len(s) - 1 /\ p \in 0 .. Len(t) - 1 /\ p \in Nat /\ p < l
    BY <1>1, <1>2
  <2>2. Drop(s, n + p) = Drop(t, p)
    BY <1>a, <1>1, <1>2, <2>1, DropFirst
  <2>3. PICK a : a = F[p]
    OBVIOUS
  <2>4. a = ReadVarint(Drop(t, p)) /\ a = ReadVarint(Drop(s, n + p))
    BY <1>12, <2>1, <2>2, <2>3
  <2>5. h[p] = Taking(a, h[p + a.size])
    BY <1>4, <2>1, <2>4, NumbersTaken
  <2>6. g[n + p] = Taking(a, g[n + p + a.size])
    BY <1>2, <1>3, <2>1, <2>4, NumbersTaken
  <2>7. e[p] = g[n + p]
    BY <1>5, <2>1
  <2>8. Drop(t, p) \in Seq(Byte) /\ Len(Drop(t, p)) = l - p
    BY <1>1, <2>1, DropType
  <2>9. a.size \in 0 .. 10 /\ a.size <= l - p /\ (a.ok => 1 <= a.size)
    BY <2>4, <2>8, ReadVarintType
  <2>10. CASE a.ok
    <3>a. PICK d : d = a.size
      OBVIOUS
    <3>b. d \in Nat /\ 1 <= d /\ d <= l - p
      BY <2>9, <2>10, <3>a
    <3>1. PICK q : q = p + a.size
      OBVIOUS
    <3>2. q \in 0 .. l /\ p < q /\ n + p + a.size = n + q
      BY <1>2, <2>1, <3>a, <3>b, <3>1
    <3>3. next[p] = q /\ e[q] = g[n + q]
      BY <1>5, <1>13, <2>1, <2>3, <2>10, <3>1, <3>2
    <3> QED
      BY <2>5, <2>6, <2>7, <3>1, <3>2, <3>3
  <2>11. CASE ~ a.ok
    <3>1. next[p] = l
      BY <1>13, <2>1, <2>3, <2>11
    <3>2. l \in 0 .. l /\ p < l
      BY <1>2, <2>1
    <3>3. e[p] = h[p]
      BY <2>5, <2>6, <2>7, <2>11, TakingIs
    <3> QED
      BY <3>1, <3>2, <3>3
  <2> QED
    BY <2>10, <2>11
<1>15. AlikeFrom(e, h, l, next)
  BY <1>2, <1>11, <1>14 DEF AlikeFrom
<1>16. g[n] = Numbers(z)
  <2>1. 0 \in 0 .. l /\ n + 0 = n
    BY <1>2
  <2>2. e[0] = h[0]
    BY <1>15, <2>1, FallsAgree
  <2>3. e[0] = g[n]
    BY <1>5, <2>1
  <2> QED
    BY <1>4, <2>2, <2>3
<1>17. g[0] = Numbers(<< v >> \o z)
  BY <1>8, <1>9, <1>10, <1>16, TakingIs
<1> QED
  BY <1>0, <1>1, <1>3, <1>17

\* The numbers x are packed into the bytes s.
Unpacks(s, x) ==
  /\ s \in Seq(Byte) /\ x \in Seq(Int32)
  /\ \A t \in Seq(Byte) : \A z \in Seq(Int32) : Unpacked(t) = Numbers(z) => Unpacked(s \o t) = Numbers(x \o z)

\* Nothing is no numbers.
LEMMA UnpacksNothing == Unpacks(<< >>, << >>)
<1>1. << >> \in Seq(Byte) /\ << >> \in Seq(Int32)
  BY EmptySeq
<1>2. (\A t \in Seq(Byte) : << >> \o t = t) /\ (\A z \in Seq(Int32) : << >> \o z = z)
  BY ConcatEmptySeq
<1> QED
  BY <1>1, <1>2 DEF Unpacks

\* A varint is one number.
LEMMA UnpacksOne ==
  ASSUME NEW v \in Int32
  PROVE  Unpacks(Varint(v), << v >>)
<1>1. v \in Int
  BY Int32Is
<1>2. Varint(v) \in Seq(Byte) /\ << v >> \in Seq(Int32)
  BY <1>1, VarintType
<1> QED
  BY <1>2, NumberFirst DEF Unpacks

\* Numbers are unpacked one part after the other.
LEMMA UnpacksBoth ==
  ASSUME NEW s, NEW x, Unpacks(s, x), NEW r, NEW y, Unpacks(r, y)
  PROVE  Unpacks(s \o r, x \o y)
<1>1. /\ s \in Seq(Byte) /\ r \in Seq(Byte) /\ x \in Seq(Int32) /\ y \in Seq(Int32)
  BY DEF Unpacks
<1>2. s \o r \in Seq(Byte) /\ x \o y \in Seq(Int32)
  BY <1>1, ConcatProperties
<1>3. ASSUME NEW t \in Seq(Byte), NEW z \in Seq(Int32), Unpacked(t) = Numbers(z)
      PROVE  Unpacked((s \o r) \o t) = Numbers((x \o y) \o z)
  <2>a. (s \o r) \o t = s \o (r \o t)
    BY <1>1, ConcatAssociative
  <2>1. (x \o y) \o z = x \o (y \o z)
    BY <1>1, ConcatAssociative
  <2>2. r \o t \in Seq(Byte) /\ y \o z \in Seq(Int32)
    BY <1>1, ConcatProperties
  <2>3. Unpacked(r \o t) = Numbers(y \o z)
    BY <1>3 DEF Unpacks
  <2>4. Unpacked(s \o (r \o t)) = Numbers(x \o (y \o z))
    BY <2>2, <2>3 DEF Unpacks
  <2> QED
    BY <2>a, <2>1, <2>4
<1> QED
  BY <1>2, <1>3 DEF Unpacks

\* Packed numbers are unpacked as they are.
LEMMA PackedIs ==
  ASSUME NEW x \in Seq(Int32)
  PROVE  LET s == FlattenSeq([k \in DOMAIN x |-> Varint(x[k])])
         IN  s \in Seq(Byte) /\ Unpacked(s) = Numbers(x)
<1>1. PICK p : p = [k \in DOMAIN x |-> Varint(x[k])]
  OBVIOUS
<1>2. p \in Seq(Seq(Byte)) /\ Len(p) = Len(x)
  <2>1. \A k \in DOMAIN x : p[k] = Varint(x[k])
    BY <1>1
  <2>2. \A k \in DOMAIN x : x[k] \in Int32
    BY ElementOfSeq
  <2>3. \A k \in DOMAIN x : p[k] \in Seq(Byte)
    BY <2>1, <2>2, Int32Is, VarintType
  <2>4. p = [k \in DOMAIN x |-> p[k]]
    BY <1>1
  <2> QED
    BY <2>3, <2>4, Mapped
<1>3. PICK f : Joins(f, Byte, p) /\ FlattenSeq(p) = f[Len(p)]
  BY <1>2, FlattenJoins
<1>4. PICK S : S = {k \in 0 .. Len(x) : Unpacks(f[k], First(x, k))}
  OBVIOUS
<1>5. 0 \in S
  <2>1. 0 \in 0 .. Len(x)
    OBVIOUS
  <2> QED
    BY <1>3, <1>4, <2>1, FirstIs, UnpacksNothing DEF Joins
<1>6. ASSUME NEW k \in 1 .. Len(x), k - 1 \in S PROVE k \in S
  <2>1. Unpacks(f[k - 1], First(x, k - 1)) /\ k \in 0 .. Len(x) /\ k \in 1 .. Len(p)
    BY <1>2, <1>4, <1>6
  <2>2. p[k] = Varint(x[k]) /\ x[k] \in Int32
    BY <1>1, ElementOfSeq
  <2>3. f[k] = f[k - 1] \o Varint(x[k])
    BY <1>3, <2>1, <2>2 DEF Joins
  <2>4. First(x, k) = First(x, k - 1) \o << x[k] >>
    BY FirstIs
  <2>5. Unpacks(f[k], First(x, k))
    BY <2>1, <2>2, <2>3, <2>4, UnpacksOne, UnpacksBoth
  <2> QED
    BY <1>4, <2>1, <2>5
<1>7. Len(x) \in S
  <2>1. Len(x) \in Nat /\ Len(x) \in 0 .. Len(x)
    OBVIOUS
  <2> QED
    BY <1>5, <1>6, <2>1, UpTo
<1>8. PICK s : s = FlattenSeq(p)
  OBVIOUS
<1>9. Unpacks(s, x)
  BY <1>2, <1>3, <1>4, <1>7, <1>8, FirstIs
<1>10. Unpacked(<< >>) = Numbers(<< >>)
  <2>1. PICK e : e = << >>
    OBVIOUS
  <2>2. e \in Seq(Byte) /\ Len(e) = 0
    BY <2>1
  <2>3. PICK h : NumbersFrom(h, e) /\ Unpacked(e) = h[0]
    BY <2>2, NumbersAreRead
  <2>4. h[0] = Numbers(<< >>)
    BY <2>2, <2>3 DEF NumbersFrom, Numbers
  <2> QED
    BY <2>1, <2>3, <2>4
<1>11. Unpacked(s \o << >>) = Numbers(x \o << >>)
  <2>1. << >> \in Seq(Byte) /\ << >> \in Seq(Int32)
    BY EmptySeq
  <2> QED
    BY <1>9, <1>10, <2>1 DEF Unpacks
<1>12. s \in Seq(Byte)
  BY <1>9 DEF Unpacks
<1>13. s \o << >> = s /\ x \o << >> = x
  BY <1>12, ConcatEmptySeq
<1> QED
  BY <1>1, <1>8, <1>11, <1>12, <1>13

\* Packed numbers written are appended to those read.
LEMMA NumbersYield ==
  ASSUME NEW c \in Classes, NEW n \in FieldNames(c), Kind(c, n) = "numbers", NEW a, NEW v \in Seq(Int32),
         NEW s, s = FlattenSeq([k \in DOMAIN v |-> Varint(v[k])]), Len(s) <= MaxInt
  PROVE  Yields(c, a, LengthDelimited(Schema[c][n].number, Len(s), s), [a EXCEPT ![n] = a[n] \o v])
<1>1. PICK g, b : g = Schema[c][n] /\ b = LengthDelimited(Schema[c][n].number, Len(s), s)
  OBVIOUS
<1>2. g.type = "int32" /\ g.repeated /\ ~ IsMessage(g)
  BY <1>1, ShapesAre DEF ShapeIs
<1>3. LENGTH_DELIMITED \in Wires(g) /\ s \in Seq(Byte) /\ Unpacked(s) = Numbers(v)
  BY <1>2, WiresAre, PackedIs
<1>4. PICK f : Carries(c, n, LENGTH_DELIMITED, b, f) /\ f.bytes = s
  <2>1. \E f : /\ Carries(c, n, LENGTH_DELIMITED, LengthDelimited(Schema[c][n].number, Len(s), s), f)
               /\ f.bytes = s
    BY <1>1, <1>3, BytesCarry
  <2> QED
    BY <1>1, <2>1
<1>5. WireType(f.tag) = LENGTH_DELIMITED
  BY <1>1, <1>3, <1>4, TagMeans DEF Carries
<1>6. ASSUME NEW sub PROVE Decoded(g, a[n], f, sub) = Taken(a[n] \o v)
  <2>1. PICK u : u = Unpacked(s)
    OBVIOUS
  <2>a. u = [ok |-> TRUE, values |-> v]
    BY <1>3, <2>1 DEF Numbers
  <2>2. u.ok = TRUE
    BY <2>a, Zenon
  <2>3. u.values = v
    BY <1>3, <2>1 DEF Numbers
  <2>4. Decoded(g, a[n], f, sub) = [ok |-> u.ok, value |-> a[n] \o u.values]
    <3>1. WireType(f.tag) # VARINT
      BY <1>5 DEF VARINT, LENGTH_DELIMITED
    <3> QED
      BY <1>2, <1>4, <1>5, <2>1, <3>1, Zenon DEF Decoded
  <2> QED
    BY <2>2, <2>3, <2>4, Zenon DEF Taken
<1> QED
  BY <1>1, <1>4, <1>6, FieldDecodes

-------------------------------------------------------------------------------
(* No part is longer than the whole.                                         *)

\* A part of the bytes is no longer than all of them.
LEMMA PartIsShorter ==
  ASSUME NEW s \in Seq(Seq(Byte)), NEW k \in 1 .. Len(s)
  PROVE  Len(s[k]) <= Len(FlattenSeq(s))
<1>1. PICK f, n : Joins(f, Byte, s) /\ FlattenSeq(s) = f[n] /\ n = Len(s)
  BY FlattenJoins
<1>2. PICK S : S = {i \in 0 .. n : k <= i => Len(s[k]) <= Len(f[i])}
  OBVIOUS
<1>3. n \in Nat /\ k \in 1 .. n
  BY <1>1
<1>4. 0 \in S
  BY <1>2, <1>3
<1>5. ASSUME NEW i \in 1 .. n, i - 1 \in S PROVE i \in S
  <2>1. f[i - 1] \in Seq(Byte) /\ s[i] \in Seq(Byte) /\ f[i] = f[i - 1] \o s[i]
    <3>1. i - 1 \in 0 .. n /\ i \in 1 .. Len(s)
      BY <1>1, <1>3
    <3> QED
      BY <1>1, <3>1, ElementOfSeq DEF Joins
  <2>2. PICK l, m : l = Len(f[i - 1]) /\ m = Len(s[i])
    OBVIOUS
  <2>3. l \in Nat /\ m \in Nat /\ Len(f[i]) = l + m
    BY <2>1, <2>2, ConcatIs
  <2>4. i \in 0 .. n /\ i \in Nat /\ k \in Nat
    BY <1>3
  <2>5. CASE k = i
    <3>a. Len(s[k]) = m
      BY <2>2, <2>5
    <3>1. Len(s[k]) <= Len(f[i])
      BY <2>3, <3>a
    <3> QED
      BY <1>2, <2>4, <3>1
  <2>6. CASE k < i
    <3>1. Len(s[k]) <= l
      BY <1>2, <1>5, <2>2, <2>4, <2>6
    <3>2. Len(s[k]) \in Nat
      BY ElementOfSeq
    <3>3. Len(s[k]) <= Len(f[i])
      BY <2>3, <3>1, <3>2
    <3> QED
      BY <1>2, <2>4, <3>3
  <2>7. CASE ~ k <= i
    BY <1>2, <2>4, <2>7
  <2> QED
    BY <2>4, <2>5, <2>6, <2>7
<1>6. n \in S
  <2>1. n \in 0 .. n
    BY <1>3
  <2> QED
    BY <1>3, <1>4, <1>5, <2>1, UpTo
<1>7. k <= n
  BY <1>3
<1> QED
  BY <1>1, <1>2, <1>6, <1>7

\* Bytes are no longer than the field that holds them.
LEMMA BytesAreShorter ==
  ASSUME NEW n, MakeTag(n, LENGTH_DELIMITED) \in Int, NEW b \in Seq(Byte)
  PROVE  Len(b) <= Len(LengthDelimited(n, Len(b), b)) /\ LengthDelimited(n, Len(b), b) \in Seq(Byte)
<1>1. PICK l, s : l = Len(b) /\ s = LengthDelimited(n, l, b)
  OBVIOUS
<1>2. l \in Nat
  BY <1>1
<1>3. s \in Seq(Byte) /\ Len(s) = Int32Size(MakeTag(n, LENGTH_DELIMITED)) + LengthDelimitedSize(l)
  BY <1>1, <1>2, LengthDelimitedIs
<1>4. PICK i, j : i = Int32Size(MakeTag(n, LENGTH_DELIMITED)) /\ j = Int32Size(l)
  OBVIOUS
<1>5. i \in 1 .. 10 /\ j \in 1 .. 10
  <2>1. l \in Int
    BY <1>2
  <2>2. Int32Size(l) \in 1 .. 10
    BY <2>1, VarintType
  <2>3. Int32Size(MakeTag(n, LENGTH_DELIMITED)) \in 1 .. 10
    BY VarintType
  <2> QED
    BY <1>4, <2>2, <2>3
<1>6. Len(s) = i + (j + l)
  BY <1>3, <1>4 DEF LengthDelimitedSize
<1>7. l <= Len(s)
  BY <1>2, <1>5, <1>6
<1> QED
  BY <1>1, <1>3, <1>7

-------------------------------------------------------------------------------
(* Caches say nothing, and a message says what it was built to say.          *)

\* Messages that say the same one by one say the same in a row.
LEMMA SpokenAlike ==
  ASSUME NEW d, NEW s, NEW t, DOMAIN s = DOMAIN t, \A k \in DOMAIN s : Content(d, s[k]) = Content(d, t[k])
  PROVE  Spoken(d, s) = Spoken(d, t)
BY DEF Spoken

\* Computing the sizes changes the caches and nothing that a message says.
LEMMA SizedSaysSame == \A c \in Classes : \A x \in Msgs[c] : Content(c, ByteSizeLong(c, x)) = Content(c, x)
<1> DEFINE G == {c \in Classes : \A x \in Msgs[c] : Content(c, ByteSizeLong(c, x)) = Content(c, x)}
<1>1. ASSUME NEW c \in Classes, \A m \in Below(c) : ClassBelow(c, m) \in G PROVE c \in G
  <2>1. ASSUME NEW x \in Msgs[c] PROVE Content(c, ByteSizeLong(c, x)) = Content(c, x)
    <3>1. PICK y, sized : y = ByteSizeLong(c, x) /\ sized = SizedBelow(c, x) /\ y \in Msgs[c]
      BY ByteSizeLongType
    <3>2. y = SizeMembers(c, x, sized) /\ SizedFor(c, x, sized)
      BY <3>1, SizesAre
    <3>3. ASSUME NEW n \in FieldNames(c)
          PROVE  (IF n \in Below(c) THEN Spoken(ClassBelow(c, n), y[n]) ELSE y[n])
                 = (IF n \in Below(c) THEN Spoken(ClassBelow(c, n), x[n]) ELSE x[n])
      <4>1. CASE n \notin Below(c)
        BY <3>2, <4>1, SizeMembersIs
      <4>2. CASE n \in Below(c)
        <5>1. PICK d, s, t : d = ClassBelow(c, n) /\ s = y[n] /\ t = x[n]
          OBVIOUS
        <5>2. s = sized[n]
          BY <3>2, <4>2, <5>1, SizeMembersIs
        <5>3. s = [k \in DOMAIN t |-> ByteSizeLong(d, t[k])]
          BY <3>1, <4>2, <5>1, <5>2 DEF SizedBelow
        <5>4. \A k \in DOMAIN t : t[k] \in Msgs[d]
          BY <4>2, <5>1, MemberIsSequence
        <5>5. \A k \in DOMAIN t : Content(d, ByteSizeLong(d, t[k])) = Content(d, t[k])
          BY <1>1, <4>2, <5>1, <5>4
        <5>6. Spoken(d, s) = Spoken(d, t)
          BY <5>3, <5>5, SpokenAlike
        <5> QED
          BY <4>2, <5>1, <5>6
      <4> QED
        BY <4>1, <4>2
    <3>4. Content(c, y) = Content(c, x)
      BY <3>1, <3>3, SaysIs
    <3> QED
      BY <3>1, <3>4
  <2> QED
    BY <2>1
<1>2. \A c \in Classes : c \in G
  <2> HIDE DEF G
  <2> QED
    BY <1>1, ClassInduction DEF Grows
<1> QED
  BY <1>2

\* A message built from a content, by the setters, says the content.
LEMMA BuiltSays ==
  ASSUME NEW j \in Int
  PROVE  \A c \in Classes : \A x \in AllContents[c] : Content(c, Build(c, x, j)) = x
<1> DEFINE G == {c \in Classes : \A x \in AllContents[c] : Content(c, Build(c, x, j)) = x}
<1>1. ASSUME NEW c \in Classes, \A m \in Below(c) : ClassBelow(c, m) \in G PROVE c \in G
  <2>1. ASSUME NEW x \in AllContents[c] PROVE Content(c, Build(c, x, j)) = x
    <3>1. PICK y, b : y = Build(c, x, j) /\ b = BuiltBelow(c, x, j) /\ y \in Msgs[c]
      BY BuildType
    <3>2. y = Builds(c, x, b, j)
      BY <3>1, BuildUnfolds
    <3>3. ASSUME NEW n \in FieldNames(c)
          PROVE  (IF n \in Below(c) THEN Spoken(ClassBelow(c, n), y[n]) ELSE y[n]) = x[n]
      <4>0. n \in MemberNames(c) /\ (IsBelow(c, n) <=> n \in Below(c))
        BY FieldsAreMembers DEF Below
      <4>1. CASE n \notin Below(c)
        <5>1. y[n] = x[n]
          BY <3>2, <4>0, <4>1 DEF Builds
        <5> QED
          BY <4>1, <5>1
      <4>2. CASE n \in Below(c)
        <5>1. PICK d, s, t : d = ClassBelow(c, n) /\ s = y[n] /\ t = x[n]
          OBVIOUS
        <5>2. s = b[n]
          BY <3>2, <4>0, <4>2, <5>1 DEF Builds
        <5>3. s = [k \in DOMAIN t |-> Build(d, t[k], j)]
          BY <3>1, <4>2, <5>1, <5>2 DEF BuiltBelow
        <5>4. t \in Seq(AllContents[d])
          <6>1. t \in Meaning(Schema[c][n]) /\ ShapeIs(c, n, Schema[c][n], Kind(c, n)) /\ Schema[c][n].type = d
            BY <5>1, <4>2, ContentsByField, ShapesAre, BelowIsMessage
          <6>2. Meaning(Schema[c][n]) \in {AtMostOne(AllContents[d]), Seq(AllContents[d])}
            BY <4>2, <6>1 DEF ShapeIs
          <6> QED
            BY <6>1, <6>2 DEF AtMostOne
        <5>5. \A k \in DOMAIN t : t[k] \in AllContents[d]
          BY <5>4, ElementOfSeq
        <5>6. \A k \in DOMAIN t : Content(d, Build(d, t[k], j)) = t[k]
          BY <1>1, <4>2, <5>1, <5>5
        <5>7. Spoken(d, s) = [k \in DOMAIN t |-> t[k]]
          BY <5>3, <5>6 DEF Spoken
        <5>8. t = [k \in DOMAIN t |-> t[k]]
          BY <5>4
        <5> QED
          BY <4>2, <5>1, <5>7, <5>8
      <4> QED
        BY <4>1, <4>2
    <3>4. Content(c, y) = [n \in FieldNames(c) |-> x[n]]
      BY <3>1, <3>3, SaysIs
    <3>5. x = [n \in FieldNames(c) |-> x[n]]
      BY ContentsByField
    <3> QED
      BY <3>1, <3>4, <3>5
  <2> QED
    BY <2>1
<1>2. \A c \in Classes : c \in G
  <2> HIDE DEF G
  <2> QED
    BY <1>1, ClassInduction DEF Grows
<1> QED
  BY <1>2

\* The contents of the messages below.
LEMMA ContentBelow ==
  ASSUME NEW c \in Classes, NEW n \in Below(c), NEW y, NEW X, y[n] \in Seq(Msgs[ClassBelow(c, n)]),
         X = MemberSays(c, n, y[n])
  PROVE  /\ DOMAIN X = DOMAIN y[n] /\ (X = << >> <=> y[n] = << >>) /\ Len(X) = Len(y[n])
         /\ \A k \in DOMAIN y[n] : X[k] = Content(ClassBelow(c, n), y[n][k])
<1>1. PICK d, s : d = ClassBelow(c, n) /\ s = y[n]
  OBVIOUS
<1>2. X = [k \in DOMAIN s |-> Content(d, s[k])]
  BY <1>1 DEF MemberSays, Spoken
<1>3. s \in Seq(Msgs[d])
  BY <1>1
<1>4. PICK S : S = {Content(d, s[k]) : k \in DOMAIN s}
  OBVIOUS
<1>5. X = [k \in DOMAIN s |-> X[k]] /\ \A k \in DOMAIN s : X[k] \in S
  BY <1>2, <1>4
<1>6. X \in Seq(S) /\ Len(X) = Len(s)
  BY <1>3, <1>5, Mapped
<1>7. X = << >> <=> s = << >>
  BY <1>3, <1>6
<1> QED
  BY <1>1, <1>2, <1>6, <1>7

-------------------------------------------------------------------------------
(* Reading the bytes of a member.                                            *)

\* The bytes b of the message y of class d are read as y says.
ReadBack(d, y, b) ==
  /\ b \in Seq(Byte) /\ Len(b) = y._cached_size_
  /\ Len(b) <= MaxInt => \A a \in AllContents[d] : Yields(d, a, b, Merged(d, a, Content(d, y)))

\* All messages below y are read back.
BelowReadBack(c, y, below) ==
  \A m \in Below(c) : \A k \in DOMAIN y[m] : ReadBack(ClassBelow(c, m), y[m][k], below[m][k])

\* Message y says X.
SaysAll(c, y, X) == y \in Msgs[c] /\ X = Content(c, y) /\ X \in AllContents[c]

\* The bytes of the messages y[m].
Parts(c, m, y, below) ==
  [k \in DOMAIN y[m] |-> LengthDelimited(Schema[c][m].number, y[m][k]._cached_size_, below[m][k])]

\* The bytes of one message below, read back.
LEMMA PartIs ==
  ASSUME NEW c \in Classes, NEW m \in Below(c), NEW y, NEW X, SaysAll(c, y, X), NEW below, BelowReadBack(c, y, below)
  PROVE  /\ Parts(c, m, y, below) \in Seq(Seq(Byte)) /\ Len(Parts(c, m, y, below)) = Len(X[m])
         /\ X[m] \in Seq(AllContents[ClassBelow(c, m)])
         /\ Len(FlattenSeq(Parts(c, m, y, below))) <= MaxInt =>
              \A k \in 1 .. Len(X[m]) : \A a :
                Started(Schema[c][m], a[m]) \in AllContents[ClassBelow(c, m)] =>
                  Yields(c, a, Parts(c, m, y, below)[k],
                         [a EXCEPT ![m] = With(Schema[c][m], a[m],
                                               Merged(ClassBelow(c, m), Started(Schema[c][m], a[m]), X[m][k]))])
<1>1. PICK d, n, s, p, z : /\ d = ClassBelow(c, m) /\ n = Schema[c][m].number /\ s = y[m]
                           /\ p = Parts(c, m, y, below) /\ z = X[m]
  OBVIOUS
<1>2. m \in FieldNames(c) /\ d \in Classes /\ y \in Msgs[c]
  BY <1>1, FieldsAreMembers, LowerBelow DEF SaysAll
<1>3. s \in Seq(Msgs[d]) /\ \A k \in DOMAIN s : s[k] \in Msgs[d]
  BY <1>1, <1>2, MemberIsSequence
<1>4. z = MemberSays(c, m, s)
  BY <1>1, <1>2, ContentAt DEF SaysAll
<1>5. Len(z) = Len(s) /\ \A k \in DOMAIN s : z[k] = Content(d, s[k])
  BY <1>1, <1>3, <1>4, ContentBelow
<1>6. z \in Seq(AllContents[d])
  <2>1. z \in Meaning(Schema[c][m]) /\ ShapeIs(c, m, Schema[c][m], Kind(c, m)) /\ Schema[c][m].type = d
    BY <1>1, <1>2, ContentsByField, ShapesAre, BelowIsMessage DEF SaysAll
  <2>2. Meaning(Schema[c][m]) \in {AtMostOne(AllContents[d]), Seq(AllContents[d])}
    BY <2>1 DEF ShapeIs
  <2> QED
    BY <2>1, <2>2 DEF AtMostOne
<1>7. MakeTag(n, LENGTH_DELIMITED) \in Int
  <2>1. LENGTH_DELIMITED \in Wires(Schema[c][m])
    BY <1>2, BelowIsMessage, WiresAre
  <2> QED
    BY <1>1, <1>2, <2>1, TagMeans, Int32Is DEF Tag
<1>8. ASSUME NEW k \in DOMAIN s
      PROVE  /\ ReadBack(d, s[k], below[m][k]) /\ p[k] \in Seq(Byte)
             /\ p[k] = LengthDelimited(n, Len(below[m][k]), below[m][k]) /\ Len(below[m][k]) <= Len(p[k])
  <2>1. ReadBack(d, s[k], below[m][k])
    BY <1>1, <1>8 DEF BelowReadBack
  <2>2. p[k] = LengthDelimited(n, s[k]._cached_size_, below[m][k])
    BY <1>1, <1>8 DEF Parts
  <2>3. p[k] = LengthDelimited(n, Len(below[m][k]), below[m][k])
    BY <2>1, <2>2 DEF ReadBack
  <2> QED
    BY <1>7, <2>1, <2>3, BytesAreShorter DEF ReadBack
<1>9. p \in Seq(Seq(Byte)) /\ Len(p) = Len(s)
  <2>1. p = [k \in DOMAIN s |-> p[k]]
    BY <1>1 DEF Parts
  <2> QED
    BY <1>3, <1>8, <2>1, Mapped
<1>10. ASSUME Len(FlattenSeq(p)) <= MaxInt, NEW k \in 1 .. Len(z), NEW a,
              Started(Schema[c][m], a[m]) \in AllContents[d]
       PROVE  Yields(c, a, p[k], [a EXCEPT ![m] = With(Schema[c][m], a[m], Merged(d, Started(Schema[c][m], a[m]), z[k]))])
  <2>1. PICK b, o, w : b = below[m][k] /\ o = Started(Schema[c][m], a[m]) /\ w = Merged(d, o, z[k])
    OBVIOUS
  <2>2. k \in DOMAIN s /\ k \in 1 .. Len(p)
    BY <1>3, <1>5, <1>9
  <2>3. ReadBack(d, s[k], b) /\ p[k] = LengthDelimited(n, Len(b), b) /\ Len(b) <= Len(p[k]) /\ p[k] \in Seq(Byte)
    BY <1>8, <2>1, <2>2
  <2>4. b \in Seq(Byte) /\ Len(b) <= MaxInt
    <3>1. Len(p[k]) <= Len(FlattenSeq(p))
      BY <1>9, <2>2, PartIsShorter
    <3>2. b \in Seq(Byte) /\ Len(b) \in Nat /\ Len(p[k]) \in Nat
      BY <2>3 DEF ReadBack
    <3>3. FlattenSeq(p) \in Seq(Byte)
      BY <1>9, FlattenSeqType
    <3>4. Len(FlattenSeq(p)) \in Nat /\ MaxInt \in Int
      BY <3>3, Int32Is
    <3>5. PICK h, i, l : h = Len(b) /\ i = Len(p[k]) /\ l = Len(FlattenSeq(p))
      OBVIOUS
    <3>6. h <= MaxInt
      BY <1>10, <2>3, <3>1, <3>2, <3>4, <3>5
    <3> QED
      BY <3>2, <3>5, <3>6
  <2>5. Yields(d, o, b, Merged(d, o, Content(d, s[k])))
    BY <1>10, <2>1, <2>3, <2>4 DEF ReadBack
  <2>6. DecodeInto(d, o, b) = Reading(w)
    BY <1>2, <1>5, <2>1, <2>2, <2>5, YieldsAll
  <2>7. Yields(c, a, LengthDelimited(Schema[c][m].number, Len(b), b), [a EXCEPT ![m] = With(Schema[c][m], a[m], w)])
    BY <1>1, <2>1, <2>4, <2>6, MessageYields
  <2> QED
    BY <1>1, <2>1, <2>3, <2>7
<1> QED
  BY <1>1, <1>5, <1>6, <1>9, <1>10

\* Appending to two parts is appending to the last one.
AppendsLast(A) == \A s, r \in Seq(A) : \A e \in A : Append(s \o r, e) = s \o Append(r, e)

\* It is so in every set.
LEMMA AppendLast == \A A : AppendsLast(A)
<1>1. ASSUME NEW A, NEW s \in Seq(A), NEW r \in Seq(A), NEW e \in A
      PROVE  Append(s \o r, e) = s \o Append(r, e)
  <2>1. s \o r \in Seq(A) /\ << e >> \in Seq(A)
    BY ConcatProperties
  <2>2. Append(s \o r, e) = (s \o r) \o << e >> /\ Append(r, e) = r \o << e >>
    BY <2>1, AppendIsConcat
  <2>3. (s \o r) \o << e >> = s \o (r \o << e >>)
    BY <2>1, ConcatAssociative
  <2> QED
    BY <2>2, <2>3
<1> QED
  BY <1>1, Zenon DEF AppendsLast

\* Messages written are appended to those read.
LEMMA MessagesYield ==
  ASSUME NEW c \in Classes, NEW m \in Below(c), Kind(c, m) = "messages",
         NEW y, NEW X, SaysAll(c, y, X), NEW below, BelowReadBack(c, y, below),
         Len(FlattenSeq(Parts(c, m, y, below))) <= MaxInt, NEW a \in AllContents[c]
  PROVE  Yields(c, a, FlattenSeq(Parts(c, m, y, below)), [a EXCEPT ![m] = a[m] \o X[m]])
<1>1. PICK d, p, z, g, N, A : /\ d = ClassBelow(c, m) /\ p = Parts(c, m, y, below) /\ z = X[m] /\ g = Schema[c][m]
                              /\ N = Len(z) /\ A = AllContents[d]
  OBVIOUS
<1>2. m \in FieldNames(c) /\ d \in Classes
  BY <1>1, FieldsAreMembers, LowerBelow
<1>3. g.repeated /\ g.type = d /\ Meaning(g) = Seq(A)
  <2>1. ShapeIs(c, m, g, Kind(c, m)) /\ g.type = d
    BY <1>1, <1>2, ShapesAre, BelowIsMessage
  <2> QED
    BY <1>1, <2>1 DEF ShapeIs
<1>4. a[m] \in Seq(A)
  BY <1>1, <1>2, <1>3, ContentsByField
<1>5. p \in Seq(Seq(Byte)) /\ Len(p) = N /\ z \in Seq(A) /\ N \in Nat
  BY <1>1, PartIs
<1>6. PICK f : Joins(f, Byte, p) /\ FlattenSeq(p) = f[N]
  BY <1>5, FlattenJoins
<1>7. PICK b : b = [k \in 0 .. N |-> [a EXCEPT ![m] = a[m] \o First(z, k)]]
  OBVIOUS
<1>8. PICK S : S = {k \in 0 .. N : Yields(c, a, f[k], b[k])}
  OBVIOUS
<1>9. 0 \in S
  <2>1. 0 \in 0 .. N /\ f[0] = << >>
    BY <1>5, <1>6 DEF Joins
  <2>2. a[m] \o First(z, 0) = a[m]
    BY <1>4, <1>5, FirstIs, ConcatEmptySeq
  <2>3. b[0] = a
    <3>1. b[0] = [a EXCEPT ![m] = a[m]]
      BY <1>7, <2>1, <2>2
    <3>2. a = [n \in FieldNames(c) |-> a[n]]
      BY ContentsByField
    <3> QED
      BY <3>1, <3>2
  <2> QED
    BY <1>8, <2>1, <2>3, YieldsNothing
<1>10. ASSUME NEW k \in 1 .. N, k - 1 \in S PROVE k \in S
  <2>1. k \in 0 .. N /\ k - 1 \in 0 .. N /\ k \in 1 .. Len(p) /\ k \in 1 .. Len(z)
    BY <1>1, <1>5
  <2>2. Yields(c, a, f[k - 1], b[k - 1]) /\ f[k] = f[k - 1] \o p[k]
    BY <1>6, <1>8, <1>10, <2>1 DEF Joins
  <2>3. PICK e, q : e = b[k - 1] /\ q = First(z, k - 1)
    OBVIOUS
  <2>4. q \in Seq(A) /\ z[k] \in A /\ First(z, k) = Append(q, z[k])
    BY <1>5, <2>1, <2>3, FirstIs
  <2>5. e = [a EXCEPT ![m] = a[m] \o q]
    BY <1>7, <2>1, <2>3
  <2>6. e[m] = a[m] \o q
    <3>1. a = [n \in FieldNames(c) |-> a[n]]
      BY ContentsByField
    <3> QED
      BY <1>2, <2>5, <3>1
  <2>7. Started(g, e[m]) = Empty(d)
    BY <1>3 DEF Started
  <2>8. Merged(d, Empty(d), z[k]) = z[k] /\ Empty(d) \in A
    BY <1>1, <1>2, <2>4, MergedIntoNothing
  <2>9. Yields(c, e, p[k], [e EXCEPT ![m] = With(g, e[m], z[k])])
    <3>1. Yields(c, e, Parts(c, m, y, below)[k],
                 [e EXCEPT ![m] = With(Schema[c][m], e[m], Merged(ClassBelow(c, m), Started(Schema[c][m], e[m]), X[m][k]))])
      BY <1>1, <2>1, <2>7, <2>8, PartIs
    <3> QED
      BY <1>1, <2>7, <2>8, <3>1
  <2>10. With(g, e[m], z[k]) = a[m] \o First(z, k)
    <3>1. With(g, e[m], z[k]) = Append(a[m] \o q, z[k])
      BY <1>3, <2>6 DEF With
    <3>2. PICK h, e1 : h = a[m] /\ e1 = z[k]
      OBVIOUS
    <3>3. h \in Seq(A) /\ e1 \in A /\ q \in Seq(A)
      BY <1>4, <2>4, <3>2
    <3>4. Append(h \o q, e1) = h \o Append(q, e1)
      <4>1. AppendsLast(A)
        BY AppendLast
      <4> QED
        BY <3>3, <4>1, Zenon DEF AppendsLast
    <3> QED
      BY <2>4, <3>1, <3>2, <3>4
  <2>11. [e EXCEPT ![m] = With(g, e[m], z[k])] = b[k]
    <3>1. PICK v : v = a[m] \o First(z, k)
      OBVIOUS
    <3>2. b[k] = [a EXCEPT ![m] = v]
      BY <1>7, <2>1, <3>1
    <3>3. [e EXCEPT ![m] = v] = [a EXCEPT ![m] = v]
      BY <2>5
    <3> QED
      BY <2>10, <3>1, <3>2, <3>3
  <2>12. Yields(c, a, f[k], b[k])
    BY <2>2, <2>3, <2>9, <2>11, YieldsBoth
  <2> QED
    BY <1>8, <2>1, <2>12
<1>11. N \in S
  <2>1. N \in 0 .. N
    BY <1>5
  <2> QED
    BY <1>5, <1>9, <1>10, <2>1, UpTo
<1>12. b[N] = [a EXCEPT ![m] = a[m] \o z]
  <2>1. N \in 0 .. N /\ First(z, N) = z
    BY <1>1, <1>5, FirstIs
  <2> QED
    BY <1>7, <2>1
<1> QED
  BY <1>1, <1>6, <1>8, <1>11, <1>12

\* A message that a member points to is written, and merged where it is read.
LEMMA PointerYields ==
  ASSUME NEW c \in Classes, NEW m \in Below(c), Kind(c, m) = "pointer",
         NEW y, NEW X, SaysAll(c, y, X), NEW below, BelowReadBack(c, y, below), X[m] # << >>,
         Len(FlattenSeq(Parts(c, m, y, below))) <= MaxInt, NEW a \in AllContents[c]
  PROVE  Yields(c, a, FlattenSeq(Parts(c, m, y, below)), [a EXCEPT ![m] = MergedAs(Schema[c][m], a[m], X[m])])
<1>1. PICK d, p, z, g, A : /\ d = ClassBelow(c, m) /\ p = Parts(c, m, y, below) /\ z = X[m] /\ g = Schema[c][m]
                           /\ A = AllContents[d]
  OBVIOUS
<1>2. m \in FieldNames(c) /\ d \in Classes
  BY <1>1, FieldsAreMembers, LowerBelow
<1>3. ~ g.repeated /\ g.type = d /\ d = "Value" /\ IsMessage(g) /\ Meaning(g) = AtMostOne(A) /\ Absent(g) = << >>
  <2>1. ShapeIs(c, m, g, Kind(c, m)) /\ g.type = d /\ Absent(g) = Default(Kind(c, m))
    BY <1>1, <1>2, ShapesAre, BelowIsMessage
  <2> QED
    BY <1>1, <2>1, DefaultIs DEF ShapeIs
<1>4. a[m] \in AtMostOne(A) /\ z \in AtMostOne(A)
  BY <1>1, <1>2, <1>3, ContentsByField DEF SaysAll
<1>5. p \in Seq(Seq(Byte)) /\ Len(p) = Len(z) /\ Len(z) = 1 /\ z[1] \in A /\ z = << z[1] >>
  <2>1. p \in Seq(Seq(Byte)) /\ Len(p) = Len(z)
    BY <1>1, PartIs
  <2> QED
    BY <1>1, <1>4, <2>1, PointerIs
<1>6. FlattenSeq(p) = p[1]
  <2>1. PICK f : Joins(f, Byte, p) /\ FlattenSeq(p) = f[Len(p)]
    BY <1>5, FlattenJoins
  <2>a. Len(p) = 1 /\ 1 \in 1 .. Len(p) /\ 1 - 1 = 0
    BY <1>5
  <2>b. p[1] \in Seq(Byte)
    BY <1>5, <2>a, ElementOfSeq
  <2>2. 1 \in 1 .. Len(p) /\ 1 - 1 = 0 /\ Len(p) = 1 /\ p[1] \in Seq(Byte)
    BY <2>a, <2>b
  <2>3. f[1] = f[0] \o p[1] /\ f[0] = << >>
    BY <2>1, <2>2 DEF Joins
  <2>4. << >> \o p[1] = p[1]
    BY <2>2, ConcatEmptySeq
  <2> QED
    BY <2>1, <2>2, <2>3, <2>4
<1>7. PICK o, w : o = Started(g, a[m]) /\ w = Merged(d, o, z[1])
  OBVIOUS
<1>8. o \in A /\ With(g, a[m], w) = MergedAs(g, a[m], z)
  <2>1. With(g, a[m], w) = << w >>
    BY <1>3 DEF With
  <2>2. CASE a[m] = << >>
    <3>1. o = Empty(d)
      BY <1>3, <1>7, <2>2 DEF Started
    <3>2. Empty(d) \in A /\ w = z[1]
      BY <1>1, <1>2, <1>5, <1>7, <3>1, MergedIntoNothing
    <3>3. MergedAs(g, a[m], z) = z
      BY <1>1, <1>3, <2>2 DEF MergedAs
    <3> QED
      BY <1>5, <2>1, <3>1, <3>2, <3>3
  <2>3. CASE a[m] # << >>
    <3>1. o = a[m][1]
      BY <1>3, <1>7, <2>3 DEF Started
    <3>2. o \in A
      BY <1>4, <2>3, <3>1, PointerIs
    <3>3. MergedAs(g, a[m], z) = << MergedScalars(g.type, a[m][1], z[1]) >>
      BY <1>1, <1>3, <2>3 DEF MergedAs
    <3>4. MergedScalars(g.type, a[m][1], z[1]) = w
      BY <1>3, <1>7, <3>1, ValueMerges
    <3> QED
      BY <2>1, <3>2, <3>3, <3>4
  <2> QED
    BY <2>2, <2>3
<1>9. Yields(c, a, p[1], [a EXCEPT ![m] = With(g, a[m], w)])
  <2>1. 1 \in 1 .. Len(X[m])
    BY <1>1, <1>5
  <2>2. Yields(c, a, Parts(c, m, y, below)[1],
               [a EXCEPT ![m] = With(Schema[c][m], a[m], Merged(ClassBelow(c, m), Started(Schema[c][m], a[m]), X[m][1]))])
    BY <1>1, <1>7, <1>8, <2>1, PartIs
  <2> QED
    BY <1>1, <1>7, <2>2
<1> QED
  BY <1>1, <1>6, <1>8, <1>9

\* The size of the packed numbers is cached.
Cached(c, y) ==
  \A m \in FieldNames(c) : Kind(c, m) = "numbers" => y["_paramtype_cached_byte_size_"] = DataSize(y[m])

\* What the bytes of message y are written from.
Written(c, y, X, below) == SaysAll(c, y, X) /\ BelowReadBack(c, y, below) /\ Cached(c, y)

\* A tag is an integer.
LEMMA TagInt ==
  ASSUME NEW c \in Classes, NEW m \in FieldNames(c), LENGTH_DELIMITED \in Wires(Schema[c][m])
  PROVE  MakeTag(Schema[c][m].number, LENGTH_DELIMITED) \in Int
BY TagMeans, Int32Is DEF Tag

\* What is shorter than what is short enough is.
LEMMA Shorter ==
  ASSUME NEW b \in Seq(Byte), NEW s \in Seq(Byte), Len(b) <= Len(s), Len(s) <= MaxInt
  PROVE  Len(b) <= MaxInt
<1>1. PICK i, l : i = Len(b) /\ l = Len(s)
  OBVIOUS
<1>2. i \in Nat /\ l \in Nat /\ i <= l /\ l <= MaxInt /\ MaxInt \in Int
  BY <1>1, Int32Is
<1> QED
  BY <1>1, <1>2

\* What a member is written as is read as merging what it says.
LEMMA MemberYields ==
  ASSUME NEW c \in Classes, NEW m \in FieldNames(c), NEW y, NEW X, NEW below, Written(c, y, X, below),
         NEW s, s = MemberBytes(c, Schema[c][m].number, m, y, below), Len(s) <= MaxInt,
         NEW a \in AllContents[c]
  PROVE  Yields(c, a, s, [a EXCEPT ![m] = MergedAs(Schema[c][m], a[m], X[m])])
<1>1. PICK n, g, kind, v, o : /\ n = Schema[c][m].number /\ g = Schema[c][m] /\ kind = Kind(c, m)
                              /\ v = X[m] /\ o = a[m]
  OBVIOUS
<1>2. ShapeIs(c, m, g, kind) /\ Absent(g) = Default(kind)
  BY <1>1, ShapesAre
<1>3. v \in Meaning(g) /\ o \in Meaning(g) /\ a = [i \in FieldNames(c) |-> a[i]]
  BY <1>1, ContentsByField DEF Written, SaysAll
<1>4. v = MemberSays(c, m, y[m])
  BY <1>1, ContentAt DEF Written, SaysAll
<1>5. /\ y[m] = Default(kind) => s = << >>
      /\ y[m] # Default(kind) => s = Shown(c, n, m, y, below)
  BY <1>1, MemberBytesIs
<1>6. m \notin Below(c) => y[m] = v
  BY <1>4 DEF MemberSays
<1>7. m \in Below(c) => (v = << >> <=> y[m] = << >>) /\ kind \in {"pointer", "messages"}
  <2>1. ASSUME m \in Below(c) PROVE (v = << >> <=> y[m] = << >>) /\ kind \in {"pointer", "messages"}
    <3>1. y[m] \in Seq(Msgs[ClassBelow(c, m)])
      BY <2>1, MemberIsSequence DEF Written, SaysAll
    <3>2. v = << >> <=> y[m] = << >>
      BY <1>4, <2>1, <3>1, ContentBelow
    <3> QED
      BY <1>1, <2>1, <3>2 DEF Below, IsBelow
  <2> QED
    BY <2>1
<1>8. CASE v = Absent(g)
  <2>1. y[m] = Default(kind)
    <3>1. CASE m \notin Below(c)
      BY <1>2, <1>6, <1>8, <3>1
    <3>2. CASE m \in Below(c)
      BY <1>2, <1>7, <1>8, <3>2, DefaultIs
    <3> QED
      BY <3>1, <3>2
  <2>2. MergedAs(g, o, v) = o
    BY <1>8 DEF MergedAs
  <2>3. [a EXCEPT ![m] = o] = a
    BY <1>1, <1>3
  <2> QED
    BY <1>1, <1>5, <2>1, <2>2, <2>3, YieldsNothing
<1>9. CASE v # Absent(g)
  <2>1. y[m] # Default(kind)
    <3>1. CASE m \notin Below(c)
      BY <1>2, <1>6, <1>9, <3>1
    <3>2. CASE m \in Below(c)
      BY <1>2, <1>7, <1>9, <3>2, DefaultIs
    <3> QED
      BY <3>1, <3>2
  <2>2. s = Shown(c, n, m, y, below)
    BY <1>5, <2>1
  <2>3. CASE kind = "string"
    <3>1. y[m] = v /\ v \in Seq(Byte) /\ MergedAs(g, o, v) = v /\ LENGTH_DELIMITED \in Wires(g)
      <4>1. m \notin Below(c) /\ ~ g.repeated /\ ~ IsMessage(g) /\ Meaning(g) \in {Text, Seq(Byte)} /\ g.type \in {"string", "bytes"}
        BY <1>2, <2>3 DEF ShapeIs
      <4>2. v \in Seq(Byte)
        BY <1>3, <4>1, TextIs
      <4>3. MergedAs(g, o, v) = v
        BY <1>9, <4>1 DEF MergedAs
      <4> QED
        BY <1>6, <4>1, <4>2, <4>3, WiresAre
    <3>2. s = LengthDelimited(n, Len(v), v)
      BY <1>1, <2>2, <2>3, <3>1 DEF Shown
    <3>3. Len(v) <= Len(s) /\ s \in Seq(Byte)
      BY <1>1, <3>1, <3>2, TagInt, BytesAreShorter
    <3>4. Len(v) <= MaxInt
      BY <3>1, <3>3, Shorter
    <3>5. Yields(c, a, LengthDelimited(Schema[c][m].number, Len(v), v), [a EXCEPT ![m] = v])
      BY <1>1, <1>3, <2>3, <3>4, StringYields
    <3> QED
      BY <1>1, <3>1, <3>2, <3>5
  <2>4. CASE kind = "bool"
    <3>1. m \notin Below(c) /\ ~ g.repeated /\ ~ IsMessage(g) /\ Meaning(g) = BOOLEAN
      BY <1>2, <2>4 DEF ShapeIs
    <3>2. v = TRUE
      <4>1. v \in BOOLEAN
        BY <1>3, <3>1
      <4>2. v # FALSE
        BY <1>2, <1>9, <2>4, DefaultIs, Zenon
      <4> QED
        BY <4>1, <4>2, Zenon
    <3>3. MergedAs(g, o, v) = v
      BY <1>9, <3>1 DEF MergedAs
    <3>4. s = Varint(Tag(c, m, VARINT)) \o << 1 >>
      BY <1>1, <2>2, <2>4 DEF Shown, Tag
    <3>5. Yields(c, a, Varint(Tag(c, m, VARINT)) \o << 1 >>, [a EXCEPT ![m] = TRUE])
      BY <1>1, <2>4, BoolYields
    <3>6. [a EXCEPT ![m] = TRUE] = [a EXCEPT ![m] = MergedAs(g, o, v)]
      BY <3>2, <3>3, Zenon
    <3> QED
      BY <1>1, <3>4, <3>5, <3>6
  <2>5. CASE kind = "number"
    <3>1. m \notin Below(c) /\ ~ g.repeated /\ ~ IsMessage(g) /\ Meaning(g) = Int32
      BY <1>2, <2>5 DEF ShapeIs
    <3>2. MergedAs(g, o, v) = v
      BY <1>9, <3>1 DEF MergedAs
    <3>3. s = Varint(Tag(c, m, VARINT)) \o Varint(v)
      BY <1>1, <1>6, <2>2, <2>5, <3>1 DEF Shown, Tag
    <3>4. v \in Int32
      BY <1>3, <3>1
    <3>5. Yields(c, a, Varint(Tag(c, m, VARINT)) \o Varint(v), [a EXCEPT ![m] = v])
      BY <1>1, <2>5, <3>4, NumberYields
    <3> QED
      BY <1>1, <3>2, <3>3, <3>5
  <2>6. CASE kind = "numbers"
    <3>1. m \notin Below(c) /\ g.repeated /\ ~ IsMessage(g) /\ Meaning(g) = Seq(Int32) /\ g.type = "int32"
      BY <1>2, <2>6 DEF ShapeIs
    <3>2. MergedAs(g, o, v) = o \o v
      BY <1>9, <3>1 DEF MergedAs
    <3>3. v \in Seq(Int32) /\ y[m] = v
      BY <1>3, <1>6, <3>1
    <3>4. PICK r : r = FlattenSeq([k \in DOMAIN v |-> Varint(v[k])])
      OBVIOUS
    <3>5. r \in Seq(Byte) /\ Len(r) = DataSize(v)
      <4>1. Int32 \subseteq Int
        BY Int32Is
      <4>2. v \in Seq(Int)
        BY <3>3, <4>1
      <4> QED
        BY <3>4, <4>2, PackedLength
    <3>6. s = LengthDelimited(n, Len(r), r)
      <4>1. y["_paramtype_cached_byte_size_"] = DataSize(v)
        BY <1>1, <2>6, <3>3 DEF Written, Cached
      <4>2. s = LengthDelimited(n, y["_paramtype_cached_byte_size_"], FlattenSeq([k \in DOMAIN y[m] |-> Varint(y[m][k])]))
        BY <1>1, <2>2, <2>6 DEF Shown
      <4> QED
        BY <3>3, <3>4, <3>5, <4>1, <4>2
    <3>7. Len(r) <= Len(s) /\ s \in Seq(Byte)
      <4>1. LENGTH_DELIMITED \in Wires(g)
        BY <3>1, WiresAre
      <4> QED
        BY <1>1, <3>5, <3>6, <4>1, TagInt, BytesAreShorter
    <3>8. Len(r) <= MaxInt
      BY <3>5, <3>7, Shorter
    <3>9. Yields(c, a, LengthDelimited(Schema[c][m].number, Len(r), r), [a EXCEPT ![m] = a[m] \o v])
      BY <1>1, <2>6, <3>3, <3>4, <3>8, NumbersYield
    <3> QED
      BY <1>1, <3>2, <3>6, <3>9
  <2>7. CASE kind \in {"pointer", "messages"}
    <3>1. m \in Below(c)
      BY <1>2, <2>7 DEF ShapeIs
    <3>2. s = FlattenSeq(Parts(c, m, y, below))
      <4>1. s = FlattenSeq([k \in DOMAIN y[m] |-> LengthDelimited(n, y[m][k]._cached_size_, below[m][k])])
        BY <1>1, <2>2, <2>7 DEF Shown
      <4> QED
        BY <1>1, <4>1 DEF Parts
    <3>3. CASE kind = "pointer"
      <4>1. v # << >>
        BY <1>2, <1>9, <3>3, DefaultIs
      <4>2. X[m] # << >> /\ Kind(c, m) = "pointer" /\ Len(FlattenSeq(Parts(c, m, y, below))) <= MaxInt
        BY <1>1, <3>2, <3>3, <4>1
      <4>3. SaysAll(c, y, X) /\ BelowReadBack(c, y, below)
        BY DEF Written
      <4>4. Yields(c, a, FlattenSeq(Parts(c, m, y, below)), [a EXCEPT ![m] = MergedAs(Schema[c][m], a[m], X[m])])
        BY <3>1, <4>2, <4>3, PointerYields
      <4> QED
        BY <3>2, <4>4
    <3>4. CASE kind = "messages"
      <4>1. g.repeated
        BY <1>2, <3>4 DEF ShapeIs
      <4>2. MergedAs(g, o, v) = o \o v
        BY <1>9, <4>1 DEF MergedAs
      <4>3. Yields(c, a, FlattenSeq(Parts(c, m, y, below)), [a EXCEPT ![m] = a[m] \o X[m]])
        BY <1>1, <3>1, <3>2, <3>4, MessagesYield DEF Written
      <4> QED
        BY <1>1, <3>2, <4>2, <4>3
    <3> QED
      BY <2>7, <3>3, <3>4
  <2> QED
    BY <1>2, <2>3, <2>4, <2>5, <2>6, <2>7 DEF ShapeIs
<1> QED
  BY <1>8, <1>9

-------------------------------------------------------------------------------
(* Reading the bytes of a whole message.                                     *)

\* The fields that the first k entries of the table of class c are for.
FirstFields(c, k) == {ToStream[c][i][2] : i \in 1 .. k}

\* x merged into a as far as the fields S go.
MergedFor(c, a, x, S) ==
  [n \in FieldNames(c) |-> IF n \in S THEN MergedAs(Schema[c][n], a[n], x[n]) ELSE a[n]]

\* Merging some of the fields makes a content.
LEMMA PartlyMerged ==
  ASSUME NEW c \in Classes, NEW a \in AllContents[c], NEW x \in AllContents[c], NEW S
  PROVE  MergedFor(c, a, x, S) \in AllContents[c]
<1>1. PICK b : b = MergedFor(c, a, x, S)
  OBVIOUS
<1>2. ASSUME NEW n \in FieldNames(c) PROVE b[n] \in Meaning(Schema[c][n])
  <2>1. a[n] \in Meaning(Schema[c][n]) /\ x[n] \in Meaning(Schema[c][n])
    BY ContentsByField
  <2>2. MergedAs(Schema[c][n], a[n], x[n]) \in Meaning(Schema[c][n])
    BY <2>1, MergedMeans
  <2> QED
    BY <1>1, <2>1, <2>2 DEF MergedFor
<1>3. b = [n \in FieldNames(c) |-> b[n]]
  BY <1>1 DEF MergedFor
<1> QED
  BY <1>1, <1>2, <1>3, ContentsByField


\* Field m of x, merged into what the fields S have been merged into.
OneMore(c, a, x, S, m) ==
  \A b : b = MergedFor(c, a, x, S) =>
    [b EXCEPT ![m] = MergedAs(Schema[c][m], b[m], x[m])] = MergedFor(c, a, x, S \cup {m})

\* It is merging the fields S and m.
LEMMA MergedMore ==
  ASSUME NEW c \in Classes, NEW a, NEW x, NEW S, NEW m \in FieldNames(c), m \notin S
  PROVE  OneMore(c, a, x, S, m)
<1>1. ASSUME NEW b, b = MergedFor(c, a, x, S)
      PROVE  [b EXCEPT ![m] = MergedAs(Schema[c][m], b[m], x[m])] = MergedFor(c, a, x, S \cup {m})
  <2>1. PICK v : v = MergedAs(Schema[c][m], b[m], x[m])
    OBVIOUS
  <2>2. b[m] = a[m]
    BY <1>1 DEF MergedFor
  <2>3. [b EXCEPT ![m] = v] = [n \in FieldNames(c) |-> IF n = m THEN v ELSE b[n]]
    BY <1>1 DEF MergedFor
  <2>4. ASSUME NEW n \in FieldNames(c)
        PROVE  (IF n = m THEN v ELSE b[n])
               = (IF n \in S \cup {m} THEN MergedAs(Schema[c][n], a[n], x[n]) ELSE a[n])
    BY <1>1, <2>1, <2>2 DEF MergedFor
  <2>5. [b EXCEPT ![m] = v] = MergedFor(c, a, x, S \cup {m})
    BY <2>3, <2>4 DEF MergedFor
  <2> QED
    BY <2>1, <2>5
<1> QED
  BY <1>1, Zenon DEF OneMore

\* What the members are written as is read as merging what the message says.
LEMMA AllYield ==
  ASSUME NEW c \in Classes, NEW y, NEW X, NEW below, Written(c, y, X, below),
         NEW s, s = AllBytes(ToStream[c], c, y, below), s \in Seq(Byte), Len(s) <= MaxInt,
         \A k \in 1 .. Len(ToStream[c]) :
           MemberBytes(c, ToStream[c][k][1], ToStream[c][k][2], y, below) \in Seq(Byte),
         NEW a \in AllContents[c]
  PROVE  Yields(c, a, s, Merged(c, a, X))
<1>1. PICK T, N, p : /\ T = ToStream[c] /\ N = Len(T)
                     /\ p = [k \in 1 .. N |-> MemberBytes(c, T[k][1], T[k][2], y, below)]
  OBVIOUS
<1>2. N \in Nat
  BY <1>1, WrittenFit
<1>3. p \in Seq(Seq(Byte)) /\ Len(p) = N /\ s = FlattenSeq(p)
  <2>1. \A k \in 1 .. N : p[k] \in Seq(Byte)
    BY <1>1
  <2>2. p \in [1 .. N -> Seq(Byte)]
    BY <1>1, <2>1
  <2>3. p \in Seq(Seq(Byte)) /\ Len(p) = N
    BY <1>2, <2>2
  <2>4. s = FlattenSeq(p)
    BY <1>1 DEF AllBytes
  <2> QED
    BY <2>3, <2>4
<1>4. PICK f : Joins(f, Byte, p) /\ s = f[N]
  BY <1>3, FlattenJoins
<1>5. PICK b : b = [k \in 0 .. N |-> MergedFor(c, a, X, FirstFields(c, k))]
  OBVIOUS
<1>6. PICK S : S = {k \in 0 .. N : Yields(c, a, f[k], b[k])}
  OBVIOUS
<1>7. X \in AllContents[c] /\ WritesOnce(c)
  BY WrittenOnce DEF Written, SaysAll
<1>8. 0 \in S
  <2>1. 0 \in 0 .. N /\ f[0] = << >>
    BY <1>2, <1>4 DEF Joins
  <2>2. FirstFields(c, 0) = {}
    BY DEF FirstFields
  <2>3. b[0] = [n \in FieldNames(c) |-> a[n]]
    BY <1>5, <2>1, <2>2 DEF MergedFor
  <2>4. b[0] = a
    BY <2>3, ContentsByField
  <2> QED
    BY <1>6, <2>1, <2>4, YieldsNothing
<1>9. ASSUME NEW k \in 1 .. N, k - 1 \in S PROVE k \in S
  <2>1. k \in 0 .. N /\ k - 1 \in 0 .. N /\ k \in 1 .. Len(p) /\ k \in Nat
    BY <1>2, <1>3
  <2>2. Yields(c, a, f[k - 1], b[k - 1]) /\ f[k] = f[k - 1] \o p[k]
    BY <1>4, <1>6, <1>9, <2>1 DEF Joins
  <2>3. PICK m, e, F : m = T[k][2] /\ e = b[k - 1] /\ F = FirstFields(c, k - 1)
    OBVIOUS
  <2>4. m \in FieldNames(c) /\ T[k][1] = Schema[c][m].number
    BY <1>1, <1>7, <2>3 DEF WritesOnce
  <2>5. m \notin F
    <3>1. ASSUME NEW i \in 1 .. k - 1 PROVE T[i][2] # m
      <4>1. i \in 1 .. N /\ i # k
        BY <1>2, <2>1
      <4> QED
        BY <1>1, <1>7, <2>3, <4>1 DEF WritesOnce
    <3> QED
      BY <1>1, <2>3, <3>1 DEF FirstFields
  <2>6. FirstFields(c, k) = F \cup {m}
    <3>1. 1 .. k = (1 .. k - 1) \cup {k}
      BY <2>1
    <3> QED
      BY <1>1, <2>3, <3>1 DEF FirstFields
  <2>7. e = MergedFor(c, a, X, F) /\ b[k] = MergedFor(c, a, X, F \cup {m})
    BY <1>5, <2>1, <2>3, <2>6
  <2>8. e \in AllContents[c] /\ [e EXCEPT ![m] = MergedAs(Schema[c][m], e[m], X[m])] = b[k]
    <3>1. e \in AllContents[c]
      BY <1>7, <2>7, PartlyMerged
    <3>2. OneMore(c, a, X, F, m)
      BY <2>4, <2>5, MergedMore
    <3>3. [e EXCEPT ![m] = MergedAs(Schema[c][m], e[m], X[m])] = MergedFor(c, a, X, F \cup {m})
      BY <2>7, <3>2, Zenon DEF OneMore
    <3> QED
      BY <2>7, <3>1, <3>3
  <2>9. p[k] = MemberBytes(c, Schema[c][m].number, m, y, below)
    BY <1>1, <2>3, <2>4
  <2>10. Len(p[k]) <= MaxInt
    <3>1. Len(p[k]) <= Len(s) /\ p[k] \in Seq(Byte)
      BY <1>3, <2>1, PartIsShorter, ElementOfSeq
    <3> QED
      BY <3>1, Shorter
  <2>11. Yields(c, e, p[k], b[k])
    <3>1. Yields(c, e, p[k], [e EXCEPT ![m] = MergedAs(Schema[c][m], e[m], X[m])])
      BY <2>4, <2>8, <2>9, <2>10, MemberYields
    <3> QED
      BY <2>8, <3>1
  <2>12. Yields(c, a, f[k], b[k])
    BY <2>2, <2>3, <2>11, YieldsBoth
  <2> QED
    BY <1>6, <2>1, <2>12
<1>10. N \in S
  <2>1. N \in 0 .. N
    BY <1>2
  <2> QED
    BY <1>2, <1>8, <1>9, <2>1, UpTo
<1>11. b[N] = Merged(c, a, X)
  <2>1. \A n \in FieldNames(c) : n \in FirstFields(c, N)
    BY <1>1, <1>7 DEF WritesOnce, FirstFields
  <2>2. N \in 0 .. N
    BY <1>2
  <2> QED
    BY <1>5, <2>1, <2>2, MergedIs DEF MergedFor
<1> QED
  BY <1>4, <1>6, <1>10, <1>11

\* The bytes of a message of up to MaxInt bytes are read as the message says.
LEMMA MessageReadBack ==
  \A c \in Classes : \A x \in Msgs[c] : Content(c, x) \in AllContents[c] =>
    ReadBack(c, ByteSizeLong(c, x), WholeBytes(ToStream, c, ByteSizeLong(c, x)))
<1> DEFINE Back(c, x) == ReadBack(c, ByteSizeLong(c, x), WholeBytes(ToStream, c, ByteSizeLong(c, x)))
<1> DEFINE G == {c \in Classes : \A x \in Msgs[c] : Content(c, x) \in AllContents[c] => Back(c, x)}
<1>1. ASSUME NEW c \in Classes, \A m \in Below(c) : ClassBelow(c, m) \in G PROVE c \in G
  <2>1. ASSUME NEW x \in Msgs[c], Content(c, x) \in AllContents[c] PROVE Back(c, x)
    <3>1. PICK y, sized, below, X, s :
            /\ y = ByteSizeLong(c, x) /\ sized = SizedBelow(c, x) /\ y \in Msgs[c]
            /\ below = [m \in Below(c) |-> [k \in DOMAIN y[m] |-> WholeBytes(ToStream, ClassBelow(c, m), y[m][k])]]
            /\ X = Content(c, y) /\ s = WholeBytes(ToStream, c, y)
      BY ByteSizeLongType
    <3>2. y = SizeMembers(c, x, sized) /\ SizedFor(c, x, sized)
      BY <3>1, SizesAre
    <3>3. X = Content(c, x) /\ X \in AllContents[c]
      BY <2>1, <3>1, SizedSaysSame
    <3>4. SaysAll(c, y, X)
      BY <3>1, <3>3 DEF SaysAll
    <3>5. ASSUME NEW m \in Below(c), NEW k \in DOMAIN y[m]
          PROVE  ReadBack(ClassBelow(c, m), y[m][k], below[m][k])
      <4>1. PICK d, z : d = ClassBelow(c, m) /\ z = x[m][k]
        OBVIOUS
      <4>2. y[m] = sized[m]
        BY <3>2, SizeMembersIs
      <4>3. y[m] = [i \in DOMAIN x[m] |-> ByteSizeLong(d, x[m][i])]
        BY <3>1, <4>1, <4>2 DEF SizedBelow
      <4>4. k \in DOMAIN x[m] /\ y[m][k] = ByteSizeLong(d, z) /\ z \in Msgs[d]
        BY <3>5, <4>1, <4>3, MemberIsSequence
      <4>5. Content(d, z) \in AllContents[d]
        <5>1. m \in FieldNames(c)
          BY FieldsAreMembers
        <5>2. X[m] = MemberSays(c, m, x[m])
          BY <3>3, <5>1, ContentAt
        <5>3. X[m][k] = Content(d, z)
          BY <4>1, <4>4, <5>2, MemberIsSequence, ContentBelow
        <5>4. X[m] \in Seq(AllContents[d]) /\ DOMAIN X[m] = DOMAIN x[m]
          <6>1. X[m] \in Meaning(Schema[c][m]) /\ ShapeIs(c, m, Schema[c][m], Kind(c, m)) /\ Schema[c][m].type = d
            BY <3>3, <4>1, <5>1, ContentsByField, ShapesAre, BelowIsMessage
          <6>2. Meaning(Schema[c][m]) \in {AtMostOne(AllContents[d]), Seq(AllContents[d])}
            BY <6>1 DEF ShapeIs
          <6>3. DOMAIN X[m] = DOMAIN x[m]
            BY <5>2, MemberIsSequence, ContentBelow
          <6> QED
            BY <6>1, <6>2, <6>3 DEF AtMostOne
        <5> QED
          BY <4>4, <5>3, <5>4, ElementOfSeq
      <4>6. Back(d, z)
        BY <1>1, <4>1, <4>4, <4>5
      <4>7. below[m][k] = WholeBytes(ToStream, d, y[m][k])
        BY <3>1, <3>5, <4>1
      <4> QED
        BY <4>1, <4>4, <4>6, <4>7
    <3>6. BelowReadBack(c, y, below)
      BY <3>5 DEF BelowReadBack
    <3>7. Cached(c, y)
      <4>1. ASSUME NEW m \in FieldNames(c), Kind(c, m) = "numbers"
            PROVE  y["_paramtype_cached_byte_size_"] = DataSize(y[m])
        <5>1. m \notin Below(c)
          BY <4>1 DEF Below, IsBelow
        <5>2. y[m] = x[m]
          BY <3>2, <5>1, SizeMembersIs
        <5> QED
          BY <3>2, <4>1, <5>2, SizeMembersIs
      <4> QED
        BY <4>1 DEF Cached
    <3>8. Written(c, y, X, below)
      BY <3>4, <3>6, <3>7 DEF Written
    <3>9. Fits(c, y)
      BY <3>1, SizedFits
    <3>10. s = AllBytes(ToStream[c], c, y, below)
      BY <3>1, BytesUnfold DEF BytesBelow
    <3>11. BytesFor(c, y, below)
      <4>1. \A m \in Below(c) : \A z \in Msgs[ClassBelow(c, m)] :
              Fits(ClassBelow(c, m), ByteSizeLong(ClassBelow(c, m), z))
        BY LowerBelow, SizedFits
      <4> QED
        BY <3>1, <4>1, BelowFit
    <3>12. \A k \in 1 .. Len(ToStream[c]) :
             MemberBytes(c, ToStream[c][k][1], ToStream[c][k][2], y, below) \in Seq(Byte)
      BY <3>2, <3>11, WrittenFit, MemberBytesLength
    <3>13. s \in Seq(Byte) /\ Len(s) = y._cached_size_
      BY <3>1, <3>9 DEF Fits
    <3>14. ASSUME Len(s) <= MaxInt, NEW a \in AllContents[c] PROVE Yields(c, a, s, Merged(c, a, X))
      BY <3>8, <3>10, <3>12, <3>13, <3>14, AllYield
    <3>15. ReadBack(c, y, s)
      BY <3>1, <3>13, <3>14 DEF ReadBack
    <3> QED
      BY <3>1, <3>15
  <2> QED
    BY <2>1
<1>2. \A c \in Classes : c \in G
  <2> HIDE DEF G
  <2> QED
    BY <1>1, ClassInduction DEF Grows
<1> QED
  BY <1>2

-------------------------------------------------------------------------------
(* What is written is read.                                                  *)

\* A catalog that is written is read as it is, into whatever has been read before.
LEMMA CatalogReadBack ==
  ASSUME NEW x \in AllContents["Catalog"], NEW mode, NEW j \in Junk,
         NEW s, s = SerializeToOstream("Catalog", Build("Catalog", x, j), mode), Len(s) <= MaxInt,
         NEW a \in AllContents["Catalog"]
  PROVE  Yields("Catalog", a, s, Merged("Catalog", a, x))
<1>1. PICK c : c = "Catalog" /\ c \in Classes
  BY ClassesAre DEF ClassNames
<1>2. PICK z, y : z = Build(c, x, j) /\ y = ByteSizeLong(c, z)
  OBVIOUS
<1>3. j \in Int
  BY JunkAssumption
<1>4. z \in Msgs[c] /\ Content(c, z) = x
  BY <1>1, <1>2, <1>3, BuildType, BuiltSays
<1>5. y \in Msgs[c] /\ Content(c, y) = x
  BY <1>1, <1>2, <1>4, ByteSizeLongType, SizedSaysSame
<1>6. s = WholeBytes(ToStream, c, y)
  <2>1. PICK below : below = [m \in Below(c) |-> [k \in DOMAIN y[m] |-> WholeBytes(ToStream, ClassBelow(c, m), y[m][k])]]
    OBVIOUS
  <2>2. Serialize(c, y, mode) = AllBytes(ToStream[c], c, y, below)
    BY <1>1, <2>1, TablesAgree DEF Serialize
  <2>3. WholeBytes(ToStream, c, y) = AllBytes(ToStream[c], c, y, below)
    BY <1>1, <1>5, <2>1, BytesUnfold DEF BytesBelow
  <2> QED
    BY <1>1, <1>2, <2>2, <2>3 DEF SerializeToOstream
<1>7. ReadBack(c, y, s)
  BY <1>1, <1>2, <1>4, <1>6, MessageReadBack
<1> QED
  BY <1>1, <1>5, <1>7 DEF ReadBack

\* The contents w, merged one after the other.
AllMerged(w) ==
  LET merged[k \in 0 .. Len(w)] ==
        IF k = 0 THEN Empty("Catalog") ELSE Merged("Catalog", merged[k - 1], w[k])
  IN  merged[Len(w)]

\* The contents that merging w one by one goes through.
MergingRuns(f, w) ==
  /\ f[0] = Empty("Catalog")
  /\ \A k \in 1 .. Len(w) : f[k] = Merged("Catalog", f[k - 1], w[k])

\* It goes through contents of Catalog.
LEMMA AllMergedIsRun ==
  ASSUME NEW w \in Seq(AllContents["Catalog"])
  PROVE  \E f : f \in [0 .. Len(w) -> AllContents["Catalog"]] /\ MergingRuns(f, w) /\ AllMerged(w) = f[Len(w)]
<1>0. PICK n, a, V : n = Len(w) /\ a = Empty("Catalog") /\ V = AllContents["Catalog"]
  OBVIOUS
<1>1. n \in Nat /\ a \in V /\ "Catalog" \in Classes
  BY <1>0, ClassesAre, MergedIntoNothing DEF ClassNames
<1> DEFINE T(k, v) == Merged("Catalog", v, w[k])
<1>3. ASSUME NEW k \in 1 .. n, NEW v \in V PROVE T(k, v) \in V
  <2>1. w[k] \in V
    BY <1>0, ElementOfSeq
  <2> QED
    BY <1>0, <1>1, <2>1, MergedType
<1>4. PICK step : step = [y \in (1 .. n) \X V |-> T(y[1], y[2])]
  OBVIOUS
<1> HIDE DEF T
<1>5. PICK run : Runs(run, n, V, a, step)
  <2>1. step \in [(1 .. n) \X V -> V]
    BY <1>3, <1>4
  <2> QED
    BY <1>1, <2>1, RunExists DEF Steps
<1>6. run \in [0 .. n -> V] /\ run[0] = a /\ \A k \in 1 .. n : run[k] = T(k, run[k - 1])
  BY <1>4, <1>5 DEF Runs
<1> DEFINE Solves(e) == e = [k \in 0 .. n |-> IF k = 0 THEN a ELSE T(k, e[k - 1])]
<1>7. Solves(run)
  <2>1. \A k \in 0 .. n : k # 0 => k \in 1 .. n
    BY <1>1
  <2>2. \A k \in 0 .. n : run[k] = IF k = 0 THEN a ELSE T(k, run[k - 1])
    BY <1>6, <2>1
  <2>3. run = [k \in 0 .. n |-> run[k]]
    BY <1>6
  <2> QED
    BY <2>2, <2>3
<1>8. PICK g : g = CHOOSE e : Solves(e)
  OBVIOUS
<1>9. Solves(g)
  <2> HIDE DEF Solves
  <2> QED
    BY <1>7, <1>8
<1>10. AllMerged(w) = g[n]
  BY <1>0, <1>8, Zenon DEF AllMerged, T
<1>11. g[0] = a /\ \A k \in 1 .. n : g[k] = T(k, g[k - 1])
  <2>1. \A k \in 1 .. n : k # 0 /\ k \in 0 .. n
    BY <1>1
  <2>2. 0 \in 0 .. n
    BY <1>1
  <2> QED
    BY <1>9, <2>1, <2>2
<1>12. g \in [0 .. n -> V]
  <2>1. Alike(run, g, n)
    BY <1>1, <1>6, <1>11 DEF Alike
  <2>2. \A k \in 0 .. n : run[k] = g[k]
    BY <2>1, RunsAgree
  <2>3. g = [k \in 0 .. n |-> g[k]]
    BY <1>9
  <2> QED
    BY <1>6, <2>2, <2>3
<1> QED
  BY <1>0, <1>10, <1>11, <1>12 DEF MergingRuns, T

\* Writing one more merges one more.
LEMMA MergingEnds ==
  /\ AllMerged(<< >>) = Empty("Catalog")
  /\ \A w \in Seq(AllContents["Catalog"]) : \A x \in AllContents["Catalog"] :
       /\ AllMerged(w) \in AllContents["Catalog"]
       /\ AllMerged(Append(w, x)) = Merged("Catalog", AllMerged(w), x)
<1>1. AllMerged(<< >>) = Empty("Catalog")
  <2>1. PICK w : w = << >>
    OBVIOUS
  <2>2. w \in Seq(AllContents["Catalog"]) /\ Len(w) = 0
    BY <2>1, EmptySeq
  <2>3. PICK f : MergingRuns(f, w) /\ AllMerged(w) = f[0]
    BY <2>2, AllMergedIsRun
  <2> QED
    BY <2>1, <2>3 DEF MergingRuns
<1>2. ASSUME NEW w \in Seq(AllContents["Catalog"]), NEW x \in AllContents["Catalog"]
      PROVE  /\ AllMerged(w) \in AllContents["Catalog"]
             /\ AllMerged(Append(w, x)) = Merged("Catalog", AllMerged(w), x)
  <2>1. PICK v, n : v = Append(w, x) /\ n = Len(w)
    OBVIOUS
  <2>2. /\ v \in Seq(AllContents["Catalog"]) /\ n \in Nat /\ Len(v) = n + 1
        /\ v[n + 1] = x /\ \A k \in 1 .. n : v[k] = w[k]
    BY <2>1, AppendProperties
  <2>3. PICK f : f \in [0 .. n -> AllContents["Catalog"]] /\ MergingRuns(f, w) /\ AllMerged(w) = f[n]
    BY <2>1, AllMergedIsRun
  <2>4. PICK g : MergingRuns(g, v) /\ AllMerged(v) = g[n + 1]
    BY <2>2, AllMergedIsRun
  <2>5. Alike(f, g, n)
    <3>1. f[0] = g[0]
      BY <2>3, <2>4 DEF MergingRuns
    <3>2. ASSUME NEW k \in 1 .. n, f[k - 1] = g[k - 1] PROVE f[k] = g[k]
      <4>1. k \in 1 .. n + 1
        BY <2>2
      <4>2. f[k] = Merged("Catalog", f[k - 1], w[k]) /\ g[k] = Merged("Catalog", g[k - 1], v[k])
        BY <2>1, <2>2, <2>3, <2>4, <4>1 DEF MergingRuns
      <4> QED
        BY <2>2, <3>2, <4>2
    <3> QED
      BY <2>2, <3>1, <3>2 DEF Alike
  <2>6. f[n] = g[n] /\ n \in 0 .. n
    BY <2>5, RunsAgree
  <2>7. g[n + 1] = Merged("Catalog", g[n], x)
    <3>1. n + 1 \in 1 .. n + 1 /\ (n + 1) - 1 = n
      BY <2>2
    <3> QED
      BY <2>2, <2>4, <3>1 DEF MergingRuns
  <2> QED
    BY <2>1, <2>3, <2>4, <2>6, <2>7
<1> QED
  BY <1>1, <1>2

\* A document that says what its catalog says.
Faithful ==
  {d \in [on : {"cout", "cerr"}, catalog : AllContents["Catalog"], content : AllContents["Catalog"]] :
     d.content = d.catalog}

\* As long as nothing was cut and nobody else wrote, the file is read as everything that
\* was written, whatever follows in it.
WrittenInv ==
  /\ file \in Seq(Byte) /\ writes \in Seq(AllContents["Catalog"]) /\ printed \in Seq(Faithful)
  /\ ~ bad /\ ~ foreign => Yields("Catalog", Empty("Catalog"), file, Everything)
  /\ result # << >> /\ ~ bad /\ ~ foreign => result[1].ok /\ result[1].content = Everything

\* Everything is what was written, merged.
LEMMA EverythingIs == Everything = AllMerged(writes)
BY DEF Everything, AllMerged

\* It is so after a step.
LEMMA EverythingNow == (Everything)' = AllMerged(writes')
BY DEF Everything, AllMerged

\* The catalogs written are contents of Catalog.
LEMMA WrittenCatalogs == Catalogs \subseteq AllContents["Catalog"] /\ "Catalog" \in Classes
<1>1. "Catalog" \in Classes
  BY ClassesAre DEF ClassNames
<1> QED
  BY <1>1, CatalogsAssumption DEF AllContents

\* An empty file is everything that was written to it.
LEMMA WrittenStarts == FileInit => WrittenInv
<1>1. SUFFICES ASSUME FileInit PROVE WrittenInv
  OBVIOUS
<1>2. file = << >> /\ writes = << >> /\ printed = << >> /\ result = << >>
  BY <1>1 DEF FileInit
<1>3. Everything = Empty("Catalog")
  BY <1>2, EverythingIs, MergingEnds
<1>4. Yields("Catalog", Empty("Catalog"), file, Everything)
  BY <1>2, <1>3, YieldsNothing
<1>5. file \in Seq(Byte) /\ writes \in Seq(AllContents["Catalog"]) /\ printed \in Seq(Faithful)
  BY <1>2, EmptySeq
<1> QED
  BY <1>2, <1>4, <1>5 DEF WrittenInv

\* A write that reaches the stream whole adds the catalog to what the file says.
LEMMA WriteAdds ==
  ASSUME WrittenInv, NEW x \in Catalogs, NEW mode, NEW j \in Junk, WriteProtobuf(x, mode, j)
  PROVE  WrittenInv'
<1>1. PICK s, cut :
        /\ s = SerializeToOstream("Catalog", Build("Catalog", x, j), mode)
        /\ Len(s) <= MaxInt
        /\ cut \in IF bad THEN {0} ELSE 0 .. Len(s)
        /\ file' = file \o SubSeq(s, 1, cut)
        /\ bad' = (bad \/ cut < Len(s))
  BY DEF WriteProtobuf
<1>2. s \in Seq(Byte) /\ x \in AllContents["Catalog"] /\ "Catalog" \in Classes
  BY <1>1, WrittenAreBytes, WrittenCatalogs
<1>3. cut \in 0 .. Len(s)
  BY <1>1, <1>2, SMT
<1>4. SubSeq(s, 1, cut) \in Seq(Byte)
  <2>1. \A i \in 1 .. cut : s[i] \in Byte
    BY <1>2, <1>3, ElementOfSeq, SMT
  <2>2. cut \in Int
    BY <1>2, <1>3, SMT
  <2> QED
    BY <2>1, <2>2, SubSeqProperties, SMT
<1>5. file' \in Seq(Byte)
  BY <1>1, <1>4, ConcatProperties DEF WrittenInv
<1>6. /\ result = << >> /\ result' = result /\ printed' = printed /\ foreign' = foreign
      /\ writes' = IF bad THEN writes ELSE Append(writes, x)
  BY DEF WriteProtobuf, Unread
<1>7. writes' \in Seq(AllContents["Catalog"])
  BY <1>2, <1>6, AppendProperties DEF WrittenInv
<1>8. ASSUME ~ bad', ~ foreign'
      PROVE  Yields("Catalog", Empty("Catalog"), file', (Everything)')
  <2>1. ~ (bad \/ cut < Len(s))
    BY <1>1, <1>8, Zenon
  <2>2. ~ bad /\ ~ foreign /\ cut = Len(s)
    <3>1. ~ bad /\ ~ (cut < Len(s))
      BY <2>1
    <3>2. cut = Len(s)
      BY <1>2, <1>3, <3>1, SMT
    <3> QED
      BY <1>6, <1>8, <3>1, <3>2, Zenon
  <2>3. SubSeq(s, 1, cut) = s
    BY <1>2, <2>2, SubSeqFull
  <2>4. PICK a, e : a = Everything /\ e = Empty("Catalog")
    OBVIOUS
  <2>5. a \in AllContents["Catalog"] /\ (Everything)' = Merged("Catalog", a, x)
    <3>1. writes' = Append(writes, x) /\ writes \in Seq(AllContents["Catalog"])
      BY <1>6, <2>2 DEF WrittenInv
    <3> QED
      BY <1>2, <2>4, <3>1, EverythingIs, EverythingNow, MergingEnds
  <2>6. Yields("Catalog", e, file, a)
    BY <2>2, <2>4 DEF WrittenInv
  <2>7. Yields("Catalog", a, s, Merged("Catalog", a, x))
    BY <1>1, <1>2, <2>5, CatalogReadBack
  <2>8. Yields("Catalog", e, file \o s, Merged("Catalog", a, x))
    BY <1>2, <2>6, <2>7, YieldsBoth
  <2> QED
    BY <1>1, <2>3, <2>4, <2>5, <2>8
<1>9. printed' \in Seq(Faithful)
  BY <1>6 DEF WrittenInv
<1>10. result' = << >>
  BY <1>6
<1> QED
  BY <1>5, <1>7, <1>8, <1>9, <1>10 DEF WrittenInv

\* A document in another format says what its catalog says, and the file stays.
LEMMA DocumentAdds ==
  ASSUME WrittenInv, NEW d \in Faithful, printed' = Append(printed, d),
         UNCHANGED <<file, bad, writes, foreign, result>>
  PROVE  WrittenInv'
<1>1. printed' \in Seq(Faithful)
  BY AppendProperties DEF WrittenInv
<1>2. (Everything)' = Everything
  BY EverythingIs, EverythingNow
<1> QED
  BY <1>1, <1>2 DEF WrittenInv

\* The JSON document says what the catalog says.
LEMMA JsonFaithful ==
  ASSUME NEW x \in Catalogs, NEW j \in Junk, NEW s,
         s = SerializeToOstream("Catalog", Build("Catalog", x, j), "array"), Len(s) <= MaxInt
  PROVE  Decode("Catalog", s).content = x
<1>1. x \in AllContents["Catalog"] /\ "Catalog" \in Classes
  BY WrittenCatalogs
<1>2. PICK e : e = Empty("Catalog") /\ e \in AllContents["Catalog"] /\ Merged("Catalog", e, x) = x
  BY <1>1, MergedIntoNothing
<1>3. Yields("Catalog", e, s, x)
  <2>1. Yields("Catalog", e, s, Merged("Catalog", e, x))
    BY <1>1, <1>2, CatalogReadBack
  <2> QED
    BY <1>2, <2>1
<1>4. DecodeInto("Catalog", e, s) = Reading(x)
  BY <1>1, <1>3, YieldsAll
<1> QED
  BY <1>2, <1>4 DEF Decode, Reading

\* Reading the file.
LEMMA ReadSays ==
  ASSUME WrittenInv, NEW j \in Junk, ReadFile(j)
  PROVE  WrittenInv'
<1>1. "Catalog" \in Classes /\ j \in Int
  BY ClassesAre, JunkAssumption DEF ClassNames
<1>2. PICK x, r : x = New("Catalog", j) /\ r = ParseFromIstream("Catalog", x, file, j)
  OBVIOUS
<1>3. x \in Msgs["Catalog"]
  BY <1>1, <1>2, NewType
<1>4. /\ file' = file /\ bad' = bad /\ writes' = writes /\ foreign' = foreign /\ printed' = printed
      /\ file \in Seq(Byte)
  BY DEF ReadFile, WrittenInv
<1>5. result' = << [ok |-> r.ok, content |-> Content("Catalog", r.msg)] >>
  BY <1>2 DEF ReadFile
<1>6. PICK u, v : u = r.ok /\ v = Content("Catalog", r.msg)
  OBVIOUS
<1>7. result'[1].ok = u /\ result'[1].content = v
  BY <1>5, <1>6
<1>8. (Everything)' = Everything
  BY <1>4, EverythingIs, EverythingNow
<1>9. ASSUME ~ bad, ~ foreign PROVE u /\ v = Everything
  <2>1. Yields("Catalog", Empty("Catalog"), file, Everything)
    BY <1>9 DEF WrittenInv
  <2>2. DecodeInto("Catalog", Empty("Catalog"), file) = Reading(Everything)
    BY <1>1, <2>1, YieldsAll
  <2>3. PICK b, d : b = Everything /\ d = Decode("Catalog", file)
    OBVIOUS
  <2>4. d = [ok |-> TRUE, content |-> b]
    BY <2>2, <2>3 DEF Decode, Reading
  <2>5. d.ok = TRUE
    BY <2>4, Zenon
  <2>6. d.ok /\ d.content = b
    <3>1. d.ok
      BY <2>5, Zenon
    <3>2. d.content = b
      BY <2>4
    <3> QED
      BY <3>1, <3>2, Zenon
  <2>7. Decode("Catalog", file).ok
    BY <2>3, <2>6, Zenon
  <2>8. u /\ v = Decode("Catalog", file).content
    BY <1>1, <1>2, <1>3, <1>4, <1>6, <2>7, ReadAlike
  <2> QED
    BY <2>3, <2>6, <2>8
<1>10. ASSUME ~ bad', ~ foreign' PROVE result'[1].ok /\ result'[1].content = (Everything)'
  <2>1. ~ bad /\ ~ foreign
    BY <1>4, <1>10, Zenon
  <2>2. u /\ v = Everything
    BY <1>9, <2>1
  <2> QED
    BY <1>7, <1>8, <2>2, Zenon
<1>11. ~ bad' /\ ~ foreign' => Yields("Catalog", Empty("Catalog"), file', (Everything)')
  <2>1. ~ bad /\ ~ foreign => Yields("Catalog", Empty("Catalog"), file, Everything)
    BY DEF WrittenInv
  <2> QED
    BY <1>4, <1>8, <2>1
<1> QED
  BY <1>4, <1>10, <1>11 DEF WrittenInv

\* Every step of the file keeps it so.
LEMMA FileNextSays ==
  ASSUME WrittenInv, [FileNext]_fileVars
  PROVE  WrittenInv'
<1>1. CASE UNCHANGED fileVars
  <2>1. UNCHANGED <<file, bad, writes, foreign, printed, result>>
    BY <1>1 DEF fileVars
  <2>2. (Everything)' = Everything
    BY <2>1, EverythingIs, EverythingNow
  <2> QED
    BY <2>1, <2>2 DEF WrittenInv
<1>2. ASSUME NEW j \in Junk, NEW c \in Catalogs, NEW mode \in {"stream", "array"}, WriteProtobuf(c, mode, j)
      PROVE  WrittenInv'
  BY <1>2, WriteAdds
<1>3. ASSUME NEW j \in Junk, NEW c \in Catalogs, WriteJson(c, j)
      PROVE  WrittenInv'
  <2>1. PICK s : /\ s = SerializeToOstream("Catalog", Build("Catalog", c, j), "array") /\ Len(s) <= MaxInt
                 /\ printed' = Append(printed, [on |-> "cout", catalog |-> c,
                                                content |-> Decode("Catalog", s).content])
    BY <1>3 DEF WriteJson
  <2>2. Decode("Catalog", s).content = c /\ c \in AllContents["Catalog"]
    BY <2>1, JsonFaithful, WrittenCatalogs
  <2>3. PICK d : d = [on |-> "cout", catalog |-> c, content |-> c]
    OBVIOUS
  <2>4. d \in Faithful
    BY <2>2, <2>3 DEF Faithful
  <2>5. printed' = Append(printed, d)
    BY <2>1, <2>2, <2>3
  <2>6. UNCHANGED <<file, bad, writes, foreign, result>>
    BY <1>3 DEF WriteJson
  <2> QED
    BY <2>4, <2>5, <2>6, DocumentAdds
<1>4. ASSUME NEW j \in Junk, NEW c \in Catalogs, WriteDebugString(c, j)
      PROVE  WrittenInv'
  <2>1. c \in AllContents["Catalog"] /\ "Catalog" \in Classes /\ j \in Int
    BY WrittenCatalogs, JunkAssumption
  <2>2. Content("Catalog", Build("Catalog", c, j)) = c
    BY <2>1, BuiltSays
  <2>3. PICK d : d = [on |-> "cerr", catalog |-> c, content |-> c]
    OBVIOUS
  <2>4. d \in Faithful
    BY <2>1, <2>3 DEF Faithful
  <2>5. printed' = Append(printed, d)
    BY <1>4, <2>2, <2>3 DEF WriteDebugString
  <2>6. UNCHANGED <<file, bad, writes, foreign, result>>
    BY <1>4 DEF WriteDebugString
  <2> QED
    BY <2>4, <2>5, <2>6, DocumentAdds
<1>5. ASSUME NEW more \in Foreign, WriteForeign(more)
      PROVE  WrittenInv'
  <2>1. more \in Seq(Byte) /\ file \in Seq(Byte) /\ file' = file \o more
    BY <1>5, ForeignAssumption DEF WriteForeign, WrittenInv
  <2>2. file' \in Seq(Byte)
    BY <2>1, ConcatProperties
  <2>3. foreign' /\ writes' = writes /\ printed' = printed
    BY <1>5 DEF WriteForeign
  <2> QED
    BY <2>2, <2>3 DEF WrittenInv
<1>6. ASSUME NEW j \in Junk, ReadFile(j)
      PROVE  WrittenInv'
  BY <1>6, ReadSays
<1> QED
  BY <1>1, <1>2, <1>3, <1>4, <1>5, <1>6 DEF FileNext

\* A file that was written whole, in however many writes, of catalogs of any size, is read
\* without an exception as all that was written, and the JSON and the debug documents
\* say what their catalog says.
THEOREM CatalogsAreReadBack == FileSpec => []WrittenIsRead
<1>1. WrittenInv => WrittenIsRead
  <2>1. SUFFICES ASSUME WrittenInv PROVE WrittenIsRead
    OBVIOUS
  <2>2. ASSUME NEW k \in 1 .. Len(printed) PROVE printed[k].content = printed[k].catalog
    <3>1. printed[k] \in Faithful
      BY <2>1, ElementOfSeq DEF WrittenInv
    <3> QED
      BY <3>1 DEF Faithful
  <2> QED
    BY <2>1, <2>2 DEF WrittenInv, WrittenIsRead
<1> QED
  BY <1>1, WrittenStarts, FileNextSays, PTL DEF FileSpec

-------------------------------------------------------------------------------
(* What the member functions do to what a message says.                      *)

\* Every field is merged, copied and exchanged.
LEMMA MergedAre == \A c \in Classes : FieldNames(c) \subseteq MergedIn[c]
<1>1. /\ MergedIn["RecordField"] = RecordFieldMerge /\ MergedIn["EnumValue"] = EnumValueMerge
      /\ MergedIn["Type"] = TypeMerge /\ MergedIn["Value"] = ValueMerge
      /\ MergedIn["Export"] = ExportMerge /\ MergedIn["Catalog"] = CatalogMerge
  BY DEF MergedIn
<1>2. FieldNames("RecordField") \subseteq RecordFieldMerge /\ FieldNames("Export") \subseteq ExportMerge
  BY FieldsAre DEF RecordFieldMerge, ExportMerge
<1>3. /\ FieldNames("EnumValue") \subseteq EnumValueMerge /\ FieldNames("Value") \subseteq ValueMerge
      /\ FieldNames("Catalog") \subseteq CatalogMerge
  BY FieldsAre DEF EnumValueMerge, ValueMerge, CatalogMerge
<1>4. FieldNames("Type") \subseteq TypeMerge
  BY FieldsAre DEF TypeMerge, TypeFields
<1> QED
  BY <1>1, <1>2, <1>3, <1>4, ClassesAre DEF ClassNames

\* The copy constructor does not.
LEMMA CopiedAre == \A c \in Classes : FieldNames(c) \subseteq Copied[c]
<1>1. /\ Copied["RecordField"] = RecordFieldCopy /\ Copied["EnumValue"] = EnumValueCopy
      /\ Copied["Type"] = TypeCopy /\ Copied["Value"] = ValueCopy
      /\ Copied["Export"] = ExportCopy /\ Copied["Catalog"] = CatalogCopy
  BY DEF Copied
<1>2. FieldNames("RecordField") \subseteq RecordFieldCopy /\ FieldNames("Export") \subseteq ExportCopy
  BY FieldsAre DEF RecordFieldCopy, ExportCopy
<1>3. /\ FieldNames("EnumValue") \subseteq EnumValueCopy /\ FieldNames("Value") \subseteq ValueCopy
      /\ FieldNames("Catalog") \subseteq CatalogCopy
  BY FieldsAre DEF EnumValueCopy, ValueCopy, CatalogCopy
<1>4. FieldNames("Type") \subseteq TypeCopy
  BY FieldsAre, SpansAre DEF TypeCopy, TypeFields
<1> QED
  BY <1>1, <1>2, <1>3, <1>4, ClassesAre DEF ClassNames

\* InternalSwap does not.
LEMMA SwappedAre == \A c \in Classes : FieldNames(c) \subseteq Swapped[c]
<1>1. /\ Swapped["RecordField"] = RecordFieldSwap /\ Swapped["EnumValue"] = EnumValueSwap
      /\ Swapped["Type"] = TypeSwap /\ Swapped["Value"] = ValueSwap
      /\ Swapped["Export"] = ExportSwap /\ Swapped["Catalog"] = CatalogSwap
  BY DEF Swapped
<1>2. FieldNames("RecordField") \subseteq RecordFieldSwap /\ FieldNames("Export") \subseteq ExportSwap
  BY FieldsAre DEF RecordFieldSwap, ExportSwap
<1>3. /\ FieldNames("EnumValue") \subseteq EnumValueSwap /\ FieldNames("Value") \subseteq ValueSwap
      /\ FieldNames("Catalog") \subseteq CatalogSwap
  BY FieldsAre DEF EnumValueSwap, ValueSwap, CatalogSwap
<1>4. FieldNames("Type") \subseteq TypeSwap
  BY FieldsAre DEF TypeSwap, TypeFields
<1> QED
  BY <1>1, <1>2, <1>3, <1>4, ClassesAre DEF ClassNames

\* Messages that hold alike say alike.
LEMMA SaysAlike ==
  ASSUME NEW c \in Classes, NEW x \in Msgs[c], NEW y \in Msgs[c],
         \A n \in FieldNames(c) : MemberSays(c, n, x[n]) = MemberSays(c, n, y[n])
  PROVE  Content(c, x) = Content(c, y)
BY SaysIs DEF MemberSays

\* What lists of messages say, one after the other.
LEMMA SpokenBoth ==
  ASSUME NEW d, NEW S, NEW s \in Seq(S), NEW t \in Seq(S)
  PROVE  Spoken(d, s \o t) = Spoken(d, s) \o Spoken(d, t)
<1>1. PICK u, a, b, V : /\ u = s \o t /\ a = Spoken(d, s) /\ b = Spoken(d, t)
                        /\ V = {Content(d, e) : e \in S}
  OBVIOUS
<1>2. /\ u \in Seq(S) /\ Len(u) = Len(s) + Len(t)
      /\ \A k \in 1 .. Len(s) + Len(t) : u[k] = IF k <= Len(s) THEN s[k] ELSE t[k - Len(s)]
  BY <1>1, ConcatProperties
<1>3. ASSUME NEW r \in Seq(S)
      PROVE  Spoken(d, r) \in Seq(V) /\ Len(Spoken(d, r)) = Len(r) /\ \A k \in 1 .. Len(r) : Spoken(d, r)[k] = Content(d, r[k])
  <2>1. PICK f : f = Spoken(d, r) /\ f = [k \in DOMAIN r |-> Content(d, r[k])]
    BY DEF Spoken
  <2>2. \A k \in DOMAIN r : r[k] \in S
    BY ElementOfSeq
  <2>3. f = [k \in DOMAIN r |-> f[k]] /\ \A k \in DOMAIN r : f[k] \in V
    BY <1>1, <2>1, <2>2
  <2>4. f \in Seq(V) /\ Len(f) = Len(r)
    BY <2>3, Mapped
  <2> QED
    BY <2>1, <2>4
<1>4. PICK e : e = Spoken(d, u) /\ e \in Seq(V) /\ Len(e) = Len(s) + Len(t) /\ \A k \in 1 .. Len(u) : e[k] = Content(d, u[k])
  BY <1>2, <1>3
<1>5. /\ a \in Seq(V) /\ Len(a) = Len(s) /\ \A k \in 1 .. Len(s) : a[k] = Content(d, s[k])
      /\ b \in Seq(V) /\ Len(b) = Len(t) /\ \A k \in 1 .. Len(t) : b[k] = Content(d, t[k])
  BY <1>1, <1>3
<1>6. PICK f : f = a \o b
  OBVIOUS
<1>7. /\ f \in Seq(V) /\ Len(f) = Len(s) + Len(t)
      /\ \A k \in 1 .. Len(s) + Len(t) : f[k] = IF k <= Len(s) THEN a[k] ELSE b[k - Len(s)]
  <2>1. a \in Seq(V) /\ b \in Seq(V)
    BY <1>5
  <2>2. /\ f \in Seq(V) /\ Len(f) = Len(a) + Len(b)
        /\ \A k \in 1 .. Len(a) + Len(b) : f[k] = IF k <= Len(a) THEN a[k] ELSE b[k - Len(a)]
    BY <1>6, <2>1, ConcatProperties
  <2>3. Len(a) = Len(s) /\ Len(b) = Len(t)
    BY <1>5
  <2> QED
    BY <2>2, <2>3
<1>8. ASSUME NEW k \in 1 .. Len(s) + Len(t) PROVE e[k] = f[k]
  <2>1. CASE k <= Len(s)
    <3>1. k \in 1 .. Len(s) /\ k \in 1 .. Len(u)
      BY <1>2, <2>1
    <3>2. e[k] = Content(d, s[k])
      BY <1>2, <1>4, <2>1, <3>1
    <3>3. f[k] = Content(d, s[k])
      BY <1>5, <1>7, <2>1, <3>1
    <3> QED
      BY <3>2, <3>3
  <2>2. CASE ~ (k <= Len(s))
    <3>1. k - Len(s) \in 1 .. Len(t) /\ k \in 1 .. Len(u)
      BY <1>2, <2>2
    <3>2. e[k] = Content(d, t[k - Len(s)])
      BY <1>2, <1>4, <2>2, <3>1
    <3>3. f[k] = Content(d, t[k - Len(s)])
      BY <1>5, <1>7, <2>2, <3>1
    <3> QED
      BY <3>2, <3>3
  <2> QED
    BY <2>1, <2>2
<1>9. e = f
  BY <1>4, <1>7, <1>8, SeqEqual
<1> QED
  BY <1>1, <1>4, <1>6, <1>9

\* Merging two messages of Value merges what they say.
LEMMA MergeScalarsSays ==
  ASSUME NEW to \in Msgs["Value"], NEW from \in Msgs["Value"]
  PROVE  Content("Value", MergeScalars("Value", to, from))
           = MergedScalars("Value", Content("Value", to), Content("Value", from))
<1>0. PICK c : c = "Value" /\ c \in Classes /\ Below(c) = {}
  BY ClassesAre, BelowAre DEF ClassNames
<1>1. PICK z, a, x : z = MergeScalars(c, to, from) /\ a = Content(c, to) /\ x = Content(c, from)
  OBVIOUS
<1>2. z \in Msgs[c]
  BY <1>0, <1>1, MergeScalarsType
<1>3. ASSUME NEW n \in FieldNames(c)
      PROVE  z[n] = IF x[n] = Absent(Schema[c][n]) THEN a[n] ELSE x[n]
  <2>1. n \in MemberNames(c) /\ n \in MergedIn[c]
    BY <1>0, FieldsAreMembers, MergedAre
  <2>2. a[n] = to[n] /\ x[n] = from[n]
    BY <1>0, <1>1, ContentAt DEF MemberSays
  <2>3. Absent(Schema[c][n]) = Default(Kind(c, n))
    BY <1>0, AbsentIs
  <2> QED
    BY <1>1, <2>1, <2>2, <2>3, Zenon DEF MergeScalars
<1>4. Content(c, z) = [n \in FieldNames(c) |-> z[n]]
  BY <1>0, <1>2, SaysIs
<1>5. Content(c, z) = MergedScalars(c, a, x)
  BY <1>3, <1>4, Zenon DEF MergedScalars
<1> QED
  BY <1>0, <1>1, <1>5

\* The messages below are copied: as long a list, that says the same.
CopiesSay(c, from, copies) ==
  \A m \in Below(c) : /\ copies[m] \in Held(c, m, Msgs)
                      /\ MemberSays(c, m, copies[m]) = MemberSays(c, m, from[m])

\* MergeFrom of a member does to what it says what merging is by the descriptor.
LEMMA MemberMerges ==
  ASSUME NEW c \in Classes, NEW to \in Msgs[c], NEW from \in Msgs[c], NEW copies, CopiesSay(c, from, copies),
         NEW n \in FieldNames(c)
  PROVE  MemberSays(c, n, MergeMembers(c, to, from, copies)[n])
           = MergedAs(Schema[c][n], MemberSays(c, n, to[n]), MemberSays(c, n, from[n]))
<1>1. PICK z, f, kind, a, x, d :
        /\ z = MergeMembers(c, to, from, copies)[n] /\ f = Schema[c][n] /\ kind = Kind(c, n)
        /\ a = MemberSays(c, n, to[n]) /\ x = MemberSays(c, n, from[n]) /\ d = ClassBelow(c, n)
  OBVIOUS
<1>2. n \in MemberNames(c) /\ n \in MergedIn[c]
  BY FieldsAreMembers, MergedAre
<1>3. ShapeIs(c, n, f, kind) /\ Absent(f) = Default(kind)
  BY <1>1, ShapesAre
<1>4. to[n] \in Held(c, n, Msgs) /\ from[n] \in Held(c, n, Msgs)
  BY <1>2, MsgIs
<1>5. CASE from[n] = Default(kind)
  <2>1. z = to[n]
    BY <1>1, <1>2, <1>5 DEF MergeMembers
  <2>2. x = Absent(f)
    <3>1. CASE n \notin Below(c)
      BY <1>1, <1>3, <1>5, <3>1 DEF MemberSays
    <3>2. CASE n \in Below(c)
      <4>1. from[n] = << >>
        BY <1>1, <1>2, <1>5, <3>2, HeldIs, DefaultIs
      <4> QED
        BY <1>1, <1>3, <1>5, <3>2, <4>1, SpokenIs DEF MemberSays
    <3> QED
      BY <3>1, <3>2
  <2> QED
    BY <1>1, <2>1, <2>2 DEF MergedAs
<1>6. CASE from[n] # Default(kind) /\ n \notin Below(c)
  <2>1. a = to[n] /\ x = from[n] /\ MemberSays(c, n, z) = z
    BY <1>1, <1>6 DEF MemberSays
  <2>2. kind \in Kinds \ {"pointer", "messages"}
    BY <1>1, <1>2, <1>6, HeldIs
  <2>3. CASE kind = "numbers"
    <3>1. z = to[n] \o from[n]
      BY <1>1, <1>2, <1>6, <2>3 DEF MergeMembers
    <3>2. f.repeated
      BY <1>3, <2>3 DEF ShapeIs
    <3> QED
      BY <1>1, <1>3, <1>6, <2>1, <3>1, <3>2 DEF MergedAs
  <2>4. CASE kind # "numbers"
    <3>1. z = from[n]
      BY <1>1, <1>2, <1>6, <2>2, <2>4 DEF MergeMembers, Kinds
    <3>2. ~ f.repeated /\ ~ IsMessage(f)
      BY <1>3, <1>6, <2>4 DEF ShapeIs
    <3> QED
      BY <1>1, <1>3, <1>6, <2>1, <3>1, <3>2 DEF MergedAs
  <2> QED
    BY <2>3, <2>4
<1>7. CASE from[n] # Default(kind) /\ n \in Below(c)
  <2>1. /\ kind \in {"pointer", "messages"} /\ Default(kind) = << >> /\ d \in Classes
        /\ to[n] \in Seq(Msgs[d]) /\ from[n] \in Seq(Msgs[d])
    BY <1>1, <1>2, <1>4, <1>7, HeldIs, DefaultIs, LowerBelow
  <2>2. a = Spoken(d, to[n]) /\ x = Spoken(d, from[n]) /\ MemberSays(c, n, z) = Spoken(d, z)
    BY <1>1, <1>7 DEF MemberSays
  <2>3. x # Absent(f)
    <3>1. x = << >> <=> from[n] = << >>
      BY <1>1, <1>7, <2>1, ContentBelow
    <3> QED
      BY <1>3, <1>7, <2>1, <3>1
  <2>4. copies[n] \in Seq(Msgs[d]) /\ Spoken(d, copies[n]) = x
    <3>1. copies[n] \in Held(c, n, Msgs) /\ MemberSays(c, n, copies[n]) = x
      BY <1>1, <1>7 DEF CopiesSay
    <3> QED
      BY <1>1, <1>2, <1>7, <3>1, HeldIs DEF MemberSays
  <2>5. CASE kind = "messages"
    <3>1. z = to[n] \o copies[n]
      BY <1>1, <1>2, <1>7, <2>5 DEF MergeMembers
    <3>2. f.repeated
      BY <1>3, <2>5 DEF ShapeIs
    <3>3. Spoken(d, to[n] \o copies[n]) = Spoken(d, to[n]) \o Spoken(d, copies[n])
      BY <2>1, <2>4, SpokenBoth
    <3> QED
      BY <1>1, <2>2, <2>3, <2>4, <3>1, <3>2, <3>3 DEF MergedAs
  <2>6. CASE kind = "pointer"
    <3>1. ~ f.repeated /\ IsMessage(f) /\ f.type = "Value" /\ d = "Value"
      BY <1>1, <1>3, <2>6, PointersAreValues DEF ShapeIs
    <3>2. a = << >> <=> to[n] = << >>
      BY <1>1, <1>7, <2>1, ContentBelow
    <3>3. CASE to[n] = << >>
      <4>1. z = copies[n]
        BY <1>1, <1>2, <1>7, <2>6, <3>3 DEF MergeMembers
      <4> QED
        BY <1>1, <2>2, <2>3, <2>4, <3>1, <3>2, <3>3, <4>1 DEF MergedAs
    <3>4. CASE to[n] # << >>
      <4>1. z = << MergeScalars("Value", to[n][1], from[n][1]) >>
        BY <1>1, <1>2, <1>7, <2>6, <3>1, <3>4 DEF MergeMembers
      <4>2. to[n] \in AtMostOne(Msgs[d]) /\ from[n] \in AtMostOne(Msgs[d])
        BY <1>1, <1>2, <1>4, <2>6, HeldIs
      <4>3. to[n][1] \in Msgs["Value"] /\ from[n][1] \in Msgs["Value"] /\ DOMAIN to[n] = {1} /\ DOMAIN from[n] = {1}
        BY <1>7, <2>1, <3>1, <3>4, <4>2, PointerIs
      <4>4. a[1] = Content("Value", to[n][1]) /\ x[1] = Content("Value", from[n][1])
        BY <2>2, <3>1, <4>3 DEF Spoken
      <4>5. Spoken(d, z) = << MergedScalars("Value", a[1], x[1]) >>
        BY <3>1, <4>1, <4>3, <4>4, MergeScalarsSays, SpokenIs
      <4> QED
        BY <1>1, <2>2, <2>3, <3>1, <3>2, <3>4, <4>5 DEF MergedAs
    <3> QED
      BY <3>3, <3>4
  <2> QED
    BY <2>1, <2>5, <2>6
<1> QED
  BY <1>1, <1>5, <1>6, <1>7

\* MergeFrom of all members merges what the messages say.
LEMMA MergeMembersSays ==
  ASSUME NEW c \in Classes, NEW to \in Msgs[c], NEW from \in Msgs[c], NEW copies, CopiesSay(c, from, copies)
  PROVE  Content(c, MergeMembers(c, to, from, copies)) = Merged(c, Content(c, to), Content(c, from))
<1>1. PICK z, a, x : z = MergeMembers(c, to, from, copies) /\ a = Content(c, to) /\ x = Content(c, from)
  OBVIOUS
<1>2. z \in Msgs[c]
  BY <1>1, MergeMembersType DEF CopiesSay
<1>3. ASSUME NEW n \in FieldNames(c)
      PROVE  MemberSays(c, n, z[n]) = MergedAs(Schema[c][n], a[n], x[n])
  BY <1>1, ContentAt, MemberMerges
<1>4. Content(c, z) = [n \in FieldNames(c) |-> MemberSays(c, n, z[n])]
  BY <1>2, SaysIs DEF MemberSays
<1>5. Content(c, z) = [n \in FieldNames(c) |-> MergedAs(Schema[c][n], a[n], x[n])]
  BY <1>3, <1>4, Zenon
<1> QED
  BY <1>1, <1>5, MergedIs

\* A message that says a content of its class.
Saying(c, x) == x \in Msgs[c] /\ Content(c, x) \in AllContents[c]

\* Then the messages below it do.
LEMMA SayingBelow ==
  ASSUME NEW c \in Classes, NEW x, Saying(c, x), NEW m \in Below(c)
  PROVE  \A k \in DOMAIN x[m] : Saying(ClassBelow(c, m), x[m][k])
<1>1. PICK d, s, z : d = ClassBelow(c, m) /\ s = x[m] /\ z = Content(c, x)[m]
  OBVIOUS
<1>2. m \in FieldNames(c) /\ d \in Classes /\ x \in Msgs[c]
  BY <1>1, FieldsAreMembers, LowerBelow DEF Saying
<1>3. s \in Seq(Msgs[d]) /\ \A k \in DOMAIN s : s[k] \in Msgs[d]
  BY <1>1, <1>2, MemberIsSequence
<1>4. z = MemberSays(c, m, s)
  BY <1>1, <1>2, ContentAt
<1>5. DOMAIN z = DOMAIN s /\ \A k \in DOMAIN s : z[k] = Content(d, s[k])
  BY <1>1, <1>3, <1>4, ContentBelow
<1>6. z \in Seq(AllContents[d])
  <2>1. z \in Meaning(Schema[c][m]) /\ ShapeIs(c, m, Schema[c][m], Kind(c, m)) /\ Schema[c][m].type = d
    BY <1>1, <1>2, ContentsByField, ShapesAre, BelowIsMessage DEF Saying
  <2>2. Meaning(Schema[c][m]) \in {AtMostOne(AllContents[d]), Seq(AllContents[d])}
    BY <2>1 DEF ShapeIs
  <2> QED
    BY <2>1, <2>2 DEF AtMostOne
<1>7. \A k \in DOMAIN z : z[k] \in AllContents[d]
  BY <1>6, ElementOfSeq
<1> QED
  BY <1>1, <1>3, <1>5, <1>7 DEF Saying

\* Copies of messages of class d say what their originals say.
CopiesWell(c, j) == \A x : Saying(c, x) => Content(c, Copy(c, x, j)) = Content(c, x)

\* Then the copies of the messages below do.
LEMMA BelowCopied ==
  ASSUME NEW c \in Classes, NEW x, Saying(c, x), NEW j \in Int, \A m \in Below(c) : CopiesWell(ClassBelow(c, m), j)
  PROVE  CopiesSay(c, x, CopiesBelow(c, x, j))
<1>1. ASSUME NEW m \in Below(c)
      PROVE  /\ CopiesBelow(c, x, j)[m] \in Held(c, m, Msgs)
             /\ MemberSays(c, m, CopiesBelow(c, x, j)[m]) = MemberSays(c, m, x[m])
  <2>1. PICK d, s, f : d = ClassBelow(c, m) /\ s = x[m] /\ f = CopiesBelow(c, x, j)[m]
    OBVIOUS
  <2>2. x \in Msgs[c] /\ d \in Classes
    BY <2>1, LowerBelow DEF Saying
  <2>3. SequenceFor(c, m, s) /\ \A k \in DOMAIN s : s[k] \in Msgs[d]
    BY <2>1, <2>2, MemberIsSequence
  <2>4. f = [k \in DOMAIN s |-> Copy(d, s[k], j)]
    BY <2>1 DEF CopiesBelow
  <2>5. f = [k \in DOMAIN s |-> f[k]] /\ \A k \in DOMAIN s : f[k] \in Msgs[d]
    BY <2>2, <2>3, <2>4, CopyType
  <2>6. f \in Held(c, m, Msgs)
    BY <2>1, <2>3, <2>5, ResultsHeld
  <2>7. \A k \in DOMAIN s : Content(d, Copy(d, s[k], j)) = Content(d, s[k])
    <3>1. \A k \in DOMAIN s : Saying(d, s[k])
      BY <2>1, SayingBelow
    <3>2. CopiesWell(d, j)
      BY <2>1
    <3> QED
      BY <3>1, <3>2 DEF CopiesWell
  <2>8. Spoken(d, f) = Spoken(d, s)
    BY <2>4, <2>7, SpokenAlike
  <2> QED
    BY <2>1, <2>6, <2>8 DEF MemberSays
<1> QED
  BY <1>1 DEF CopiesSay

\* A copy says what its original says.
LEMMA CopySays ==
  ASSUME NEW j \in Int
  PROVE  \A c \in Classes : CopiesWell(c, j)
<1> DEFINE G == {c \in Classes : CopiesWell(c, j)}
<1>1. ASSUME NEW c \in Classes, \A m \in Below(c) : ClassBelow(c, m) \in G PROVE c \in G
  <2>1. ASSUME NEW x, Saying(c, x) PROVE Content(c, Copy(c, x, j)) = Content(c, x)
    <3>1. x \in Msgs[c] /\ Content(c, x) \in AllContents[c]
      BY <2>1 DEF Saying
    <3>2. CopiesSay(c, x, CopiesBelow(c, x, j))
      BY <1>1, <2>1, BelowCopied
    <3>3. Copy(c, x, j) = MergeMembers(c, New(c, j), x, CopiesBelow(c, x, j))
      BY <3>1, CopyUnfolds
    <3>4. Content(c, Copy(c, x, j)) = Merged(c, Content(c, New(c, j)), Content(c, x))
      BY <3>1, <3>2, <3>3, NewType, MergeMembersSays
    <3> QED
      BY <3>1, <3>4, NewSaysNothing, MergedIntoNothing
  <2> QED
    BY <2>1 DEF CopiesWell
<1>2. \A c \in Classes : c \in G
  <2> HIDE DEF G
  <2> QED
    BY <1>1, ClassInduction DEF Grows
<1> QED
  BY <1>2

\* MergeFrom merges by the descriptor.
LEMMA MergeFromSays ==
  ASSUME NEW c \in Classes, NEW to, Saying(c, to), NEW from, Saying(c, from), NEW j \in Int
  PROVE  /\ Content(c, MergeFrom(c, to, from, j)) = Merged(c, Content(c, to), Content(c, from))
         /\ Saying(c, MergeFrom(c, to, from, j))
<1>1. PICK copies : copies = CopiesBelow(c, from, j)
  OBVIOUS
<1>2. to \in Msgs[c] /\ from \in Msgs[c] /\ Content(c, to) \in AllContents[c] /\ Content(c, from) \in AllContents[c]
  BY DEF Saying
<1>3. CopiesSay(c, from, copies)
  BY <1>1, CopySays, BelowCopied, LowerBelow
<1>4. MergeFrom(c, to, from, j) = MergeMembers(c, to, from, copies)
  BY <1>1 DEF MergeFrom, CopiesBelow
<1>5. Content(c, MergeFrom(c, to, from, j)) = Merged(c, Content(c, to), Content(c, from))
  BY <1>2, <1>3, <1>4, MergeMembersSays
<1> QED
  BY <1>2, <1>5, MergeFromType, MergedType DEF Saying

\* MergeFrom into a message that says nothing copies.
LEMMA MergedIntoEmpty ==
  ASSUME NEW c \in Classes, NEW to \in Msgs[c], Content(c, to) = Empty(c), NEW from, Saying(c, from), NEW j \in Int
  PROVE  /\ Content(c, MergeFrom(c, to, from, j)) = Content(c, from)
         /\ Saying(c, MergeFrom(c, to, from, j))
<1>1. Content(c, from) \in AllContents[c] /\ Empty(c) \in AllContents[c]
  BY MergedIntoNothing DEF Saying
<1>2. Saying(c, to)
  BY <1>1 DEF Saying
<1>3. /\ Content(c, MergeFrom(c, to, from, j)) = Merged(c, Content(c, to), Content(c, from))
      /\ Saying(c, MergeFrom(c, to, from, j))
  BY <1>2, MergeFromSays
<1>4. Merged(c, Empty(c), Content(c, from)) = Content(c, from)
  BY <1>1, MergedIntoNothing
<1> QED
  BY <1>3, <1>4

\* CopyFrom leaves what the other message says.
LEMMA CopyFromSays ==
  ASSUME NEW c \in Classes, NEW to \in Msgs[c], NEW from, Saying(c, from), NEW j \in Int
  PROVE  Content(c, CopyFrom(c, to, from, j)) = Content(c, from) /\ Saying(c, CopyFrom(c, to, from, j))
<1>1. Content(c, Clear(c, to)) = Empty(c) /\ Clear(c, to) \in Msgs[c]
  BY ClearSaysNothing, ClearType
<1>2. /\ Content(c, MergeFrom(c, Clear(c, to), from, j)) = Content(c, from)
      /\ Saying(c, MergeFrom(c, Clear(c, to), from, j))
  BY <1>1, MergedIntoEmpty
<1> QED
  BY <1>2 DEF CopyFrom

\* InternalSwap exchanges all that messages say.
LEMMA InternalSwapSays ==
  ASSUME NEW c \in Classes, NEW x \in Msgs[c], NEW y, Saying(c, y)
  PROVE  Content(c, InternalSwap(c, x, y)) = Content(c, y) /\ Saying(c, InternalSwap(c, x, y))
<1>1. PICK z : z = InternalSwap(c, x, y)
  OBVIOUS
<1>2. z \in Msgs[c] /\ y \in Msgs[c]
  BY <1>1, InternalSwapType DEF Saying
<1>3. ASSUME NEW n \in FieldNames(c) PROVE MemberSays(c, n, z[n]) = MemberSays(c, n, y[n])
  <2>1. z[n] = y[n]
    BY <1>1, SwappedAre, FieldsAreMembers DEF InternalSwap
  <2> QED
    BY <2>1
<1>4. Content(c, z) = Content(c, y)
  BY <1>2, <1>3, SaysAlike
<1> QED
  BY <1>1, <1>2, <1>4 DEF Saying

\* After Swap, the first of two messages says what the second one said, and the other way round.
SwapIs(c, x, y, after) ==
  /\ Content(c, after[1]) = Content(c, y) /\ Saying(c, after[1])
  /\ Content(c, after[2]) = Content(c, x) /\ Saying(c, after[2])

\* Swap exchanges what the messages say, on one arena or on two.
LEMMA SwapSays ==
  ASSUME NEW c \in Classes, NEW x, Saying(c, x), NEW y, Saying(c, y), NEW same, NEW j \in Int
  PROVE  SwapIs(c, x, y, Swap(c, x, y, same, j))
<1>0. x \in Msgs[c] /\ y \in Msgs[c] /\ Content(c, y) \in AllContents[c]
  BY DEF Saying
<1>1. PICK after : after = Swap(c, x, y, same, j)
  OBVIOUS
<1>2. CASE same
  <2>1. after[1] = InternalSwap(c, x, y) /\ after[2] = InternalSwap(c, y, x)
    BY <1>1, <1>2 DEF Swap
  <2> QED
    BY <1>0, <1>1, <2>1, InternalSwapSays DEF SwapIs
<1>3. CASE ~ same
  <2>1. PICK temp : temp = MergeFrom(c, New(c, j), y, j)
    OBVIOUS
  <2>2. New(c, j) \in Msgs[c] /\ Content(c, New(c, j)) = Empty(c)
    BY NewType, NewSaysNothing
  <2>3. Content(c, temp) = Content(c, y) /\ Saying(c, temp)
    BY <2>1, <2>2, MergedIntoEmpty
  <2>4. after[1] = InternalSwap(c, x, temp) /\ after[2] = CopyFrom(c, y, x, j)
    BY <1>1, <1>3, <2>1 DEF Swap
  <2>5. Content(c, after[1]) = Content(c, y) /\ Saying(c, after[1])
    BY <1>0, <2>3, <2>4, InternalSwapSays
  <2>6. Content(c, after[2]) = Content(c, x) /\ Saying(c, after[2])
    BY <1>0, <2>4, CopyFromSays
  <2> QED
    BY <1>1, <2>5, <2>6 DEF SwapIs
<1> QED
  BY <1>2, <1>3

\* The copy of a Value says what the Value says.
LEMMA CopyScalarsSays ==
  ASSUME NEW x \in Msgs["Value"], NEW j \in Int
  PROVE  Content("Value", CopyScalars("Value", x, j)) = Content("Value", x)
<1>0. PICK c : c = "Value" /\ c \in Classes
  BY ClassesAre DEF ClassNames
<1>1. PICK z : z = CopyScalars(c, x, j)
  OBVIOUS
<1>2. ASSUME NEW n \in FieldNames(c) PROVE MemberSays(c, n, z[n]) = MemberSays(c, n, x[n])
  <2>1. z[n] = x[n]
    BY <1>0, <1>1, CopiedAre, FieldsAreMembers DEF CopyScalars
  <2> QED
    BY <2>1
<1>3. z \in Msgs[c] /\ x \in Msgs[c]
  BY <1>0, <1>1, CopyScalarsType
<1>4. Content(c, z) = Content(c, x)
  BY <1>0, <1>2, <1>3, SaysAlike
<1> QED
  BY <1>0, <1>1, <1>4

\* The copy constructor makes a message that says what its original says.
LEMMA CopyOfSays ==
  ASSUME NEW c \in Classes, NEW x, Saying(c, x), NEW j \in Int
  PROVE  Content(c, CopyOf(c, x, j)) = Content(c, x) /\ Saying(c, CopyOf(c, x, j))
<1>1. PICK z : z = CopyOf(c, x, j)
  OBVIOUS
<1>2. x \in Msgs[c] /\ z \in Msgs[c] /\ Content(c, x) \in AllContents[c]
  BY <1>1, CopyOfType DEF Saying
<1>3. ASSUME NEW n \in FieldNames(c) PROVE MemberSays(c, n, z[n]) = MemberSays(c, n, x[n])
  <2>1. n \in MemberNames(c) /\ n \in Copied[c]
    BY CopiedAre, FieldsAreMembers
  <2>2. CASE Kind(c, n) = "messages"
    <3>1. PICK d, s, f : d = ClassBelow(c, n) /\ s = x[n] /\ f = [k \in DOMAIN s |-> Copy(d, s[k], j)]
      OBVIOUS
    <3>2. z[n] = f
      BY <1>1, <2>1, <2>2, <3>1 DEF CopyOf
    <3>3. n \in Below(c) /\ d \in Classes
      BY <2>1, <2>2, <3>1, HeldIs, LowerBelow
    <3>4. \A k \in DOMAIN s : Content(d, Copy(d, s[k], j)) = Content(d, s[k])
      <4>1. \A k \in DOMAIN s : Saying(d, s[k])
        BY <3>1, <3>3, SayingBelow
      <4>2. CopiesWell(d, j)
        BY <3>3, CopySays
      <4> QED
        BY <4>1, <4>2 DEF CopiesWell
    <3>5. Spoken(d, f) = Spoken(d, s)
      BY <3>1, <3>4, SpokenAlike
    <3> QED
      BY <3>1, <3>2, <3>3, <3>5 DEF MemberSays
  <2>3. CASE Kind(c, n) = "pointer"
    <3>1. PICK d, s, f : d = ClassBelow(c, n) /\ s = x[n] /\ f = [k \in DOMAIN s |-> CopyScalars(d, s[k], j)]
      OBVIOUS
    <3>2. z[n] = f
      BY <1>1, <2>1, <2>3, <3>1 DEF CopyOf
    <3>3. n \in Below(c) /\ d = "Value"
      BY <2>1, <2>3, <3>1, HeldIs, PointersAreValues
    <3>4. \A k \in DOMAIN s : s[k] \in Msgs[d]
      BY <1>2, <3>1, <3>3, MemberIsSequence
    <3>5. \A k \in DOMAIN s : Content(d, CopyScalars(d, s[k], j)) = Content(d, s[k])
      BY <3>3, <3>4, CopyScalarsSays
    <3>6. Spoken(d, f) = Spoken(d, s)
      BY <3>1, <3>5, SpokenAlike
    <3> QED
      BY <3>1, <3>2, <3>3, <3>6 DEF MemberSays
  <2>4. CASE Kind(c, n) \notin {"messages", "pointer"}
    <3>1. z[n] = x[n]
      BY <1>1, <2>1, <2>4 DEF CopyOf
    <3> QED
      BY <3>1
  <2> QED
    BY <2>2, <2>3, <2>4
<1>4. Content(c, z) = Content(c, x)
  BY <1>2, <1>3, SaysAlike
<1> QED
  BY <1>1, <1>2, <1>4 DEF Saying

\* Clear empties a message.
LEMMA ClearSays ==
  ASSUME NEW c \in Classes, NEW x \in Msgs[c]
  PROVE  Content(c, Clear(c, x)) = Empty(c) /\ Saying(c, Clear(c, x))
BY ClearSaysNothing, ClearType, MergedIntoNothing DEF Saying

\* Message y is message x, which says a content of its class, with value v in field m; b is what
\* x says with value w there, and v says w.
FieldChange(c, x, m, v, w, y, b) ==
  /\ Saying(c, x) /\ m \in FieldNames(c) /\ v \in Held(c, m, Msgs)
  /\ w = MemberSays(c, m, v) /\ w \in Meaning(Schema[c][m])
  /\ y = [x EXCEPT ![m] = v] /\ b = [Content(c, x) EXCEPT ![m] = w]

\* A message with another value of a field says this value there.
LEMMA FieldSays ==
  ASSUME NEW c \in Classes, NEW x, NEW m, NEW v, NEW w, NEW y, NEW b, FieldChange(c, x, m, v, w, y, b)
  PROVE  Content(c, y) = b /\ Saying(c, y)
<1>1. PICK a : a = Content(c, x)
  OBVIOUS
<1>2. /\ m \in FieldNames(c) /\ v \in Held(c, m, Msgs) /\ y = [x EXCEPT ![m] = v] /\ b = [a EXCEPT ![m] = w]
      /\ w = MemberSays(c, m, v) /\ w \in Meaning(Schema[c][m])
      /\ x \in Msgs[c] /\ a \in AllContents[c]
  BY <1>1 DEF FieldChange, Saying
<1>3. m \in MemberNames(c) /\ FieldNames(c) \subseteq MemberNames(c)
  BY <1>2, FieldsAreMembers
<1>4. y \in Msgs[c]
  <2>1. [x EXCEPT ![m] = v] \in Msgs[c]
    BY <1>2, <1>3, ChangedType, Zenon
  <2> QED
    BY <1>2, <2>1
<1>5. Content(c, y) = b
  <2>1. y[m] = v /\ \A n \in FieldNames(c) : n # m => y[n] = x[n]
    <3>1. x = [n \in MemberNames(c) |-> x[n]]
      BY <1>2, MsgIs
    <3> QED
      BY <1>2, <1>3, <3>1
  <2>2. a = [n \in FieldNames(c) |-> MemberSays(c, n, x[n])]
    BY <1>1, <1>2, SaysIs DEF MemberSays
  <2>3. Content(c, y) = [n \in FieldNames(c) |-> MemberSays(c, n, y[n])]
    BY <1>4, SaysIs DEF MemberSays
  <2> QED
    BY <1>2, <2>1, <2>2, <2>3
<1>6. b \in AllContents[c]
  <2>1. a = [n \in FieldNames(c) |-> a[n]] /\ \A n \in FieldNames(c) : a[n] \in Meaning(Schema[c][n])
    BY <1>2, ContentsByField
  <2>2. b = [n \in FieldNames(c) |-> b[n]] /\ \A n \in FieldNames(c) : b[n] = IF n = m THEN w ELSE a[n]
    BY <1>2, <2>1
  <2>3. \A n \in FieldNames(c) : b[n] \in Meaning(Schema[c][n])
    BY <1>2, <2>1, <2>2
  <2> QED
    BY <2>2, <2>3, ContentsByField
<1> QED
  BY <1>4, <1>5, <1>6 DEF Saying

\* What a setter or add_... is called with.
LEMMA ValuesMean ==
  ASSUME NEW c \in Classes, NEW m \in FieldNames(c), NEW v \in Values(c, m)
  PROVE  /\ Kind(c, m) \in Scalars => v \in Meaning(Schema[c][m])
         /\ Kind(c, m) = "numbers" => v \in Int32
         /\ Kind(c, m) = "messages" => v \in AllContents[ClassBelow(c, m)]
<1>1. PICK f, kind : f = Schema[c][m] /\ kind = Kind(c, m)
  OBVIOUS
<1>2. v \in ValuesFor(f)
  BY <1>1, ValuesAssumption
<1>3. ShapeIs(c, m, f, kind)
  BY <1>1, ShapesAre
<1>4. CASE kind \in Scalars \cup {"numbers"}
  <2>1. \/ kind = "string" /\ f.type = "string" /\ Meaning(f) = Text /\ ~ IsMessage(f)
        \/ kind = "string" /\ f.type = "bytes" /\ Meaning(f) = Seq(Byte) /\ ~ IsMessage(f)
        \/ kind = "number" /\ f.type \in {"int32", "enum"} /\ Meaning(f) = Int32 /\ ~ IsMessage(f)
        \/ kind = "bool" /\ f.type = "bool" /\ Meaning(f) = BOOLEAN /\ ~ IsMessage(f)
        \/ kind = "numbers" /\ f.type = "int32" /\ ~ IsMessage(f)
    BY <1>3, <1>4 DEF ShapeIs, Scalars
  <2>2. CASE f.type = "string" /\ ~ IsMessage(f)
    <3>1. ValuesFor(f) = Text
      BY <2>2 DEF ValuesFor
    <3> QED
      BY <1>1, <1>2, <1>4, <2>1, <2>2, <3>1 DEF Scalars
  <2>3. CASE f.type = "bytes" /\ ~ IsMessage(f)
    <3>1. ValuesFor(f) = Seq(Byte)
      BY <2>3 DEF ValuesFor
    <3> QED
      BY <1>1, <1>2, <1>4, <2>1, <2>3, <3>1 DEF Scalars
  <2>4. CASE f.type \in {"int32", "enum"} /\ ~ IsMessage(f)
    <3>1. ValuesFor(f) = Int32
      BY <2>4 DEF ValuesFor
    <3> QED
      BY <1>1, <1>2, <1>4, <2>1, <2>4, <3>1 DEF Scalars
  <2>5. CASE f.type = "bool" /\ ~ IsMessage(f)
    <3>1. ValuesFor(f) = BOOLEAN
      BY <2>5 DEF ValuesFor
    <3> QED
      BY <1>1, <1>2, <1>4, <2>1, <2>5, <3>1 DEF Scalars
  <2> QED
    BY <2>1, <2>2, <2>3, <2>4, <2>5
<1>5. CASE kind = "messages"
  BY <1>1, <1>5, ValuesAre DEF Scalars
<1> QED
  BY <1>1, <1>4, <1>5

-------------------------------------------------------------------------------
(* The promise of Messages.  Its schema is the one of the classes.           *)

LEMMA SchemaSame == Promise!Schema = Schema
BY Zenon DEF Promise!Schema, Schema, Promise!Optional, Optional, Promise!Repeated, Repeated

\* Its classes and fields are theirs.
LEMMA NamesSame ==
  /\ Promise!Classes = Classes
  /\ \A c : Promise!FieldNames(c) = FieldNames(c)
  /\ \A f : Promise!IsMessage(f) <=> IsMessage(f)
BY SchemaSame, Zenon
   DEF Promise!Classes, Classes, Promise!FieldNames, FieldNames, Promise!IsMessage, IsMessage

\* So are its absent values,
LEMMA AbsentSame == \A f : Promise!Absent(f) = Absent(f)
BY NamesSame DEF Promise!Absent, Absent

\* its empty contents,
LEMMA EmptySame == \A c : Promise!Empty(c) = Empty(c)
BY SchemaSame, NamesSame, AbsentSame DEF Promise!Empty, Empty

\* and its merging.
LEMMA MergedSame == \A c, a, b : Promise!Merged(c, a, b) = Merged(c, a, b)
<1>1. \A c, x, y : Promise!MergedScalars(c, x, y) = MergedScalars(c, x, y)
  BY SchemaSame, NamesSame, AbsentSame DEF Promise!MergedScalars, MergedScalars
<1> QED
  BY <1>1, SchemaSame, NamesSame, AbsentSame DEF Promise!Merged, Merged

\* Both messages say contents of their class, and the bytes written last are the bytes of
\* the content kept in decoded.
PromiseInv ==
  /\ MessagesInv
  /\ \A x \in {1, 2} : Saying(class, msg[x])
  /\ bytes # << >> =>
       decoded # << >> /\ decoded[1] \in AllContents[class] /\ Decode(class, bytes[1]) = Reading(decoded[1])

\* What both messages say.
Both == << Content(class, msg[1]), Content(class, msg[2]) >>

\* What either message says, before a call and if one of them says something else.
LEMMA BothIs ==
  /\ Both[1] = Content(class, msg[1]) /\ Both[2] = Content(class, msg[2])
  /\ DOMAIN Both = {1, 2}
  /\ \A X : [Both EXCEPT ![1] = X] = << X, Content(class, msg[2]) >>
  /\ \A X : [Both EXCEPT ![2] = X] = << Content(class, msg[1]), X >>
<1>1. PICK a, b : a = Content(class, msg[1]) /\ b = Content(class, msg[2])
  OBVIOUS
<1>2. Both = << a, b >>
  BY <1>1 DEF Both
<1>3. DOMAIN Both = {1, 2}
  <2>1. DOMAIN Both = 1 .. 2
    BY <1>2
  <2>2. 1 .. 2 = {1, 2}
    OBVIOUS
  <2> QED
    BY <2>1, <2>2
<1>4. Both[1] = a /\ Both[2] = b
  BY <1>2
<1>5. \A X : [Both EXCEPT ![1] = X] = << X, b >>
  BY <1>2
<1>6. \A X : [Both EXCEPT ![2] = X] = << a, X >>
  BY <1>2
<1> QED
  BY <1>1, <1>3, <1>4, <1>5, <1>6

\* A call that makes message x say X, and leaves everything else.
Puts(x, X, how) ==
  call' = how /\ (Both)' = [Both EXCEPT ![x] = X] /\ class' = class /\ decoded' = decoded

\* A call that assigns message x puts what the new message says.
LEMMA AssignPuts ==
  ASSUME PromiseInv, NEW x \in {1, 2}, NEW new, Saying(class, new), NEW how, Assign(x, new, how)
  PROVE  PromiseInv' /\ Puts(x, Content(class, new), how)
<1>1. /\ class' = class /\ bytes' = bytes /\ decoded' = decoded /\ written' = written
      /\ msg' = [msg EXCEPT ![x] = new] /\ call' = how
  BY DEF Assign, Called
<1>2. msg \in [{1, 2} -> Msgs[class]] /\ new \in Msgs[class]
  BY DEF PromiseInv, MessagesInv, Saying
<1>3. msg'[x] = new /\ \A y \in {1, 2} : y # x => msg'[y] = msg[y]
  BY <1>1, <1>2
<1>4. MessagesInv'
  BY <1>2, AssignCalls, CallKeeps DEF PromiseInv
<1>5. \A y \in {1, 2} : Saying(class', msg'[y])
  BY <1>1, <1>3 DEF PromiseInv
<1>6. PromiseInv'
  <2>1. bytes # << >> =>
          decoded # << >> /\ decoded[1] \in AllContents[class] /\ Decode(class, bytes[1]) = Reading(decoded[1])
    BY DEF PromiseInv
  <2>2. bytes' # << >> =>
          /\ decoded' # << >> /\ decoded'[1] \in AllContents[class']
          /\ Decode(class', bytes'[1]) = Reading(decoded'[1])
    BY <1>1, <2>1
  <2> QED
    BY <1>4, <1>5, <2>2 DEF PromiseInv
<1>7. (Both)' = [Both EXCEPT ![x] = Content(class, new)]
  <2>1. (Both)' = << Content(class, msg'[1]), Content(class, msg'[2]) >>
    BY <1>1 DEF Both
  <2>2. CASE x = 1
    BY <1>3, <2>1, <2>2, BothIs
  <2>3. CASE x = 2
    BY <1>3, <2>1, <2>3, BothIs
  <2> QED
    BY <2>2, <2>3
<1> QED
  BY <1>1, <1>6, <1>7 DEF Puts

\* Such a call is one of the promise.
LEMMA PutsIs ==
  ASSUME NEW x, NEW X, NEW how, Puts(x, X, how)
  PROVE  Promise!Put(x, X, how)
BY Zenon DEF Puts, Both, Promise!Put

\* What message x says.
LEMMA BothAt == \A x \in {1, 2} : Both[x] = Content(class, msg[x])
BY BothIs

\* The setters.
LEMMA SetPromised ==
  ASSUME PromiseInv, NEW x \in {1, 2}, NEW m \in DOMAIN Accessors[class], NEW v \in Values(class, m),
         Set(x, m, v)
  PROVE  PromiseInv' /\ m \in FieldNames(class) /\ call' = << "set", x, m, v >> /\ Promise!Set(x, m, v)
<1>1. class \in Classes /\ Saying(class, msg[x])
  BY DEF PromiseInv, MessagesInv
<1>2. m \in FieldNames(class) /\ m \in MemberNames(class) /\ Kind(class, m) \in Scalars
  BY <1>1, AccessorsAre, FieldsAreMembers DEF Set
<1>3. v \in Held(class, m, Msgs) /\ v \in Meaning(Schema[class][m])
  BY <1>1, <1>2, ValuesAre, ValuesMean, HeldIs DEF Scalars
<1>4. v = MemberSays(class, m, v)
  <2>1. m \notin Below(class)
    BY <1>1, <1>2, HeldIs DEF Scalars
  <2> QED
    BY <2>1 DEF MemberSays
<1>5. PICK new, X, how : /\ new = [msg[x] EXCEPT ![m] = v] /\ X = [Content(class, msg[x]) EXCEPT ![m] = v]
                         /\ how = << "set", x, m, v >>
  OBVIOUS
<1>6. Content(class, new) = X /\ Saying(class, new)
  <2>1. FieldChange(class, msg[x], m, v, v, new, X)
    BY <1>1, <1>2, <1>3, <1>4, <1>5, Zenon DEF FieldChange
  <2> QED
    BY <1>1, <2>1, FieldSays
<1>7. Assign(x, new, how)
  BY <1>5 DEF Set
<1>8. PromiseInv' /\ Puts(x, X, how)
  BY <1>6, <1>7, AssignPuts
<1>9. X = [Both[x] EXCEPT ![m] = v]
  BY <1>5, BothAt
<1>10. Promise!Set(x, m, v)
  <2>1. Promise!Put(x, X, how)
    BY <1>8, PutsIs
  <2> QED
    BY <1>5, <1>9, <2>1, Zenon DEF Promise!Set, Both
<1> QED
  BY <1>2, <1>5, <1>8, <1>10 DEF Puts

\* clear_... of a field.
LEMMA ClearFieldPromised ==
  ASSUME PromiseInv, NEW x \in {1, 2}, NEW m \in DOMAIN Accessors[class], ClearField(x, m)
  PROVE  PromiseInv' /\ m \in FieldNames(class) /\ Promise!ClearField(x, m)
<1>1. class \in Classes /\ Saying(class, msg[x])
  BY DEF PromiseInv, MessagesInv
<1>2. m \in FieldNames(class) /\ m \in MemberNames(class)
  BY <1>1, AccessorsAre, FieldsAreMembers
<1>3. PICK v, w : v = Default(Kind(class, m)) /\ w = Absent(Schema[class][m])
  OBVIOUS
<1>4. v = w /\ v \in Held(class, m, Msgs) /\ w \in Meaning(Schema[class][m])
  BY <1>1, <1>2, <1>3, AbsentIs, DefaultHeld, AbsentMeans
<1>5. w = MemberSays(class, m, v)
  <2>1. CASE m \notin Below(class)
    BY <1>4, <2>1 DEF MemberSays
  <2>2. CASE m \in Below(class)
    <3>1. v = << >>
      BY <1>1, <1>2, <1>3, <2>2, HeldIs, DefaultIs
    <3> QED
      BY <1>4, <2>2, <3>1, SpokenIs DEF MemberSays
  <2> QED
    BY <2>1, <2>2
<1>6. PICK new, X, how : /\ new = [msg[x] EXCEPT ![m] = v] /\ X = [Content(class, msg[x]) EXCEPT ![m] = w]
                         /\ how = << "clear field", x, m >>
  OBVIOUS
<1>7. Content(class, new) = X /\ Saying(class, new)
  <2>1. FieldChange(class, msg[x], m, v, w, new, X)
    BY <1>1, <1>2, <1>4, <1>5, <1>6, Zenon DEF FieldChange
  <2> QED
    BY <1>1, <2>1, FieldSays
<1>8. Assign(x, new, how)
  BY <1>3, <1>6 DEF ClearField
<1>9. PromiseInv' /\ Puts(x, X, how)
  BY <1>7, <1>8, AssignPuts
<1>10. X = [Both[x] EXCEPT ![m] = w] /\ w = Promise!Absent(Promise!Schema[class][m])
  BY <1>3, <1>6, BothAt, AbsentSame, SchemaSame
<1>11. Promise!ClearField(x, m)
  <2>1. Promise!Put(x, X, how)
    BY <1>9, PutsIs
  <2> QED
    BY <1>6, <1>10, <2>1, Zenon DEF Promise!ClearField, Both
<1> QED
  BY <1>2, <1>9, <1>11

\* add_... of a number, and of a message that the caller then fills.
LEMMA AddPromised ==
  ASSUME PromiseInv, NEW x \in {1, 2}, NEW m \in DOMAIN Accessors[class], NEW v \in Values(class, m),
         NEW j \in Junk, Add(x, m, v, j)
  PROVE  PromiseInv' /\ m \in FieldNames(class) /\ call' = << "add", x, m, v >> /\ Promise!Add(x, m, v)
<1>1. class \in Classes /\ Saying(class, msg[x]) /\ msg[x] \in Msgs[class] /\ j \in Int
  BY JunkAssumption DEF PromiseInv, MessagesInv, Saying
<1>2. /\ m \in FieldNames(class) /\ m \in MemberNames(class)
      /\ Accessors[class][m] = Kind(class, m) /\ Kind(class, m) \in {"numbers", "messages"}
  BY <1>1, AccessorsAre, FieldsAreMembers DEF Add
<1>3. PICK e, old, said :
        /\ e = IF Accessors[class][m] = "numbers" THEN v ELSE Build(ClassBelow(class, m), v, j)
        /\ old = msg[x][m] /\ said = Content(class, msg[x])[m]
  OBVIOUS
<1>4. /\ said = MemberSays(class, m, old) /\ old \in Held(class, m, Msgs)
      /\ said \in Meaning(Schema[class][m]) /\ ShapeIs(class, m, Schema[class][m], Kind(class, m))
  BY <1>1, <1>2, <1>3, ContentAt, MsgIs, ContentsByField, ShapesAre DEF Saying
<1>5. /\ Append(old, e) \in Held(class, m, Msgs) /\ Append(said, v) = MemberSays(class, m, Append(old, e))
      /\ Append(said, v) \in Meaning(Schema[class][m])
  <2>1. CASE Kind(class, m) = "numbers"
    <3>1. e = v /\ v \in Int32 /\ v \in Int
      BY <1>1, <1>2, <1>3, <2>1, ValuesMean, Int32Is
    <3>2. m \notin Below(class) /\ Meaning(Schema[class][m]) = Seq(Int32)
      BY <1>4, <2>1 DEF ShapeIs
    <3>3. said = old /\ old \in Seq(Int) /\ Held(class, m, Msgs) = Seq(Int) /\ said \in Seq(Int32)
      BY <1>1, <1>2, <1>4, <2>1, <3>2, HeldIs DEF MemberSays
    <3>4. Append(old, e) \in Seq(Int) /\ Append(said, v) \in Seq(Int32)
      BY <3>1, <3>3, AppendProperties
    <3> QED
      BY <3>1, <3>2, <3>3, <3>4 DEF MemberSays
  <2>2. CASE Kind(class, m) = "messages"
    <3>0. PICK d : d = ClassBelow(class, m)
      OBVIOUS
    <3>1. m \in Below(class) /\ d \in Classes /\ Schema[class][m].type = d
      BY <1>1, <1>2, <2>2, <3>0, HeldIs, LowerBelow, BelowIsMessage
    <3>2. v \in AllContents[d] /\ e = Build(d, v, j)
      BY <1>1, <1>2, <1>3, <2>2, <3>0, ValuesMean
    <3>3. e \in Msgs[d] /\ Content(d, e) = v
      BY <1>1, <3>1, <3>2, BuildType, BuiltSays
    <3>4. Held(class, m, Msgs) = Seq(Msgs[d]) /\ Meaning(Schema[class][m]) = Seq(AllContents[d])
      BY <1>1, <1>2, <1>4, <2>2, <3>0, <3>1, HeldIs DEF ShapeIs
    <3>5. Append(old, e) \in Seq(Msgs[d]) /\ Append(said, v) \in Seq(AllContents[d])
      BY <1>4, <3>2, <3>3, <3>4, AppendProperties
    <3>6. said = Spoken(d, old)
      BY <1>4, <3>0, <3>1 DEF MemberSays
    <3>7. Spoken(d, Append(old, e)) = Append(said, v)
      <4>1. old \in Seq(Msgs[d])
        BY <1>4, <3>4
      <4> QED
        BY <3>3, <3>6, <4>1, SpokenIs
    <3> QED
      BY <3>0, <3>1, <3>4, <3>5, <3>7 DEF MemberSays
  <2> QED
    BY <1>2, <2>1, <2>2
<1>6. PICK w, p, new, X, how :
        /\ w = Append(old, e) /\ p = Append(said, v) /\ new = [msg[x] EXCEPT ![m] = w]
        /\ X = [Content(class, msg[x]) EXCEPT ![m] = p] /\ how = << "add", x, m, v >>
  OBVIOUS
<1>7. Content(class, new) = X /\ Saying(class, new)
  <2>1. w \in Held(class, m, Msgs) /\ p = MemberSays(class, m, w) /\ p \in Meaning(Schema[class][m])
    BY <1>5, <1>6
  <2>2. FieldChange(class, msg[x], m, w, p, new, X)
    BY <1>1, <1>2, <1>6, <2>1, Zenon DEF FieldChange
  <2> QED
    BY <1>1, <2>2, FieldSays
<1>8. Assign(x, new, how)
  <2>1. new = [msg[x] EXCEPT ![m] = Append(@, IF Accessors[class][m] = "numbers" THEN v
                                             ELSE Build(ClassBelow(class, m), v, j))]
    BY <1>3, <1>6, Zenon
  <2> QED
    BY <1>6, <2>1, Zenon DEF Add
<1>9. PromiseInv' /\ Puts(x, X, how)
  BY <1>7, <1>8, AssignPuts
<1>10. X = [Both[x] EXCEPT ![m] = Append(@, v)]
  <2>1. Both[x] = Content(class, msg[x])
    BY BothAt
  <2> QED
    BY <1>3, <1>6, <2>1, Zenon
<1>11. Promise!Add(x, m, v)
  <2>1. Promise!Put(x, X, how)
    BY <1>9, PutsIs
  <2> QED
    BY <1>6, <1>10, <2>1, Zenon DEF Promise!Add, Both
<1> QED
  BY <1>2, <1>6, <1>9, <1>11 DEF Puts

\* mutable_... of a message.
LEMMA MutablePromised ==
  ASSUME PromiseInv, NEW x \in {1, 2}, NEW m \in DOMAIN Accessors[class], NEW j \in Junk, Mutable(x, m, j)
  PROVE  /\ PromiseInv' /\ m \in FieldNames(class) /\ IsMessage(Schema[class][m])
         /\ ~ Schema[class][m].repeated /\ Promise!Mutable(x, m)
<1>1. class \in Classes /\ Saying(class, msg[x]) /\ msg[x] \in Msgs[class] /\ j \in Int
  BY JunkAssumption DEF PromiseInv, MessagesInv, Saying
<1>2. m \in FieldNames(class) /\ m \in MemberNames(class) /\ Kind(class, m) = "pointer"
  BY <1>1, AccessorsAre, FieldsAreMembers DEF Mutable
<1>3. PICK d, old, said, f :
        d = ClassBelow(class, m) /\ old = msg[x][m] /\ said = Content(class, msg[x])[m] /\ f = Schema[class][m]
  OBVIOUS
<1>4. /\ said = MemberSays(class, m, old) /\ old \in Held(class, m, Msgs)
      /\ said \in Meaning(f) /\ ShapeIs(class, m, f, Kind(class, m))
  BY <1>1, <1>2, <1>3, ContentAt, MsgIs, ContentsByField, ShapesAre DEF Saying
<1>5. /\ m \in Below(class) /\ d \in Classes /\ f.type = d /\ IsMessage(f) /\ ~ f.repeated
      /\ Held(class, m, Msgs) = AtMostOne(Msgs[d]) /\ Meaning(f) = AtMostOne(AllContents[d])
  BY <1>1, <1>2, <1>3, <1>4, HeldIs, LowerBelow, BelowIsMessage DEF ShapeIs
<1>6. said = << >> <=> old = << >>
  BY <1>1, <1>3, <1>4, <1>5, MemberIsSequence, ContentBelow
<1>7. PICK w, p : /\ w = IF old = << >> THEN << New(d, j) >> ELSE old
                  /\ p = IF said = << >> THEN << Empty(d) >> ELSE said
  OBVIOUS
<1>8. w \in AtMostOne(Msgs[d]) /\ p \in AtMostOne(AllContents[d])
  BY <1>1, <1>4, <1>5, <1>7, NewType, OneIs, MergedIntoNothing
<1>9. p = MemberSays(class, m, w)
  <2>1. CASE old = << >>
    <3>1. Spoken(d, << New(d, j) >>) = << Empty(d) >>
      BY <1>1, <1>5, SpokenIs, NewSaysNothing
    <3> QED
      BY <1>3, <1>5, <1>6, <1>7, <2>1, <3>1 DEF MemberSays
  <2>2. CASE old # << >>
    BY <1>4, <1>6, <1>7, <2>2
  <2> QED
    BY <2>1, <2>2
<1>10. PICK new, X, how : /\ new = [msg[x] EXCEPT ![m] = w] /\ X = [Content(class, msg[x]) EXCEPT ![m] = p]
                          /\ how = << "mutable", x, m >>
  OBVIOUS
<1>11. Content(class, new) = X /\ Saying(class, new)
  <2>1. w \in Held(class, m, Msgs) /\ p \in Meaning(Schema[class][m])
    BY <1>3, <1>5, <1>8
  <2>2. FieldChange(class, msg[x], m, w, p, new, X)
    BY <1>1, <1>2, <1>9, <1>10, <2>1, Zenon DEF FieldChange
  <2> QED
    BY <1>1, <2>2, FieldSays
<1>12. Assign(x, new, how)
  <2>1. new = [msg[x] EXCEPT ![m] = IF @ = << >> THEN << New(ClassBelow(class, m), j) >> ELSE @]
    BY <1>3, <1>7, <1>10, Zenon
  <2> QED
    BY <1>10, <2>1, Zenon DEF Mutable
<1>13. PromiseInv' /\ Puts(x, X, how)
  BY <1>11, <1>12, AssignPuts
<1>14. X = [Both[x] EXCEPT ![m] = IF @ = << >> THEN << Promise!Empty(Promise!Schema[class][m].type) >> ELSE @]
  <2>1. Both[x] = Content(class, msg[x]) /\ Promise!Empty(Promise!Schema[class][m].type) = Empty(d)
    BY <1>3, <1>5, BothAt, EmptySame, SchemaSame
  <2> QED
    BY <1>3, <1>7, <1>10, <2>1, Zenon
<1>15. Promise!Mutable(x, m)
  <2>1. Promise!Put(x, X, how)
    BY <1>13, PutsIs
  <2> QED
    BY <1>10, <1>14, <2>1, Zenon DEF Promise!Mutable, Both
<1> QED
  BY <1>2, <1>3, <1>5, <1>13, <1>15

\* What both messages are while the promise holds.
LEMMA BothSay ==
  ASSUME PromiseInv
  PROVE  class \in Classes /\ \A x \in {1, 2} : Saying(class, msg[x]) /\ msg[x] \in Msgs[class]
BY DEF PromiseInv, MessagesInv, Saying

\* Clear.
LEMMA ClearPromised ==
  ASSUME PromiseInv, NEW x \in {1, 2}, CallClear(x)
  PROVE  PromiseInv' /\ Promise!Clear(x)
<1>1. class \in Classes /\ msg[x] \in Msgs[class]
  BY BothSay
<1>2. PICK new, X, how : new = Clear(class, msg[x]) /\ X = Empty(class) /\ how = << "clear", x >>
  OBVIOUS
<1>3. Content(class, new) = X /\ Saying(class, new)
  BY <1>1, <1>2, ClearSays
<1>4. Assign(x, new, how)
  BY <1>2, Zenon DEF CallClear
<1>5. PromiseInv' /\ Puts(x, X, how)
  BY <1>3, <1>4, AssignPuts
<1>6. Promise!Put(x, X, how) /\ X = Promise!Empty(class)
  BY <1>2, <1>5, PutsIs, EmptySame
<1> QED
  BY <1>2, <1>5, <1>6, Zenon DEF Promise!Clear

\* MergeFrom.
LEMMA MergePromised ==
  ASSUME PromiseInv, NEW x \in {1, 2}, NEW y \in {1, 2}, NEW j \in Junk, CallMergeFrom(x, y, j)
  PROVE  PromiseInv' /\ y # x /\ Promise!Merge(x, y)
<1>1. class \in Classes /\ Saying(class, msg[x]) /\ Saying(class, msg[y]) /\ j \in Int
  BY BothSay, JunkAssumption
<1>2. PICK new, X, how : /\ new = MergeFrom(class, msg[x], msg[y], j)
                         /\ X = Merged(class, Content(class, msg[x]), Content(class, msg[y]))
                         /\ how = << "merge", x, y >>
  OBVIOUS
<1>3. Content(class, new) = X /\ Saying(class, new)
  BY <1>1, <1>2, MergeFromSays
<1>4. x # y /\ Assign(x, new, how)
  BY <1>2, Zenon DEF CallMergeFrom
<1>5. PromiseInv' /\ Puts(x, X, how)
  BY <1>3, <1>4, AssignPuts
<1>6. Promise!Put(x, X, how)
  BY <1>5, PutsIs
<1>7. X = Promise!Merged(class, Both[x], Both[y])
  <2>1. Both[x] = Content(class, msg[x]) /\ Both[y] = Content(class, msg[y])
    BY BothAt
  <2> QED
    BY <1>2, <2>1, MergedSame
<1>8. Promise!Merge(x, y)
  BY <1>2, <1>6, <1>7, Zenon DEF Promise!Merge, Both
<1> QED
  BY <1>4, <1>5, <1>8

\* A copy by CopyFrom or by the copy constructor.
LEMMA CopyPromised ==
  ASSUME PromiseInv, NEW x \in {1, 2}, NEW y \in {1, 2}, NEW j \in Junk,
         CallCopyFrom(x, y, j) \/ CopyConstruct(x, y, j)
  PROVE  PromiseInv' /\ Promise!Copy(x, y)
<1>1. /\ class \in Classes /\ Saying(class, msg[x]) /\ Saying(class, msg[y]) /\ j \in Int
      /\ msg[x] \in Msgs[class]
  BY BothSay, JunkAssumption
<1>2. PICK X, how : X = Content(class, msg[y]) /\ how = << "copy", x, y >>
  OBVIOUS
<1>3. \E new : Assign(x, new, how) /\ Content(class, new) = X /\ Saying(class, new)
  <2>1. CASE CallCopyFrom(x, y, j)
    <3>1. PICK new : new = IF x = y THEN msg[x] ELSE CopyFrom(class, msg[x], msg[y], j)
      OBVIOUS
    <3>2. Assign(x, new, how)
      BY <1>2, <2>1, <3>1, Zenon DEF CallCopyFrom
    <3>3. Content(class, new) = X /\ Saying(class, new)
      <4>1. CASE x = y
        BY <1>1, <1>2, <3>1, <4>1
      <4>2. CASE x # y
        BY <1>1, <1>2, <3>1, <4>2, CopyFromSays
      <4> QED
        BY <4>1, <4>2
    <3> QED
      BY <3>2, <3>3
  <2>2. CASE CopyConstruct(x, y, j)
    <3>1. PICK new : new = CopyOf(class, msg[y], j)
      OBVIOUS
    <3>2. Assign(x, new, how)
      BY <1>2, <2>2, <3>1, Zenon DEF CopyConstruct
    <3>3. Content(class, new) = X /\ Saying(class, new)
      BY <1>1, <1>2, <3>1, CopyOfSays
    <3> QED
      BY <3>2, <3>3
  <2> QED
    BY <2>1, <2>2
<1>4. PromiseInv' /\ Puts(x, X, how)
  BY <1>3, AssignPuts
<1>5. Promise!Put(x, X, how) /\ X = Both[y]
  BY <1>2, <1>4, PutsIs, BothAt
<1>6. Promise!Copy(x, y)
  BY <1>2, <1>5, Zenon DEF Promise!Copy, Both
<1> QED
  BY <1>4, <1>6

\* What was written last is read as what the message written said.
LEMMA ReadPromised ==
  ASSUME PromiseInv, NEW x \in {1, 2}, NEW j \in Junk, ParseMessage(x, j)
  PROVE  PromiseInv' /\ Promise!Read(x)
<1>1. /\ class \in Classes /\ msg[x] \in Msgs[class] /\ j \in Int
  BY BothSay, JunkAssumption
<1>2. bytes # << >>
  BY DEF ParseMessage
<1>3. PICK r, how : /\ r = ParseFromIstream(class, msg[x], bytes[1], j) /\ Assign(x, r.msg, how)
                    /\ how = << "read", x >>
  BY Zenon DEF ParseMessage
<1>4. PICK s, X : s = bytes[1] /\ X = decoded[1]
  OBVIOUS
<1>5. /\ decoded # << >> /\ X \in AllContents[class] /\ Decode(class, s) = Reading(X) /\ s \in Seq(Byte)
  BY <1>2, <1>4 DEF PromiseInv, MessagesInv
<1>6. Decode(class, s).ok /\ Decode(class, s).content = X
  <2>1. PICK d : d = Decode(class, s)
    OBVIOUS
  <2>2. d = [ok |-> TRUE, content |-> X]
    BY <1>5, <2>1 DEF Reading
  <2>3. d.ok = TRUE
    BY <2>2, Zenon
  <2>4. d.content = X
    BY <2>2
  <2> QED
    BY <2>1, <2>3, <2>4, Zenon
<1>7. Content(class, r.msg) = X
  BY <1>1, <1>3, <1>4, <1>5, <1>6, ReadAlike
<1>8. Saying(class, r.msg)
  BY <1>1, <1>3, <1>4, <1>5, <1>7, ParseFromIstreamType DEF Saying
<1>9. PromiseInv' /\ Puts(x, X, how)
  BY <1>3, <1>7, <1>8, AssignPuts
<1>10. Promise!Put(x, X, how)
  BY <1>9, PutsIs
<1> QED
  BY <1>3, <1>4, <1>5, <1>9, <1>10, Zenon DEF Promise!Read

\* Swap, of a message with itself too.
LEMMA SwapPromised ==
  ASSUME PromiseInv, NEW x \in {1, 2}, NEW y \in {1, 2}, NEW j \in Junk, CallSwap(x, y, j)
  PROVE  PromiseInv' /\ Promise!Exchange(x, y)
<1>1. class \in Classes /\ Saying(class, msg[x]) /\ Saying(class, msg[y]) /\ j \in Int
  BY BothSay, JunkAssumption
<1>2. PICK after : after = Swap(class, msg[x], msg[y], sameArena, j)
  OBVIOUS
<1>3. PICK a, b : a = after[1] /\ b = after[2]
  OBVIOUS
<1>4. /\ Content(class, a) = Content(class, msg[y]) /\ Saying(class, a)
      /\ Content(class, b) = Content(class, msg[x]) /\ Saying(class, b)
  <2>1. SwapIs(class, msg[x], msg[y], after)
    BY <1>1, <1>2, SwapSays, Zenon
  <2> QED
    BY <1>3, <2>1 DEF SwapIs
<1>5. /\ msg' = IF x = y THEN msg ELSE [msg EXCEPT ![x] = a, ![y] = b]
      /\ class' = class /\ decoded' = decoded /\ bytes' = bytes /\ call' = << "swap", x, y >>
  BY <1>2, <1>3, Zenon DEF CallSwap, Called
<1>6. msg \in [{1, 2} -> Msgs[class]]
  BY DEF PromiseInv, MessagesInv
<1>7. /\ Saying(class, msg'[1]) /\ Saying(class, msg'[2])
      /\ Content(class, msg'[x]) = Content(class, msg[y]) /\ Content(class, msg'[y]) = Content(class, msg[x])
  <2>1. CASE x = y
    BY <1>5, <2>1, BothSay
  <2>2. CASE x # y
    <3>1. msg'[x] = a /\ msg'[y] = b
      BY <1>5, <1>6, <2>2
    <3>2. \A z \in {1, 2} : z = x \/ z = y
      BY <2>2
    <3> QED
      BY <1>4, <3>1, <3>2
  <2> QED
    BY <2>1, <2>2
<1>8. MessagesInv'
  BY SwapCalls, CallKeeps DEF PromiseInv
<1>9. PromiseInv'
  <2>1. bytes # << >> =>
          decoded # << >> /\ decoded[1] \in AllContents[class] /\ Decode(class, bytes[1]) = Reading(decoded[1])
    BY DEF PromiseInv
  <2>2. bytes' # << >> =>
          /\ decoded' # << >> /\ decoded'[1] \in AllContents[class']
          /\ Decode(class', bytes'[1]) = Reading(decoded'[1])
    BY <1>5, <2>1
  <2>3. \A z \in {1, 2} : Saying(class', msg'[z])
    BY <1>5, <1>7
  <2> QED
    BY <1>8, <2>2, <2>3 DEF PromiseInv
<1>10. (Both)' = [Both EXCEPT ![x] = Both[y], ![y] = Both[x]]
  <2>1. PICK p, q : p = Content(class, msg[1]) /\ q = Content(class, msg[2])
    OBVIOUS
  <2>2. Both = << p, q >> /\ (Both)' = << Content(class, msg'[1]), Content(class, msg'[2]) >>
    BY <1>5, <2>1 DEF Both
  <2>3. CASE x = 1 /\ y = 2
    BY <1>7, <2>1, <2>2, <2>3
  <2>4. CASE x = 2 /\ y = 1
    BY <1>7, <2>1, <2>2, <2>4
  <2>5. CASE x = 1 /\ y = 1
    <3>1. (Both)' = << p, q >>
      BY <1>5, <2>1, <2>2, <2>5
    <3> QED
      BY <2>2, <2>5, <3>1
  <2>6. CASE x = 2 /\ y = 2
    <3>1. (Both)' = << p, q >>
      BY <1>5, <2>1, <2>2, <2>6
    <3> QED
      BY <2>2, <2>6, <3>1
  <2> QED
    BY <2>3, <2>4, <2>5, <2>6
<1>11. Promise!Exchange(x, y)
  BY <1>5, <1>10, Zenon DEF Promise!Exchange, Both
<1> QED
  BY <1>9, <1>11

\* Whoever reads what was written by the descriptor gets what the message says.
LEMMA SerializeReads ==
  ASSUME NEW c \in Classes, NEW z, Saying(c, z), NEW mode, NEW y, y = ByteSizeLong(c, z),
         y._cached_size_ <= MaxInt, NEW s, s = Serialize(c, y, mode)
  PROVE  Decode(c, s) = Reading(Content(c, z))
<1>1. PICK x : x = Content(c, z) /\ x \in AllContents[c] /\ z \in Msgs[c]
  BY DEF Saying
<1>2. y \in Msgs[c] /\ Content(c, y) = x
  BY <1>1, ByteSizeLongType, SizedSaysSame
<1>3. s = WholeBytes(ToStream, c, y)
  <2>1. PICK below : below = [m \in Below(c) |-> [k \in DOMAIN y[m] |-> WholeBytes(ToStream, ClassBelow(c, m), y[m][k])]]
    OBVIOUS
  <2>2. Serialize(c, y, mode) = AllBytes(ToStream[c], c, y, below)
    BY <2>1, TablesAgree DEF Serialize
  <2>3. WholeBytes(ToStream, c, y) = AllBytes(ToStream[c], c, y, below)
    BY <1>2, <2>1, BytesUnfold DEF BytesBelow
  <2> QED
    BY <2>2, <2>3
<1>4. ReadBack(c, y, s)
  BY <1>1, <1>3, MessageReadBack
<1>5. Len(s) <= MaxInt
  BY <1>4 DEF ReadBack
<1>6. PICK e : e = Empty(c) /\ e \in AllContents[c] /\ Merged(c, e, x) = x
  BY <1>1, MergedIntoNothing
<1>7. Yields(c, e, s, x)
  <2>1. Yields(c, e, s, Merged(c, e, Content(c, y)))
    BY <1>4, <1>5, <1>6 DEF ReadBack
  <2> QED
    BY <1>2, <1>6, <2>1
<1>8. DecodeInto(c, e, s) = Reading(x)
  BY <1>7, YieldsAll
<1> QED
  BY <1>1, <1>6, <1>8 DEF Decode

\* SerializeToOstream.
LEMMA WritePromised ==
  ASSUME PromiseInv, NEW x \in {1, 2}, NEW mode, SerializeMessage(x, mode)
  PROVE  PromiseInv' /\ Promise!Write(x)
<1>1. class \in Classes /\ Saying(class, msg[x]) /\ msg[x] \in Msgs[class]
  BY BothSay
<1>2. msg \in [{1, 2} -> Msgs[class]]
  BY DEF PromiseInv, MessagesInv
<1>3. PICK y : y = ByteSizeLong(class, msg[x])
  OBVIOUS
<1>4. msg' = [msg EXCEPT ![x] = y] /\ class' = class /\ call' = << "write", x >>
  BY <1>3, Zenon DEF SerializeMessage, Called
<1>5. msg'[x] = y /\ \A z \in {1, 2} : z # x => msg'[z] = msg[z]
  BY <1>2, <1>4
<1>6. PICK s, X : s = Serialize(class, y, mode) /\ X = Content(class, msg[x])
  OBVIOUS
<1>7. y._cached_size_ <= MaxInt /\ bytes' = << s >> /\ decoded' = << Decode(class, s).content >>
  <2>1. msg'[x]._cached_size_ <= MaxInt /\ bytes' = << Serialize(class, msg'[x], mode) >>
    BY DEF SerializeMessage
  <2>2. bytes' = << s >>
    BY <1>5, <1>6, <2>1
  <2>3. bytes'[1] = s
    BY <2>2
  <2>4. decoded' = << Decode(class, bytes'[1]).content >>
    BY DEF SerializeMessage
  <2> QED
    BY <1>5, <2>1, <2>2, <2>3, <2>4
<1>8. Decode(class, s) = Reading(X)
  BY <1>1, <1>3, <1>6, <1>7, SerializeReads
<1>9. decoded' = << X >>
  <2>1. Decode(class, s).content = X
    BY <1>8 DEF Reading
  <2> QED
    BY <1>7, <2>1
<1>10. y \in Msgs[class] /\ Content(class, y) = X /\ X \in AllContents[class]
  BY <1>1, <1>3, <1>6, ByteSizeLongType, SizedSaysSame DEF Saying
<1>11. PromiseInv'
  <2>1. MessagesInv'
    BY SerializeKeeps DEF PromiseInv
  <2>2. \A z \in {1, 2} : Saying(class', msg'[z])
    <3>1. Saying(class, y)
      BY <1>10 DEF Saying
    <3> QED
      BY <1>4, <1>5, <3>1, BothSay
  <2>3. bytes'[1] = s /\ decoded'[1] = X /\ decoded' # << >>
    BY <1>7, <1>9
  <2>4. decoded'[1] \in AllContents[class'] /\ Decode(class', bytes'[1]) = Reading(decoded'[1])
    BY <1>4, <1>8, <1>10, <2>3
  <2> QED
    BY <2>1, <2>2, <2>3, <2>4 DEF PromiseInv
<1>12. (Both)' = Both
  <2>1. \A z \in {1, 2} : Content(class, msg'[z]) = Content(class, msg[z])
    BY <1>5, <1>6, <1>10
  <2> QED
    BY <1>4, <2>1 DEF Both
<1>13. Promise!Write(x)
  <2>1. X = Both[x]
    BY <1>6, BothAt
  <2> QED
    BY <1>4, <1>9, <1>12, <2>1, Zenon DEF Promise!Write, Both
<1> QED
  BY <1>11, <1>13

\* The accessors, whatever they are called with.
LEMMA AccessorsPromised ==
  ASSUME PromiseInv, NEW x \in {1, 2}, NEW j \in Junk, NEW m \in DOMAIN Accessors[class],
         \/ \E v \in Values(class, m) : Set(x, m, v) \/ Add(x, m, v, j)
         \/ ClearField(x, m)
         \/ Mutable(x, m, j)
  PROVE  PromiseInv' /\ Promise!Next
<1>1. ASSUME NEW v \in Values(class, m), Set(x, m, v) PROVE PromiseInv' /\ Promise!Next
  <2>1. PromiseInv' /\ m \in FieldNames(class) /\ call' = << "set", x, m, v >> /\ Promise!Set(x, m, v)
    BY <1>1, SetPromised
  <2>2. call'[1] = "set" /\ call'[4] = v
    BY <2>1
  <2>3. m \in Promise!FieldNames(class) /\ Promise!Set(x, m, call'[4])
    BY <2>1, <2>2, NamesSame, Zenon
  <2> QED
    BY <2>1, <2>2, <2>3, Zenon DEF Promise!Next
<1>2. ASSUME NEW v \in Values(class, m), Add(x, m, v, j) PROVE PromiseInv' /\ Promise!Next
  <2>1. PromiseInv' /\ m \in FieldNames(class) /\ call' = << "add", x, m, v >> /\ Promise!Add(x, m, v)
    BY <1>2, AddPromised
  <2>2. call'[1] = "add" /\ call'[4] = v
    BY <2>1
  <2>3. m \in Promise!FieldNames(class) /\ Promise!Add(x, m, call'[4])
    BY <2>1, <2>2, NamesSame, Zenon
  <2> QED
    BY <2>1, <2>2, <2>3, Zenon DEF Promise!Next
<1>3. CASE ClearField(x, m)
  <2>1. PromiseInv' /\ m \in FieldNames(class) /\ Promise!ClearField(x, m)
    BY <1>3, ClearFieldPromised
  <2>2. m \in Promise!FieldNames(class)
    BY <2>1, NamesSame, Zenon
  <2> QED
    BY <2>1, <2>2, Zenon DEF Promise!Next
<1>4. CASE Mutable(x, m, j)
  <2>1. /\ PromiseInv' /\ m \in FieldNames(class) /\ IsMessage(Schema[class][m])
        /\ ~ Schema[class][m].repeated /\ Promise!Mutable(x, m)
    BY <1>4, MutablePromised
  <2>2. m \in Promise!FieldNames(class)
    BY <2>1, NamesSame, Zenon
  <2>3. Promise!IsMessage(Promise!Schema[class][m]) /\ ~ Promise!Schema[class][m].repeated
    BY <2>1, NamesSame, SchemaSame
  <2> QED
    BY <2>1, <2>2, <2>3, Zenon DEF Promise!Next
<1> QED
  BY <1>1, <1>2, <1>3, <1>4

\* The member functions that have another message.
LEMMA FunctionsPromised ==
  ASSUME PromiseInv, NEW x \in {1, 2}, NEW y \in {1, 2}, NEW j \in Junk,
         CallMergeFrom(x, y, j) \/ CallCopyFrom(x, y, j) \/ CopyConstruct(x, y, j) \/ CallSwap(x, y, j)
  PROVE  PromiseInv' /\ Promise!Next
<1>1. CASE CallMergeFrom(x, y, j)
  <2>1. PromiseInv' /\ y # x /\ Promise!Merge(x, y)
    BY <1>1, MergePromised
  <2> QED
    BY <2>1, Zenon DEF Promise!Next
<1>2. CASE CallCopyFrom(x, y, j) \/ CopyConstruct(x, y, j)
  <2>1. PromiseInv' /\ Promise!Copy(x, y)
    BY <1>2, CopyPromised
  <2> QED
    BY <2>1, Zenon DEF Promise!Next
<1>3. CASE CallSwap(x, y, j)
  <2>1. PromiseInv' /\ Promise!Exchange(x, y)
    BY <1>3, SwapPromised
  <2> QED
    BY <2>1, Zenon DEF Promise!Next
<1> QED
  BY <1>1, <1>2, <1>3

\* Every call on the messages is a call of the promise.
LEMMA NextPromised ==
  ASSUME PromiseInv, Next
  PROVE  PromiseInv' /\ Promise!Next
<1>1. PICK x \in {1, 2}, j \in Junk :
        \/ \E m \in DOMAIN Accessors[class] :
             \/ \E v \in Values(class, m) : Set(x, m, v) \/ Add(x, m, v, j)
             \/ ClearField(x, m)
             \/ Mutable(x, m, j)
        \/ CallClear(x)
        \/ \E y \in {1, 2} : \/ CallMergeFrom(x, y, j)
                             \/ CallCopyFrom(x, y, j)
                             \/ CopyConstruct(x, y, j)
                             \/ CallSwap(x, y, j)
        \/ \E mode \in {"stream", "mixed", "array"} : SerializeMessage(x, mode)
        \/ ParseMessage(x, j)
  BY Zenon DEF Next
<1>2. ASSUME NEW m \in DOMAIN Accessors[class],
             \/ \E v \in Values(class, m) : Set(x, m, v) \/ Add(x, m, v, j)
             \/ ClearField(x, m)
             \/ Mutable(x, m, j)
      PROVE  PromiseInv' /\ Promise!Next
  BY <1>2, AccessorsPromised
<1>3. ASSUME CallClear(x) PROVE PromiseInv' /\ Promise!Next
  <2>1. PromiseInv' /\ Promise!Clear(x)
    BY <1>3, ClearPromised
  <2> QED
    BY <2>1, Zenon DEF Promise!Next
<1>4. ASSUME NEW y \in {1, 2},
             CallMergeFrom(x, y, j) \/ CallCopyFrom(x, y, j) \/ CopyConstruct(x, y, j) \/ CallSwap(x, y, j)
      PROVE  PromiseInv' /\ Promise!Next
  BY <1>4, FunctionsPromised
<1>5. ASSUME NEW mode \in {"stream", "mixed", "array"}, SerializeMessage(x, mode)
      PROVE  PromiseInv' /\ Promise!Next
  <2>1. PromiseInv' /\ Promise!Write(x)
    BY <1>5, WritePromised
  <2> QED
    BY <2>1, Zenon DEF Promise!Next
<1>6. ASSUME ParseMessage(x, j) PROVE PromiseInv' /\ Promise!Next
  <2>1. PromiseInv' /\ Promise!Read(x)
    BY <1>6, ReadPromised
  <2> QED
    BY <2>1, Zenon DEF Promise!Next
<1> QED
  BY <1>1, <1>2, <1>3, <1>4, <1>5, <1>6

\* A step that calls nothing changes nothing that the promise is about.
LEMMA StutterPromised ==
  ASSUME PromiseInv, UNCHANGED vars
  PROVE  PromiseInv' /\ UNCHANGED Promise!avars
<1>1. class' = class /\ msg' = msg /\ bytes' = bytes /\ decoded' = decoded /\ written' = written /\ call' = call
  BY DEF vars
<1>2. PromiseInv'
  <2>1. MessagesInv'
    BY <1>1 DEF PromiseInv, MessagesInv
  <2>2. \A x \in {1, 2} : Saying(class', msg'[x])
    BY <1>1 DEF PromiseInv
  <2>3. bytes' # << >> =>
          /\ decoded' # << >> /\ decoded'[1] \in AllContents[class']
          /\ Decode(class', bytes'[1]) = Reading(decoded'[1])
    BY <1>1 DEF PromiseInv
  <2> QED
    BY <2>1, <2>2, <2>3 DEF PromiseInv
<1>3. (Both)' = Both
  BY <1>1 DEF Both
<1>4. UNCHANGED Promise!avars
  BY <1>1, <1>3, Zenon DEF Promise!avars, Both
<1> QED
  BY <1>2, <1>4

\* Two messages that are built from contents say them.
LEMMA InitPromised ==
  ASSUME Init
  PROVE  PromiseInv /\ Promise!Init
<1>1. MessagesInv /\ class \in Classes /\ bytes = << >> /\ decoded = << >> /\ call = << "new" >>
  BY InitInv DEF Init
<1>2. PICK a \in Samples(class), b \in Samples(class), j \in Junk :
        msg = << Build(class, a, j), Build(class, b, j) >>
  BY DEF Init
<1>3. a \in AllContents[class] /\ b \in AllContents[class] /\ j \in Int
  BY <1>1, SamplesAssumption, JunkAssumption DEF AllContents
<1>4. msg[1] = Build(class, a, j) /\ msg[2] = Build(class, b, j)
  BY <1>2
<1>5. /\ msg[1] \in Msgs[class] /\ Content(class, msg[1]) = a
      /\ msg[2] \in Msgs[class] /\ Content(class, msg[2]) = b
  BY <1>1, <1>3, <1>4, BuildType, BuiltSays
<1>6. Saying(class, msg[1]) /\ Saying(class, msg[2])
  BY <1>3, <1>5 DEF Saying
<1>7. PromiseInv
  BY <1>1, <1>6 DEF PromiseInv
<1>8. class \in Promise!Classes /\ DOMAIN Both = {1, 2}
  BY <1>1, NamesSame, BothIs
<1>9. Promise!Init
  BY <1>1, <1>8, Zenon DEF Promise!Init, Both
<1> QED
  BY <1>7, <1>9

\* The message classes keep the promise of Messages: whatever is called, in whatever order
\* and on messages of any size, a call does to the contents what the descriptor says, and
\* what is written is, to a reader who has the descriptor only, what the message says.
THEOREM ClassesKeepPromise == Spec => ImplementsMessages
<1>1. Init => PromiseInv /\ Promise!Init
  BY InitPromised
<1>2. PromiseInv /\ [Next]_vars => PromiseInv' /\ [Promise!Next]_(Promise!avars)
  BY NextPromised, StutterPromised
<1> QED
  BY <1>1, <1>2, PTL DEF Spec, ImplementsMessages, Promise!Spec
===============================================================================
