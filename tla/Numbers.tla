------------------------------- MODULE Numbers --------------------------------
(*****************************************************************************)
(* The numbers and kinds of a declaration on their way from clang to the     *)
(* fields of a message: visitEnumType, VisitConstantArrayType and            *)
(* VisitBuiltinType of src/clang.cpp, the types of AST.h, and the visit      *)
(* functions of src/ProtoFormat.cpp.  The widths are those of the C++ types, *)
(* scaled down; from the field on, ProtoMessage shows that nothing is lost.  *)
(*****************************************************************************)
EXTENDS Integers, Sequences

CONSTANTS
  IntBits,      \* the width of an int32 field
  LongBits,     \* the width of an unsigned long long, and of a size_t
  Declarations  \* enumerations, arrays and builtin types: what clang hands over, and
                \*   arrays that a program makes with the classes of AST.h

ASSUME WidthsAssumption ==
  IntBits \in Nat \ {0} /\ LongBits \in Nat /\ LongBits >= IntBits

\* 2^n, as a function that a proof can unfold.
Pow2[n \in Nat] == IF n = 0 THEN 1 ELSE 2 * Pow2[n - 1]

\* A number of a signed or of an unsigned type; the enumerators of one width
\* have one type.
SignedNumber(n) == n.value \in -Pow2[n.bits - 1] .. Pow2[n.bits - 1] - 1
UnsignedNumber(n) == n.value \in 0 .. Pow2[n.bits] - 1

ASSUME DeclarationsAssumption ==
  \A d \in Declarations :
    /\ d.values \in Seq([bits : Nat \ {0}, value : Int])
    /\ \A k, l \in 1 .. Len(d.values) :
         d.values[k].bits = d.values[l].bits =>
           \/ SignedNumber(d.values[k]) /\ SignedNumber(d.values[l])
           \/ UnsignedNumber(d.values[k]) /\ UnsignedNumber(d.values[l])
    /\ d.count \in [bits : 1 .. LongBits, value : Int] /\ UnsignedNumber(d.count)

VARIABLES
  decl,     \* the clang::Type, or the array to be made
  type,     \* the autoffi::Type
  message,  \* the proto::Type
  pc

numberVars == <<decl, type, message, pc>>

NoType == [kind |-> "none", values |-> << >>, count |-> 0, primitiveKind |-> 0]

\* The fields of a message that was just added.
NoMessage == [kind |-> "UNDEFINED", value |-> << >>, size |-> 0, primitiveKind |-> 0]

NumbersInit ==
  /\ decl \in Declarations
  /\ type = NoType /\ message = NoMessage /\ pc = "visit"

-------------------------------------------------------------------------------
(* Numbers.                                                                  *)

\* APInt::getLimitedValue: the bits are read as an unsigned number, whatever
\* the sign, and what does not fit into 64 bits is the largest number that does.
getLimitedValue(n) ==
  LET bits == n.value % Pow2[n.bits]
  IN  IF bits < Pow2[LongBits] THEN bits ELSE Pow2[LongBits] - 1

\* The conversion of an unsigned long long, or a size_t, to the int32 of a field.
\* Wrong variant: what does not fit is cut off at the largest number.
Saturated(v) == IF v < Pow2[IntBits - 1] THEN v ELSE Pow2[IntBits - 1] - 1
Int32(v) ==
  LET bits == v % Pow2[IntBits]
  IN  IF bits < Pow2[IntBits - 1] THEN bits ELSE bits - Pow2[IntBits]

-------------------------------------------------------------------------------
(* Kinds.                                                                    *)

\* The enumerators of autoffi::PrimitiveKind, in order.
\* Wrong variant: the signed ones come where the unsigned ones are.
PrimitiveKindsSwapped ==
  <<"Bool", "Char_S", "SChar", "WChar_S", "Char16", "Char32", "Short", "Int", "Long", "LongLong", "Int128",
    "Char_U", "UChar", "WChar_U", "UShort", "UInt", "ULong", "ULongLong", "UInt128",
    "Half", "Float", "Double", "LongDouble", "NullPtr", "Void">>
PrimitiveKinds ==
  <<"Bool", "Char_U", "UChar", "WChar_U", "Char16", "Char32", "UShort", "UInt", "ULong", "ULongLong", "UInt128",
    "Char_S", "SChar", "WChar_S", "Short", "Int", "Long", "LongLong", "Int128",
    "Half", "Float", "Double", "LongDouble", "NullPtr", "Void">>

\* The numbers of proto::PrimitiveKind.
ProtoPrimitiveKind ==
  [Bool |-> 0, Char_U |-> 1, UChar |-> 2, WChar_U |-> 3, Char16 |-> 4, Char32 |-> 5, UShort |-> 6, UInt |-> 7,
   ULong |-> 8, ULongLong |-> 9, UInt128 |-> 10, Char_S |-> 11, SChar |-> 12, WChar_S |-> 13, Short |-> 14,
   Int |-> 15, Long |-> 16, LongLong |-> 17, Int128 |-> 18, Half |-> 19, Float |-> 20, Double |-> 21,
   LongDouble |-> 22, NullPtr |-> 23, Void |-> 24]

PrimitiveKind_IsValid(n) == n \in 0 .. 24

\* clangBuiltinTypeKindToTransitPrimitiveKind knows these builtin types, by the
\* names of their kinds; for any other it throws.
Supported == {PrimitiveKinds[k] : k \in 1 .. Len(PrimitiveKinds)}

\* (int) of an enumerator.
Number(kind) == CHOOSE k \in 0 .. Len(PrimitiveKinds) - 1 : PrimitiveKinds[k + 1] = kind

-------------------------------------------------------------------------------
(* The TypeConverter.                                                        *)

\* for (auto value: decl->enumerators()) converted->addValue(...)
VisitEnumerator ==
  /\ pc = "visit" /\ decl.kind = "enum"
  /\ Len(type.values) < Len(decl.values)
  /\ type' = [type EXCEPT !.kind = "ENUM",
                          !.values = Append(@, getLimitedValue(decl.values[Len(@) + 1]))]
  /\ UNCHANGED <<decl, message, pc>>

EnumVisited ==
  /\ pc = "visit" /\ decl.kind = "enum"
  /\ Len(type.values) = Len(decl.values)
  /\ type' = [type EXCEPT !.kind = "ENUM"] /\ pc' = "write"
  /\ UNCHANGED <<decl, message>>

VisitConstantArrayType ==
  /\ pc = "visit" /\ decl.kind = "constant array"
  /\ type' = [type EXCEPT !.kind = "FIXED_ARRAY", !.count = getLimitedValue(decl.count)]
  /\ pc' = "write"
  /\ UNCHANGED <<decl, message>>

\* There is no function for an array without a size.
VisitType ==
  /\ pc = "visit" /\ decl.kind = "incomplete array"
  /\ pc' = "thrown"
  /\ UNCHANGED <<decl, type, message>>

\* Such an array is only made by a program that builds the types itself.
MakeVariadicArray ==
  /\ pc = "visit" /\ decl.kind = "variadic array"
  /\ type' = [type EXCEPT !.kind = "VARIADIC_ARRAY"] /\ pc' = "write"
  /\ UNCHANGED <<decl, message>>

VisitBuiltinType ==
  /\ pc = "visit" /\ decl.kind = "builtin"
  /\ IF decl.builtin \in Supported
     THEN type' = [type EXCEPT !.kind = "PRIMITIVE", !.primitiveKind = Number(decl.builtin)] /\ pc' = "write"
     ELSE pc' = "thrown" /\ UNCHANGED type
  /\ UNCHANGED <<decl, message>>

-------------------------------------------------------------------------------
(* The TypeToMessageConverter.                                               *)

visitEnumValue ==
  /\ pc = "write" /\ type.kind = "ENUM"
  /\ Len(message.value) < Len(type.values)
  /\ message' = [message EXCEPT !.kind = "ENUM", !.value = Append(@, Int32(type.values[Len(@) + 1]))]
  /\ UNCHANGED <<decl, type, pc>>

visitEnumType ==
  /\ pc = "write" /\ type.kind = "ENUM"
  /\ Len(message.value) = Len(type.values)
  /\ message' = [message EXCEPT !.kind = "ENUM"] /\ pc' = "written"
  /\ UNCHANGED <<decl, type>>

visitFixedArrayType ==
  /\ pc = "write" /\ type.kind = "FIXED_ARRAY"
  /\ message' = [message EXCEPT !.kind = "ARRAY", !.size = Int32(type.count)] /\ pc' = "written"
  /\ UNCHANGED <<decl, type>>

visitVariadicArrayType ==
  /\ pc = "write" /\ type.kind = "VARIADIC_ARRAY"
  /\ message' = [message EXCEPT !.kind = "ARRAY"] /\ pc' = "written"
  /\ UNCHANGED <<decl, type>>

\* "this is a really ugly hack": the number of the kind is cast.
visitPrimitiveType ==
  /\ pc = "write" /\ type.kind = "PRIMITIVE"
  /\ message' = [message EXCEPT !.kind = "PRIMITIVE", !.primitiveKind = type.primitiveKind]
  /\ pc' = "written"
  /\ UNCHANGED <<decl, type>>

NumbersNext ==
  \/ VisitEnumerator \/ EnumVisited
  \/ VisitConstantArrayType \/ VisitBuiltinType \/ VisitType \/ MakeVariadicArray
  \/ visitEnumValue \/ visitEnumType \/ visitFixedArrayType \/ visitVariadicArrayType \/ visitPrimitiveType

NumbersSpec == NumbersInit /\ [][NumbersNext]_numberVars

-------------------------------------------------------------------------------
(* Properties.                                                               *)

InField(v) == v \in -Pow2[IntBits - 1] .. Pow2[IntBits - 1] - 1

\* The enumerators that arrive as they were declared are exactly those that fit
\* into the field and are not negative, or whose type has between 32 and 64
\* bits; and -1 of a wider type.  A negative enumerator of a narrower type, and
\* a large one, arrives as another number.
EnumeratorsKept ==
  pc = "written" /\ decl.kind = "enum" =>
    /\ Len(message.value) = Len(decl.values)
    /\ \A k \in 1 .. Len(decl.values) :
         LET n == decl.values[k] IN
           message.value[k] = n.value <=>
             /\ InField(n.value)
             /\ n.value >= 0 \/ (n.bits >= IntBits /\ (n.bits <= LongBits \/ n.value = -1))

\* Even so, two enumerators of one type with at most 32 bits are told apart,
\* those of an unsigned int too.
EnumeratorsDistinct ==
  pc = "written" /\ decl.kind = "enum" =>
    \A k, l \in 1 .. Len(decl.values) :
      /\ decl.values[k].bits <= IntBits /\ decl.values[l].bits = decl.values[k].bits
      /\ message.value[k] = message.value[l]
      => decl.values[k] = decl.values[l]

\* The size of an array arrives if it fits.  What has no size for the reader is
\* an array without a size, or one of a size that the field cannot tell from
\* that: int a[0], and every multiple of 2^32.
SizesKept ==
  pc = "written" /\ message.kind = "ARRAY" =>
    /\ decl.kind = "constant array" /\ InField(decl.count.value) => message.size = decl.count.value
    /\ message.size = 0 <=>
         decl.kind = "variadic array" \/ decl.count.value % Pow2[IntBits] = 0

\* What happens to every number on its way from clang to a message: kept, or
\* changed for one of these reasons.
NumbersKept == EnumeratorsKept /\ EnumeratorsDistinct /\ SizesKept

\* The two enumerations of primitive kinds, which nothing but their order
\* relates, agree: the reader gets the kind by the name that clang has for it.
KindsKept ==
  pc = "written" /\ decl.kind = "builtin" =>
    /\ PrimitiveKind_IsValid(message.primitiveKind)
    /\ ProtoPrimitiveKind[decl.builtin] = message.primitiveKind
===============================================================================
