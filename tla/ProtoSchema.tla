----------------------------- MODULE ProtoSchema -----------------------------
(*****************************************************************************)
(* The messages as the descriptor that src/autoffi.pb.cc embeds describes    *)
(* them (the bytes of autoffi.proto), and what a message is to a reader who  *)
(* has nothing but this descriptor: the printer of JSON, which decodes the   *)
(* bytes of a message by it, and any binding generator.                      *)
(*****************************************************************************)
EXTENDS ProtoWire

Optional(n, type) == [number |-> n, type |-> type, repeated |-> FALSE]
Repeated(n, type) == [number |-> n, type |-> type, repeated |-> TRUE]

Schema ==
  [RecordField |-> [name |-> Optional(1, "string"), type |-> Optional(2, "int32"),
                    defaultValue |-> Optional(3, "Value")],
   EnumValue |-> [name |-> Optional(1, "string"), value |-> Optional(2, "int32")],
   Type |-> [id |-> Optional(1, "int32"), kind |-> Optional(2, "enum"),
             referencedType |-> Optional(5, "int32"), isBlockPointer |-> Optional(6, "bool"),
             elementType |-> Optional(10, "int32"), size |-> Optional(11, "int32"),
             primitiveKind |-> Optional(15, "enum"), recordKind |-> Optional(20, "enum"),
             field |-> Repeated(21, "RecordField"), returnType |-> Optional(25, "int32"),
             paramType |-> Repeated(26, "int32"), value |-> Repeated(30, "EnumValue"),
             isConst |-> Optional(50, "bool"), isVolatile |-> Optional(51, "bool"),
             underlyingType |-> Optional(49, "int32")],
   Value |-> [typeId |-> Optional(1, "int32"), mangledName |-> Optional(5, "string"),
              value |-> Optional(10, "bytes")],
   Export |-> [name |-> Optional(1, "string"), type |-> Optional(2, "int32"),
               value |-> Optional(3, "Value")],
   Catalog |-> [type |-> Repeated(1, "Type"), export |-> Repeated(2, "Export")]]

Classes == DOMAIN Schema
FieldNames(c) == DOMAIN Schema[c]
IsMessage(f) == f.type \in Classes

\* How deep messages go: a catalog has types, which have fields, which have values.
Height == [Value |-> 0, EnumValue |-> 0, RecordField |-> 1, Export |-> 1, Type |-> 2, Catalog |-> 3]

-------------------------------------------------------------------------------
(* The content of a message: a value for each field, a sequence for repeated *)
(* ones; a singular message field is a sequence of at most one.              *)

Text == {s \in Seq(Byte) : VerifyUtf8String(s)}
AtMostOne(S) == {s \in Seq(S) : Len(s) <= 1}

ValueContents == [typeId : Int32, mangledName : Text, value : Seq(Byte)]
EnumValueContents == [name : Text, value : Int32]
RecordFieldContents == [name : Text, type : Int32, defaultValue : AtMostOne(ValueContents)]
ExportContents == [name : Text, type : Int32, value : AtMostOne(ValueContents)]
TypeContents ==
  [id : Int32, kind : Int32, referencedType : Int32, isBlockPointer : BOOLEAN,
   elementType : Int32, size : Int32, primitiveKind : Int32, recordKind : Int32,
   field : Seq(RecordFieldContents), returnType : Int32, paramType : Seq(Int32),
   value : Seq(EnumValueContents), isConst : BOOLEAN, isVolatile : BOOLEAN,
   underlyingType : Int32]
CatalogContents == [type : Seq(TypeContents), export : Seq(ExportContents)]

Contents(c) ==
  CASE c = "Value" -> ValueContents
    [] c = "EnumValue" -> EnumValueContents
    [] c = "RecordField" -> RecordFieldContents
    [] c = "Export" -> ExportContents
    [] c = "Type" -> TypeContents
    [] c = "Catalog" -> CatalogContents

Absent(f) ==
  CASE f.repeated \/ IsMessage(f) \/ f.type \in {"string", "bytes"} -> << >>
    [] ~ f.repeated /\ f.type = "bool" -> FALSE
    [] ~ f.repeated /\ f.type \in {"int32", "enum"} -> 0

Empty(c) == [n \in FieldNames(c) |-> Absent(Schema[c][n])]

\* What it means to merge one message into another: what is absent changes nothing.
\* The only messages merged into others below them are Values, which have none below.
MergedScalars(c, to, from) ==
  [n \in FieldNames(c) |-> IF from[n] = Absent(Schema[c][n]) THEN to[n] ELSE from[n]]

Merged(c, to, from) ==
  [n \in FieldNames(c) |->
     LET f == Schema[c][n]
     IN  CASE from[n] = Absent(f) -> to[n]
           [] from[n] # Absent(f) /\ f.repeated -> to[n] \o from[n]
           [] from[n] # Absent(f) /\ ~ f.repeated ->
                IF IsMessage(f) /\ to[n] # << >>
                THEN << MergedScalars(f.type, to[n][1], from[n][1]) >>
                ELSE from[n]]

-------------------------------------------------------------------------------
(* Reading bytes by the descriptor.                                          *)

Wires(f) ==
  CASE f.type \in Classes \cup {"string", "bytes"} -> {LENGTH_DELIMITED}
    [] f.type \in {"int32", "enum", "bool"} /\ f.repeated -> {VARINT, LENGTH_DELIMITED}
    [] f.type \in {"int32", "enum", "bool"} /\ ~ f.repeated -> {VARINT}

\* The fields of class c that a tag means: one, or none that the descriptor knows.
Meant(c, tag) ==
  {n \in FieldNames(c) :
     Schema[c][n].number = FieldNumber(tag) /\ WireType(tag) \in Wires(Schema[c][n])}

\* What the field w of some bytes makes of the value old of field f.  For a message, sub
\* is what its bytes make of the message that is there.
Decoded(f, old, w, sub) ==
  CASE IsMessage(f) ->
         [ok |-> sub.ok, value |-> IF f.repeated THEN Append(old, sub.content) ELSE << sub.content >>]
    [] f.type = "string" -> [ok |-> VerifyUtf8String(w.bytes), value |-> w.bytes]
    [] f.type = "bytes" -> [ok |-> TRUE, value |-> w.bytes]
    [] f.type \in {"int32", "enum"} /\ f.repeated /\ WireType(w.tag) = LENGTH_DELIMITED ->
         [ok |-> Unpacked(w.bytes).ok, value |-> old \o Unpacked(w.bytes).values]
    [] f.type \in {"int32", "enum"} /\ f.repeated /\ WireType(w.tag) = VARINT ->
         [ok |-> TRUE, value |-> Append(old, w.value)]
    [] f.type \in {"int32", "enum"} /\ ~ f.repeated -> [ok |-> TRUE, value |-> w.value]
    [] f.type = "bool" ->
         [ok |-> TRUE, value |-> \E k \in 1 .. Len(w.bytes) : w.bytes[k] \notin {0, 128}]

\* The message st = [ok, content] with the outcome d of its field n.
Updated(st, n, d) == [ok |-> st.ok /\ d.ok, content |-> [st.content EXCEPT ![n] = d.value]]

\* A message is refused for what is not all there and for a field without a number.
DecodeField(c, st, w, sub) ==
  IF ~ w.sound \/ FieldNumber(w.tag) = 0 THEN [st EXCEPT !.ok = FALSE]
  ELSE IF Meant(c, w.tag) = {} THEN st
  ELSE LET n == CHOOSE n \in Meant(c, w.tag) : TRUE
       IN  Updated(st, n, Decoded(Schema[c][n], st.content[n], w, sub))

\* What the bytes of a message field f are read into: the message that a singular
\* field has already, or an empty one.
Started(f, old) == IF f.repeated \/ old = << >> THEN Empty(f.type) ELSE old[1]

\* What the fields w make of a content by the descriptor, where Sub does the same for
\* the bytes of the messages below.
DecodeBy(Sub(_, _, _), c, content, w) ==
  LET Under(f, old, k) == Sub(f.type, Started(f, old), w[k].bytes)
      Turn(st, k) ==
        LET n == CHOOSE n \in Meant(c, w[k].tag) : TRUE
        IN  DecodeField(c, st, w[k], Under(Schema[c][n], st.content[n], k))
      run[k \in 0 .. Len(w)] ==
        IF k = 0 THEN [ok |-> TRUE, content |-> content] ELSE Turn(run[k - 1], k)
  IN  run[Len(w)]

DecodeFlat(c, content, s) ==
  DecodeBy(LAMBDA d, x, t : [ok |-> FALSE, content |-> x], c, content, Fields(s))
DecodeHigh(c, content, s) == DecodeBy(DecodeFlat, c, content, Fields(s))
DecodeHigher(c, content, s) == DecodeBy(DecodeHigh, c, content, Fields(s))
DecodeInto(c, content, s) == DecodeBy(DecodeHigher, c, content, Fields(s))

\* The message that bytes s are, or a refusal.
Decode(c, s) == DecodeInto(c, Empty(c), s)
===============================================================================
