----------------------------- MODULE ProtoClasses -----------------------------
(*****************************************************************************)
(* The message classes of src/autoffi.pb.h and src/autoffi.pb.cc, as tables: *)
(* what each member function of each class does to which member.  No table   *)
(* is computed from another one, as no function of the classes is: that they *)
(* agree is what the properties of ProtoMessage and CatalogFile are about.   *)
(*****************************************************************************)
EXTENDS ProtoWire

(* Members, in the order of their declaration, and what they are: a cache is  *)
(* a size that was computed before.                                          *)
Member(kind) == [kind |-> kind, class |-> ""]
Pointer(to) == [kind |-> "pointer", class |-> to]
Messages(of) == [kind |-> "messages", class |-> of]

RecordFieldMembers == << "name", "defaultValue", "type", "_cached_size_" >>
EnumValueMembers == << "name", "value", "_cached_size_" >>
TypeMembers ==
  << "field", "paramType", "_paramtype_cached_byte_size_", "value", "id", "kind",
     "referencedType", "elementType", "size", "primitiveKind", "recordKind", "returnType",
     "isBlockPointer", "isConst", "isVolatile", "underlyingType", "_cached_size_" >>
ValueMembers == << "mangledName", "value", "typeId", "_cached_size_" >>
ExportMembers == << "name", "value", "type", "_cached_size_" >>
CatalogMembers == << "type", "export", "_cached_size_" >>

Members == [RecordField |-> RecordFieldMembers, EnumValue |-> EnumValueMembers,
            Type |-> TypeMembers, Value |-> ValueMembers,
            Export |-> ExportMembers, Catalog |-> CatalogMembers]

Position(c, name) == CHOOSE k \in 1 .. Len(Members[c]) : Members[c][k] = name

RecordFieldKinds ==
  [name |-> Member("string"), defaultValue |-> Pointer("Value"), type |-> Member("number"),
   _cached_size_ |-> Member("cache")]
EnumValueKinds ==
  [name |-> Member("string"), value |-> Member("number"), _cached_size_ |-> Member("cache")]
TypeKinds ==
  [field |-> Messages("RecordField"), paramType |-> Member("numbers"),
   _paramtype_cached_byte_size_ |-> Member("cache"), value |-> Messages("EnumValue"),
   id |-> Member("number"), kind |-> Member("number"), referencedType |-> Member("number"),
   elementType |-> Member("number"), size |-> Member("number"),
   primitiveKind |-> Member("number"), recordKind |-> Member("number"),
   returnType |-> Member("number"), isBlockPointer |-> Member("bool"),
   isConst |-> Member("bool"), isVolatile |-> Member("bool"),
   underlyingType |-> Member("number"), _cached_size_ |-> Member("cache")]
ValueKinds ==
  [mangledName |-> Member("string"), value |-> Member("string"), typeId |-> Member("number"),
   _cached_size_ |-> Member("cache")]
ExportKinds ==
  [name |-> Member("string"), value |-> Pointer("Value"), type |-> Member("number"),
   _cached_size_ |-> Member("cache")]
CatalogKinds ==
  [type |-> Messages("Type"), export |-> Messages("Export"), _cached_size_ |-> Member("cache")]

MemberOf == [RecordField |-> RecordFieldKinds, EnumValue |-> EnumValueKinds, Type |-> TypeKinds,
             Value |-> ValueKinds, Export |-> ExportKinds, Catalog |-> CatalogKinds]

MemberNames(c) == DOMAIN MemberOf[c]

\* A memset, or a memcpy, from one member of a class to another.
Span(c, first, last) ==
  {Members[c][k] : k \in Position(c, first) .. Position(c, last)}

-------------------------------------------------------------------------------
(* Accessors: the members that have them, and what kind.                     *)
RecordFieldAccessors == [name |-> "string", type |-> "number", defaultValue |-> "pointer"]
EnumValueAccessors == [name |-> "string", value |-> "number"]
TypeNumberAccessors ==
  [id |-> "number", kind |-> "number", referencedType |-> "number", isBlockPointer |-> "bool",
   elementType |-> "number", size |-> "number", primitiveKind |-> "number",
   recordKind |-> "number"]
TypeListAccessors ==
  [field |-> "messages", returnType |-> "number", paramType |-> "numbers",
   value |-> "messages", isConst |-> "bool", isVolatile |-> "bool",
   underlyingType |-> "number"]
TypeAccessors ==
  [m \in DOMAIN TypeNumberAccessors \cup DOMAIN TypeListAccessors |->
     IF m \in DOMAIN TypeNumberAccessors THEN TypeNumberAccessors[m] ELSE TypeListAccessors[m]]
ValueAccessors == [typeId |-> "number", mangledName |-> "string", value |-> "string"]
ExportAccessors == [name |-> "string", type |-> "number", value |-> "pointer"]
CatalogAccessors == [type |-> "messages", export |-> "messages"]

Accessors == [RecordField |-> RecordFieldAccessors, EnumValue |-> EnumValueAccessors,
              Type |-> TypeAccessors, Value |-> ValueAccessors,
              Export |-> ExportAccessors, Catalog |-> CatalogAccessors]

-------------------------------------------------------------------------------
(* SharedCtor, with the constructors of the repeated members: the members    *)
(* that a new message has set to zero.                                       *)
RecordFieldCtor == {"name", "_cached_size_"} \cup Span("RecordField", "defaultValue", "type")
EnumValueCtor == {"name", "value", "_cached_size_"}
TypeCtor == {"field", "paramType", "value", "_cached_size_"} \cup Span("Type", "id", "underlyingType")
ValueCtor == {"mangledName", "value", "typeId", "_cached_size_"}
ExportCtor == {"name", "_cached_size_"} \cup Span("Export", "value", "type")
CatalogCtor == {"type", "export", "_cached_size_"}

Constructed == [RecordField |-> RecordFieldCtor, EnumValue |-> EnumValueCtor, Type |-> TypeCtor,
                Value |-> ValueCtor, Export |-> ExportCtor, Catalog |-> CatalogCtor]

(* Copy constructors: the members taken over.                                *)
RecordFieldCopy == {"name", "defaultValue", "type"}
EnumValueCopy == {"name", "value"}
TypeCopy == {"field", "paramType", "value"} \cup Span("Type", "id", "underlyingType")
ValueCopy == {"mangledName", "value", "typeId"}
ExportCopy == {"name", "value", "type"}
CatalogCopy == {"type", "export"}

Copied == [RecordField |-> RecordFieldCopy, EnumValue |-> EnumValueCopy, Type |-> TypeCopy,
           Value |-> ValueCopy, Export |-> ExportCopy, Catalog |-> CatalogCopy]

(* Clear: the members reset.                                                 *)
RecordFieldClear == {"name", "defaultValue", "type"}
EnumValueClear == {"name", "value"}
TypeClear == {"field", "paramType", "value"} \cup Span("Type", "id", "underlyingType")
ValueClear == {"mangledName", "value", "typeId"}
ExportClear == {"name", "value", "type"}
CatalogClear == {"type", "export"}

Cleared == [RecordField |-> RecordFieldClear, EnumValue |-> EnumValueClear, Type |-> TypeClear,
            Value |-> ValueClear, Export |-> ExportClear, Catalog |-> CatalogClear]

(* MergeFrom: the members merged.                                            *)
RecordFieldMerge == {"name", "defaultValue", "type"}
EnumValueMerge == {"name", "value"}
TypeMerge ==
  {"field", "paramType", "value", "id", "kind", "referencedType", "elementType", "size",
   "primitiveKind", "recordKind", "returnType", "isBlockPointer", "isConst", "isVolatile",
   "underlyingType"}
ValueMerge == {"mangledName", "value", "typeId"}
ExportMerge == {"name", "value", "type"}
CatalogMerge == {"type", "export"}

MergedIn == [RecordField |-> RecordFieldMerge, EnumValue |-> EnumValueMerge, Type |-> TypeMerge,
             Value |-> ValueMerge, Export |-> ExportMerge, Catalog |-> CatalogMerge]

(* InternalSwap: the members exchanged.                                      *)
RecordFieldSwap == {"name", "defaultValue", "type", "_cached_size_"}
EnumValueSwap == {"name", "value", "_cached_size_"}
TypeSwap ==
  {"field", "paramType", "value", "id", "kind", "referencedType", "elementType", "size",
   "primitiveKind", "recordKind", "returnType", "isBlockPointer", "isConst", "isVolatile",
   "underlyingType", "_cached_size_"}
ValueSwap == {"mangledName", "value", "typeId", "_cached_size_"}
ExportSwap == {"name", "value", "type", "_cached_size_"}
CatalogSwap == {"type", "export", "_cached_size_"}

Swapped == [RecordField |-> RecordFieldSwap, EnumValue |-> EnumValueSwap, Type |-> TypeSwap,
            Value |-> ValueSwap, Export |-> ExportSwap, Catalog |-> CatalogSwap]

-------------------------------------------------------------------------------
(* ByteSizeLong: the members counted, each with the bytes taken for its tag. *)
RecordFieldByteSize == [name |-> 1, defaultValue |-> 1, type |-> 1]
EnumValueByteSize == [name |-> 1, value |-> 1]
\* Wrong variant: the tag of field 20 taken for one byte.
TypeByteSizeShortTag ==
  [field |-> 2, paramType |-> 2, value |-> 2, id |-> 1, kind |-> 1, referencedType |-> 1,
   elementType |-> 1, size |-> 1, primitiveKind |-> 1, recordKind |-> 1, returnType |-> 2,
   isBlockPointer |-> 1, isConst |-> 2, isVolatile |-> 2, underlyingType |-> 2]
TypeByteSize ==
  [field |-> 2, paramType |-> 2, value |-> 2, id |-> 1, kind |-> 1, referencedType |-> 1,
   elementType |-> 1, size |-> 1, primitiveKind |-> 1, recordKind |-> 2, returnType |-> 2,
   isBlockPointer |-> 1, isConst |-> 2, isVolatile |-> 2, underlyingType |-> 2]
ValueByteSize == [mangledName |-> 1, value |-> 1, typeId |-> 1]
ExportByteSize == [name |-> 1, value |-> 1, type |-> 1]
CatalogByteSize == [type |-> 1, export |-> 1]

TagSizes == [RecordField |-> RecordFieldByteSize, EnumValue |-> EnumValueByteSize,
             Type |-> TypeByteSize, Value |-> ValueByteSize, Export |-> ExportByteSize,
             Catalog |-> CatalogByteSize]

-------------------------------------------------------------------------------
(* SerializeWithCachedSizes: the fields in the order they are written.       *)
RecordFieldSerialize == << <<1, "name">>, <<2, "type">>, <<3, "defaultValue">> >>
EnumValueSerialize == << <<1, "name">>, <<2, "value">> >>
TypeSerialize ==
  << <<1, "id">>, <<2, "kind">>, <<5, "referencedType">>, <<6, "isBlockPointer">>,
     <<10, "elementType">>, <<11, "size">>, <<15, "primitiveKind">>, <<20, "recordKind">>,
     <<21, "field">>, <<25, "returnType">>, <<26, "paramType">>, <<30, "value">>,
     <<49, "underlyingType">>, <<50, "isConst">>, <<51, "isVolatile">> >>
ValueSerialize == << <<1, "typeId">>, <<5, "mangledName">>, <<10, "value">> >>
ExportSerialize == << <<1, "name">>, <<2, "type">>, <<3, "value">> >>
CatalogSerialize == << <<1, "type">>, <<2, "export">> >>

ToStream == [RecordField |-> RecordFieldSerialize, EnumValue |-> EnumValueSerialize,
             Type |-> TypeSerialize, Value |-> ValueSerialize, Export |-> ExportSerialize,
             Catalog |-> CatalogSerialize]

(* InternalSerializeWithCachedSizesToArray: the same for a flat buffer.      *)
RecordFieldToArray == << <<1, "name">>, <<2, "type">>, <<3, "defaultValue">> >>
EnumValueToArray == << <<1, "name">>, <<2, "value">> >>
TypeToArray ==
  << <<1, "id">>, <<2, "kind">>, <<5, "referencedType">>, <<6, "isBlockPointer">>,
     <<10, "elementType">>, <<11, "size">>, <<15, "primitiveKind">>, <<20, "recordKind">>,
     <<21, "field">>, <<25, "returnType">>, <<26, "paramType">>, <<30, "value">>,
     <<49, "underlyingType">>, <<50, "isConst">>, <<51, "isVolatile">> >>
ValueToArray == << <<1, "typeId">>, <<5, "mangledName">>, <<10, "value">> >>
ExportToArray == << <<1, "name">>, <<2, "type">>, <<3, "value">> >>
CatalogToArray == << <<1, "type">>, <<2, "export">> >>

ToArray == [RecordField |-> RecordFieldToArray, EnumValue |-> EnumValueToArray,
            Type |-> TypeToArray, Value |-> ValueToArray, Export |-> ExportToArray,
            Catalog |-> CatalogToArray]

-------------------------------------------------------------------------------
(* MergePartialFromCodedStream: <<tag, member, how it is read>>.             *)
RecordFieldParse ==
  {<<10, "name", "string">>, <<16, "type", "int32">>, <<26, "defaultValue", "message">>}
EnumValueParse == {<<10, "name", "string">>, <<16, "value", "int32">>}
\* Wrong variant: two tags exchanged.
TypeParseLowCrossed ==
  {<<8, "id", "int32">>, <<16, "kind", "enum">>, <<40, "referencedType", "int32">>,
   <<48, "isBlockPointer", "bool">>, <<80, "size", "int32">>, <<88, "elementType", "int32">>,
   <<120, "primitiveKind", "enum">>, <<160, "recordKind", "enum">>}
TypeParseLow ==
  {<<8, "id", "int32">>, <<16, "kind", "enum">>, <<40, "referencedType", "int32">>,
   <<48, "isBlockPointer", "bool">>, <<80, "elementType", "int32">>, <<88, "size", "int32">>,
   <<120, "primitiveKind", "enum">>, <<160, "recordKind", "enum">>}
\* Wrong variant: paramType is read packed only.
TypeParseHighPackedOnly ==
  {<<170, "field", "message">>, <<200, "returnType", "int32">>, <<210, "paramType", "packed">>,
   <<242, "value", "message">>, <<392, "underlyingType", "int32">>,
   <<400, "isConst", "bool">>, <<408, "isVolatile", "bool">>}
TypeParseHigh ==
  {<<170, "field", "message">>, <<200, "returnType", "int32">>, <<210, "paramType", "packed">>,
   <<208, "paramType", "int32">>, <<242, "value", "message">>,
   <<392, "underlyingType", "int32">>, <<400, "isConst", "bool">>, <<408, "isVolatile", "bool">>}
ValueParse ==
  {<<8, "typeId", "int32">>, <<42, "mangledName", "string">>, <<82, "value", "bytes">>}
ExportParse == {<<10, "name", "string">>, <<16, "type", "int32">>, <<26, "value", "message">>}
\* Wrong variant: a tag one too large.
CatalogParseShifted == {<<10, "type", "message">>, <<19, "export", "message">>}
CatalogParse == {<<10, "type", "message">>, <<18, "export", "message">>}

Parsed == [RecordField |-> RecordFieldParse, EnumValue |-> EnumValueParse,
           Type |-> TypeParseLow \cup TypeParseHigh, Value |-> ValueParse,
           Export |-> ExportParse, Catalog |-> CatalogParse]

\* The cutoff of ReadTagWithCutoffNoLastTag: a larger tag is unusual.
Cutoff == [RecordField |-> 127, EnumValue |-> 127, Type |-> 16383, Value |-> 127,
           Export |-> 127, Catalog |-> 127]
===============================================================================
