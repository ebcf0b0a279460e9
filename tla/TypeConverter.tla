---------------------------- MODULE TypeConverter ----------------------------
(*****************************************************************************)
(* The TypeConverter of src/clang.cpp: it turns clang types into AutoFFI     *)
(* types by recursive descent, and remembers in a container of TypeReprs     *)
(* what it has converted. A type is entered in the container before its      *)
(* parts are converted, which is what ends the recursion on recursive types. *)
(*                                                                           *)
(* The recursion is an explicit stack of calls, so that every state between  *)
(* the allocation of an object and the assignment of its last part is there. *)
(* Objects are numbered in the order of their allocation; Null is 0.         *)
(*****************************************************************************)
EXTENDS Naturals, Sequences, FiniteSets

CONSTANTS
  ClangTypes,  \* the clang::Type objects
  ASTs         \* the translation units clang may hand over

\* What the converter distinguishes of a clang type. "sugar" is a typedef, an
\* elaborated or a parenthesised type; "pointer" includes the block pointer;
\* "other" is any class without a Visit function, or an unsupported builtin.
Leaves == {"builtin", "enum"}
Records == {"struct", "union"}
Composites == Records \union {"pointer", "array", "function"}
Kinds == Leaves \union Composites \union {"sugar", "other"}

\* A clang::QualType: a type and its local qualifiers. "fast" are const, volatile
\* and restrict, whatever else there is; "extended" are the others alone: an
\* address space, __unaligned, the ownership of Objective-C.
Quals == {"none", "fast", "extended"}
QualTypes == ClangTypes \X Quals

hasLocalQualifiers(qt) == qt[2] # "none"

\* What ClangQualTypeLT looks at: the type and its fast qualifiers. The others
\* make no difference to the container.
Keys == ClangTypes \X BOOLEAN
Key(qt) == <<qt[1], qt[2] = "fast">>

\* t occurs in the unit with extended qualifiers only, and so shares its key.
Mixed(a, t) ==
  \/ \E s \in ClangTypes : \E n \in 1 .. Len(a.parts[s]) : a.parts[s][n] = <<t, "extended">>
  \/ \E d \in a.decls : d.type = <<t, "extended">>

\* kind[t]; parts[t]: what sugar stands for, the pointee, the element type, the
\* return type and then the parameters, the fields.
Convertible(a) ==
  /\ a.kind \in [ClangTypes -> Kinds]
  /\ a.parts \in [ClangTypes -> Seq(QualTypes)]
  /\ \A t \in ClangTypes :
       /\ a.kind[t] \in {"sugar", "pointer", "array"} => Len(a.parts[t]) = 1
       /\ a.kind[t] = "function" => Len(a.parts[t]) > 0
       /\ a.kind[t] \in Leaves \union {"other"} => a.parts[t] = << >>

ASSUME ASTsAssumption == \A a \in ASTs : Convertible(a)

VARIABLES
  ast,      \* the translation unit: kind, parts, and the collector's decls
  types,    \* the TypeSet: a sequence of [clang, autoffi, dangling]
  objs,     \* the AutoFFI types: [kind, kids], the kids being their members
  stack,    \* the active calls
  ret,      \* what the last call returned, Null once the caller has taken it
  failed    \* a conversion has thrown

convVars == <<ast, types, objs, stack, ret, failed>>

Null == 0
Objects == 1 .. Len(objs)

KindOf(t) == ast.kind[t]
PartsOf(t) == ast.parts[t]

-------------------------------------------------------------------------------
(* The container of TypeReprs: in order of insertion, unique by clang type.  *)

Known(ts, k) == \E n \in 1 .. Len(ts) : ts[n].clang = k

find(k) == LET n == CHOOSE n \in 1 .. Len(types) : types[n].clang = k
           IN  types[n].autoffi

TypeRepr(k, o) == [clang |-> k, autoffi |-> o, dangling |-> FALSE]

\* Wrong variant: a second entry for the same clang type is accepted.
push_backTwice(k, o) == Append(types, TypeRepr(k, o))

\* push_back leaves the container as it is when the key is taken.
push_back(k, o) == IF Known(types, k) THEN types ELSE Append(types, TypeRepr(k, o))

-------------------------------------------------------------------------------
(* The calls. A call of Visit looks its type up without qualifiers.          *)

VisitQualType(qt) ==
  [fn |-> "VisitQualType", clang |-> Key(qt), qualified |-> hasLocalQualifiers(qt), obj |-> Null, got |-> 0]
Visit(t) == [fn |-> "Visit", clang |-> <<t, FALSE>>, qualified |-> FALSE, obj |-> Null, got |-> 0]

Frame == stack[Len(stack)]
Type == Frame.clang[1]
Popped == SubSeq(stack, 1, Len(stack) - 1)
WithTop(f) == Append(Popped, f)

\* The call on top has just been made.
Entered(fn) == stack # << >> /\ ~ failed /\ ret = Null /\ Frame.fn = fn /\ Frame.obj = Null

\* The call on top has just been returned to.
Resumed(fn) == stack # << >> /\ ~ failed /\ ret # Null /\ Frame.fn = fn

\* Calls that consult the container; Visit of sugar does not.
Memoised == Frame.fn = "VisitQualType" \/ KindOf(Type) \in Leaves \union Composites

Return(o) == stack' = Popped /\ ret' = o

\* Wrong variant: the lookup does not tell a qualified type from the plain one.
FoundUnqualified ==
  /\ stack # << >> /\ ~ failed /\ ret = Null /\ Frame.obj = Null
  /\ Memoised
  /\ \E n \in 1 .. Len(types) :
       /\ types[n].clang[1] = Type
       /\ Return(types[n].autoffi)
  /\ UNCHANGED <<ast, types, objs, failed>>

Found ==
  /\ stack # << >> /\ ~ failed /\ ret = Null /\ Frame.obj = Null
  /\ Memoised
  /\ Known(types, Frame.clang)
  /\ Return(find(Frame.clang))
  /\ UNCHANGED <<ast, types, objs, failed>>

\* VisitQualType of a type with local qualifiers: a QualType object is entered,
\* then the type below is visited. If the qualifiers are extended ones, it is
\* entered under the key of the type below, and that visit finds it.
EnterQualified ==
  /\ Entered("VisitQualType")
  /\ ~ Known(types, Frame.clang)
  /\ Frame.qualified
  /\ LET new == Len(objs) + 1 IN
       /\ objs' = Append(objs, [kind |-> "qualified", kids |-> <<Null>>])
       /\ types' = push_back(Frame.clang, new)
       /\ stack' = Append(WithTop([Frame EXCEPT !.obj = new]), Visit(Type))
  /\ UNCHANGED <<ast, ret, failed>>

\* Wrong variant: the entry is made before the type below is visited.
EnterUnqualifiedEarly ==
  /\ Entered("VisitQualType")
  /\ ~ Known(types, Frame.clang)
  /\ ~ Frame.qualified
  /\ types' = push_back(Frame.clang, Null)
  /\ stack' = Append(stack, Visit(Type))
  /\ UNCHANGED <<ast, objs, ret, failed>>

EnterUnqualified ==
  /\ Entered("VisitQualType")
  /\ ~ Known(types, Frame.clang)
  /\ ~ Frame.qualified
  /\ stack' = Append(stack, Visit(Type))
  /\ UNCHANGED <<ast, types, objs, ret, failed>>

ResumeQualified ==
  /\ Resumed("VisitQualType")
  /\ Frame.qualified
  /\ objs' = [objs EXCEPT ![Frame.obj].kids = <<ret>>]
  /\ Return(Frame.obj)
  /\ UNCHANGED <<ast, types, failed>>

\* The result is entered under the type that was asked for: the second entry of
\* an object when that type is sugar, refused when it is not.
ResumeUnqualified ==
  /\ Resumed("VisitQualType")
  /\ ~ Frame.qualified
  /\ types' = push_back(Frame.clang, ret)
  /\ Return(ret)
  /\ UNCHANGED <<ast, objs, failed>>

\* VisitTypedefType, VisitElaboratedType, VisitParenType.
VisitSugar ==
  /\ Entered("Visit")
  /\ KindOf(Type) = "sugar"
  /\ stack' = Append(stack, VisitQualType(PartsOf(Type)[1]))
  /\ UNCHANGED <<ast, types, objs, ret, failed>>

ResumeSugar ==
  /\ Resumed("Visit")
  /\ KindOf(Type) = "sugar"
  /\ Return(ret)
  /\ UNCHANGED <<ast, types, objs, failed>>

\* VisitBuiltinType, VisitEnumType.
VisitLeaf ==
  /\ Entered("Visit")
  /\ KindOf(Type) \in Leaves
  /\ ~ Known(types, Frame.clang)
  /\ LET new == Len(objs) + 1 IN
       /\ objs' = Append(objs, [kind |-> KindOf(Type), kids |-> << >>])
       /\ types' = push_back(Frame.clang, new)
       /\ Return(new)
  /\ UNCHANGED <<ast, failed>>

\* Members that the constructor of the AutoFFI type sets to NULL.
NewKids(kind) == IF kind \in Records THEN << >> ELSE <<Null>>

\* Wrong variant: the type is not entered before its parts are converted.
VisitCompositeUnrecorded ==
  /\ Entered("Visit")
  /\ KindOf(Type) \in Composites
  /\ ~ Known(types, Frame.clang)
  /\ LET new == Len(objs) + 1 IN
       /\ objs' = Append(objs, [kind |-> KindOf(Type), kids |-> NewKids(KindOf(Type))])
       /\ stack' = WithTop([Frame EXCEPT !.obj = new])
  /\ UNCHANGED <<ast, types, ret, failed>>

\* VisitConstantArrayType, VisitPointerType, VisitBlockPointerType,
\* VisitRecordType, VisitFunctionNoProtoType and VisitFunctionProtoType up to
\* the conversion of the first part.
VisitComposite ==
  /\ Entered("Visit")
  /\ KindOf(Type) \in Composites
  /\ ~ Known(types, Frame.clang)
  /\ LET new == Len(objs) + 1 IN
       /\ objs' = Append(objs, [kind |-> KindOf(Type), kids |-> NewKids(KindOf(Type))])
       /\ types' = push_back(Frame.clang, new)
       /\ stack' = WithTop([Frame EXCEPT !.obj = new])
  /\ UNCHANGED <<ast, ret, failed>>

\* A composite type is between two of its parts.
Looping == stack # << >> /\ ~ failed /\ ret = Null /\ Frame.fn = "Visit" /\ Frame.obj # Null

VisitPart ==
  /\ Looping
  /\ Frame.got < Len(PartsOf(Type))
  /\ stack' = Append(stack, VisitQualType(PartsOf(Type)[Frame.got + 1]))
  /\ UNCHANGED <<ast, types, objs, ret, failed>>

\* Wrong variant: a part that replaces the NULL of the constructor is not
\* counted.
ResumePartUncounted ==
  /\ Resumed("Visit")
  /\ KindOf(Type) \in Composites
  /\ objs' = [objs EXCEPT ![Frame.obj].kids =
                IF Frame.got < Len(@) THEN [@ EXCEPT ![Frame.got + 1] = ret] ELSE Append(@, ret)]
  /\ stack' = WithTop(IF Frame.got < Len(objs[Frame.obj].kids) THEN Frame
                      ELSE [Frame EXCEPT !.got = @ + 1])
  /\ ret' = Null
  /\ UNCHANGED <<ast, types, failed>>

\* The part becomes the element, referenced or return type, or is appended to
\* the fields or the parameters.
ResumePart ==
  /\ Resumed("Visit")
  /\ KindOf(Type) \in Composites
  /\ objs' = [objs EXCEPT ![Frame.obj].kids =
                IF Frame.got < Len(@) THEN [@ EXCEPT ![Frame.got + 1] = ret] ELSE Append(@, ret)]
  /\ stack' = WithTop([Frame EXCEPT !.got = @ + 1])
  /\ ret' = Null
  /\ UNCHANGED <<ast, types, failed>>

ReturnComposite ==
  /\ Looping
  /\ Frame.got = Len(PartsOf(Type))
  /\ Return(Frame.obj)
  /\ UNCHANGED <<ast, types, objs, failed>>

\* VisitType, or a builtin that clangBuiltinTypeKindToTransitPrimitiveKind does
\* not know: the exception ends the whole analysis.
Unconvertible ==
  /\ Entered("Visit")
  /\ KindOf(Type) = "other"
  /\ failed' = TRUE
  /\ UNCHANGED <<ast, types, objs, stack, ret>>

ConvStep ==
  \/ Found
  \/ EnterQualified \/ EnterUnqualified
  \/ ResumeQualified \/ ResumeUnqualified
  \/ VisitSugar \/ ResumeSugar
  \/ VisitLeaf
  \/ VisitComposite \/ VisitPart \/ ResumePart \/ ReturnComposite
  \/ Unconvertible

-------------------------------------------------------------------------------
(* What the results mean.                                                    *)

\* o is entered under the clang type k.
Entry(k, o) == \E n \in 1 .. Len(types) : types[n].clang = k /\ types[n].autoffi = o

Sugar == {t \in ClangTypes : KindOf(t) = "sugar"}

\* o is entered under qt, or qt is one of S without qualifiers.
EntryOr(S, qt, o) == Entry(Key(qt), o) \/ (qt[2] = "none" /\ qt[1] \in S)

\* o is what VisitQualType makes of qt: its own entry, or that of what is left
\* of it when sugar is taken off, in one layer or more: the entry of the sugar
\* itself is refused when its key was taken meanwhile.
Stands(qt, o) ==
  \A S \in SUBSET Sugar :
    (\A t \in Sugar : EntryOr(S, PartsOf(t)[1], o) => t \in S) => EntryOr(S, qt, o)

\* o is what Visit makes of t: its own entry, or that of what sugar stands for.
Converts(t, o) ==
  IF KindOf(t) = "sugar" THEN Stands(PartsOf(t)[1], o) ELSE Entry(<<t, FALSE>>, o)

\* o is a QualType around what t is converted to.
Qualifies(t, o) ==
  /\ objs[o].kind = "qualified"
  /\ Len(objs[o].kids) = 1
  /\ Converts(t, objs[o].kids[1])

\* The members of o are what the parts of k were converted to, one by one.
SameShape(k, o) ==
  IF k[2]
  THEN Qualifies(k[1], o)
  ELSE IF KindOf(k[1]) = "sugar"
  THEN Converts(k[1], o)
  ELSE /\ objs[o].kind = KindOf(k[1])
       /\ Len(objs[o].kids) = Len(PartsOf(k[1]))
       /\ \A n \in 1 .. Len(objs[o].kids) : Stands(PartsOf(k[1])[n], objs[o].kids[n])

\* A key that types with and without qualifiers share.
Blurred(k) == ~ k[2] /\ Mixed(ast, k[1])
===============================================================================
