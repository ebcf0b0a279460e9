-------------------------- MODULE MCExportCollector --------------------------
(* Small translation units: two records, a pointer, a typedef, a function     *)
(* type, a builtin and a type that cannot be converted.                       *)
EXTENDS ExportCollector

CONSTANTS R, Q, P, S, F, B, X

AllTypes == {R, Q, P, S, F, B, X}

KindsOfAll ==
  [t \in AllTypes |->
     CASE t = R -> "struct" [] t = Q -> "union" [] t = P -> "pointer" [] t = S -> "sugar"
       [] t = F -> "function" [] t = B -> "builtin" [] t = X -> "other"]

Plainly(t) == <<t, "none">>
Const(t) == <<t, "fast">>
Ext(t) == <<t, "extended">>

\* struct R { r }; struct Q { q }; typedef s S; a pointer to p; a function type
\* f[1](f[2], ...). A pointer is what makes R and Q recursive.
Parts(r, q, p, s, f) ==
  [t \in AllTypes |->
     CASE t = R -> r [] t = Q -> q [] t = P -> <<p>> [] t = S -> <<s>> [] t = F -> f
       [] OTHER -> << >>]

PartChoices ==
  {Parts(r, q, p, s, f) :
     r \in {<< >>, <<Plainly(P)>>, <<Const(B), Plainly(P)>>},
     q \in {<< >>, <<Plainly(S), Const(S)>>, <<Const(P), Plainly(B)>>},
     p \in {Plainly(R), Const(R), Plainly(Q), Plainly(F), Plainly(S), Const(S)},
     s \in {Plainly(R), Const(R), Plainly(P), Const(B)},
     f \in {<<Plainly(B), Plainly(P)>>, <<Plainly(S)>>, <<Plainly(P), Plainly(X)>>}}

\* Types in an address space, or owned, next to their plain forms: what a pointer
\* leads to, what a typedef stands for, and a field.
ExtendedChoices ==
  {Parts(r, q, p, s, f) :
     r \in {<<Plainly(P)>>, <<Plainly(B), Ext(S)>>},
     q \in {<<Ext(P), Plainly(B)>>, <<Plainly(S), Const(S)>>},
     p \in {Plainly(R), Ext(R), Ext(B), Ext(S), Ext(F)},
     s \in {Plainly(P), Ext(R), Ext(P)},
     f \in {<<Plainly(B), Plainly(P)>>, <<Plainly(S)>>}}

\* Without a record on the way, no type is made of itself: P -> S -> P and
\* P -> F -> P are not C, nor is a record that holds itself by value.
Possible(parts) ==
  LET next(t) == {parts[t][n][1] : n \in 1 .. Len(parts[t])}
      byName == {P, S, F}
      byValue == {R, Q, S}
      cyclic(D) == \E D1 \in SUBSET D : D1 # {} /\ \A t \in D1 : next(t) \intersect D1 # {}
  IN  ~ cyclic(byName) /\ ~ cyclic(byValue)

Decl(k, t, first, n) == [kind |-> k, type |-> t, first |-> first, id |-> n]

\* A variable in an address space before or after the others, and one of a typedef.
ExtendedDecls ==
  {{Decl("var", Ext(R), TRUE, 1), Decl("record", Plainly(R), FALSE, 2), Decl("function", Plainly(F), TRUE, 3)},
   {Decl("var", Ext(S), TRUE, 1), Decl("record", Plainly(Q), FALSE, 2), Decl("typedef", Plainly(S), TRUE, 3)}}

\* struct R; struct R { ... }; struct Q; struct Q { ... }; a typedef and a
\* function prototype that use them, and a C++ alias.
DeclChoices ==
  {{Decl("record", Plainly(R), TRUE, 1), Decl("record", Plainly(R), FALSE, 2), Decl("function", Plainly(F), TRUE, 3)},
   {Decl("record", Plainly(Q), FALSE, 1), Decl("record", Plainly(R), FALSE, 2), Decl("typedef", Plainly(S), TRUE, 3)},
   {Decl("record", Plainly(Q), TRUE, 1), Decl("typedef", Const(S), TRUE, 2), Decl("alias", Plainly(S), TRUE, 3)}}

SmallASTs ==
  {[kind |-> KindsOfAll, parts |-> parts, decls |-> d] :
     parts \in {p \in PartChoices : Possible(p)}, d \in DeclChoices}
    \union
  {[kind |-> KindsOfAll, parts |-> parts, decls |-> d] :
     parts \in {p \in ExtendedChoices : Possible(p)}, d \in DeclChoices \union ExtendedDecls}

\* struct R; struct R { ... }; and nothing else.
ForwardASTs ==
  {[kind |-> KindsOfAll, parts |-> Parts(<<Plainly(B)>>, << >>, Plainly(R), Plainly(R), <<Plainly(B)>>),
    decls |-> {Decl("record", Plainly(R), TRUE, 1), Decl("record", Plainly(R), FALSE, 2)}]}

\* typedef int __attribute__((address_space(1))) *gp; int f(int);
AddressSpaceASTs ==
  {[kind |-> KindsOfAll, parts |-> Parts(<< >>, << >>, Ext(B), Plainly(P), <<Plainly(B), Plainly(B)>>),
    decls |-> {Decl("typedef", Plainly(S), TRUE, 1), Decl("function", Plainly(F), TRUE, 2)}]}
===============================================================================
