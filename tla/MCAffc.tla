-------------------------------- MODULE MCAffc --------------------------------
(* affc on small translation units: a struct, a union, a pointer, a typedef,  *)
(* a function type, a builtin and a type that cannot be converted.            *)
EXTENDS Affc

CONSTANTS R, Q, P, S, F, B, X

AllTypes == {R, Q, P, S, F, B, X}

KindsOfAll ==
  [t \in AllTypes |->
     CASE t = R -> "struct" [] t = Q -> "union" [] t = P -> "pointer" [] t = S -> "sugar"
       [] t = F -> "function" [] t = B -> "builtin" [] t = X -> "other"]

Plainly(t) == <<t, "none">>
Const(t) == <<t, "fast">>
Ext(t) == <<t, "extended">>

\* struct R { r }; union Q { q }; a pointer to p; typedef s S; a function type
\* that returns f[1] and takes f[2].
Parts(r, q, p, s, f) ==
  [t \in AllTypes |->
     CASE t = R -> r [] t = Q -> q [] t = P -> <<p>> [] t = S -> <<s>> [] t = F -> f
       [] OTHER -> << >>]

\* A list node and a union that uses it; callbacks that take a pointer to what
\* holds them, or that are typedefs; a struct that only a typedef brings back
\* after a redeclaration; pointers into an address space, to a builtin and to a
\* typedef, and to a function type that cannot be converted itself; an array
\* parameter, which clang gives a type that cannot be converted.
PartChoices ==
  {Parts(<<Plainly(B), Plainly(P)>>, <<Const(S), Plainly(P)>>, Plainly(S), Plainly(R), <<Plainly(B), Plainly(P)>>),
   Parts(<<Plainly(P), Plainly(S)>>, <<Plainly(R)>>, Plainly(F), Const(B), <<Plainly(S), Plainly(P)>>),
   Parts(<<Const(P)>>, <<Plainly(R), Plainly(B)>>, Plainly(F), Plainly(P), <<Plainly(Q)>>),
   Parts(<<Plainly(B)>>, << >>, Const(R), Plainly(R), <<Plainly(S), Const(P)>>),
   Parts(<<Plainly(B)>>, <<Plainly(P)>>, Ext(B), Plainly(P), <<Plainly(B), Plainly(S)>>),
   Parts(<<Plainly(P)>>, <<Plainly(B)>>, Ext(F), Plainly(R), <<Plainly(B), Plainly(X)>>),
   Parts(<<Plainly(S)>>, <<Plainly(P), Const(S)>>, Ext(S), Plainly(R), <<Plainly(P), Plainly(Q)>>),
   Parts(<<Plainly(B)>>, <<Plainly(P)>>, Const(Q), Plainly(P), <<Plainly(P), Plainly(X)>>)}

\* A declaration in a header of the project, without attributes.
Decl(kind, t, first, id) ==
  [kind |-> kind, type |-> t, first |-> first, id |-> id,
   implicit |-> FALSE, visibility |-> "default", system |-> FALSE, file |-> "a.h"]

\* Complete definitions; forward declarations first, with uses in between; and
\* declarations that the filter has to tell apart.
DeclChoices ==
  {{Decl("record", Plainly(R), TRUE, 1), Decl("typedef", Plainly(S), TRUE, 2), Decl("function", Plainly(F), TRUE, 3)},
   {Decl("record", Plainly(R), TRUE, 1), Decl("record", Plainly(R), FALSE, 2), Decl("function", Plainly(F), TRUE, 3)},
   {Decl("record", Plainly(R), FALSE, 1), Decl("record", Plainly(Q), FALSE, 2), Decl("typedef", Const(S), TRUE, 3)},
   {Decl("typedef", Plainly(S), TRUE, 1), Decl("alias", Plainly(P), TRUE, 2),
    [Decl("function", Plainly(F), TRUE, 3) EXCEPT !.visibility = "hidden"],
    [Decl("record", Plainly(Q), TRUE, 4) EXCEPT !.file = "b.h"],
    [Decl("record", Plainly(R), TRUE, 5) EXCEPT !.system = TRUE],
    [Decl("var", Const(B), TRUE, 6) EXCEPT !.visibility = "protected", !.file = NoFile],
    [Decl("typedef", Plainly(B), TRUE, 7) EXCEPT !.implicit = TRUE]}}

UnitOf(parts, ds) == [kind |-> KindsOfAll, parts |-> parts, decls |-> ds, errors |-> FALSE]
BadUnit == [kind |-> KindsOfAll, parts |-> CHOOSE p \in PartChoices : TRUE, decls |-> {}, errors |-> TRUE]

OneJob == {<<UnitOf(p, ds)>> : p \in PartChoices, ds \in DeclChoices} \union {<<BadUnit>>, << >>}

\* Two files on the command line that share a header.
TwoJobs ==
  {<<UnitOf(p, {Decl("typedef", Plainly(S), TRUE, 1)}), UnitOf(q, {Decl("record", Plainly(R), TRUE, 1)})>> :
     p, q \in PartChoices}

AnyJobs == OneJob \union TwoJobs

\* Two jobs with seven types each, plain and qualified.
EnoughIds == 1 .. 28

File(f) == [kind |-> "file", files |-> {f}]
Dir(fs) == [kind |-> "dir", files |-> fs]
Here(fs) == [kind |-> "cwd", files |-> fs]
Missing == [kind |-> "missing", files |-> {}]
Empty == [kind |-> "empty", files |-> {}]

Filter(level, includes) == [visibilityLevel |-> level, includes |-> includes, excludes |-> << >>]

SmallFilters ==
  {Filter("default", <<File("a.h")>>),
   Filter("protected", <<Here({"a.h", "b.h"}), File("b.h"), File("a.h"), Missing>>),
   Filter("hidden", <<Empty>>)}

\* --include a.h b.h --exclude b.h
Excluding == {[Filter("default", <<File("a.h"), File("b.h")>>) EXCEPT !.excludes = <<File("b.h")>>]}

\* --include of the directory both headers are in
Directory == {Filter("default", <<Dir({"a.h", "b.h"})>>)}
===============================================================================
