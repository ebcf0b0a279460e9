----------------------------- MODULE Replacement -----------------------------
(*****************************************************************************)
(* What replaceType of src/clang.cpp makes of the AutoFFI types: the effect  *)
(* of Type::replace called on all of them but src. The module Replace has    *)
(* the visitor that does it.                                                 *)
(*****************************************************************************)
EXTENDS Naturals, Sequences

\* Every member that is src becomes dest. What a QualType refers to is never
\* replaced, and src itself is never visited.
ReplaceAll(os, src, dest) ==
  [o \in 1 .. Len(os) |->
     IF o = src \/ os[o].kind = "qualified" THEN os[o]
     ELSE [os[o] EXCEPT !.kids = [n \in DOMAIN @ |-> IF @[n] = src THEN dest ELSE @[n]]]]
===============================================================================
