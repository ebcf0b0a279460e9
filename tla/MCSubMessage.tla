----------------------------- MODULE MCSubMessage -----------------------------
EXTENDS SubMessage, TLC

CONSTANTS h1, h2, h3, h4, a1, a2, v1, v2, v3, v4, v5

MCHome == h1 :> Heap @@ h4 :> Heap @@ h2 :> a1 @@ h3 :> a2

Symmetry == Permutations({v1, v2, v3, v4, v5})
===============================================================================
