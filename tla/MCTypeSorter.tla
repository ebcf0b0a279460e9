----------------------------- MODULE MCTypeSorter -----------------------------
(* Small inputs for TypeSorter: every list up to a length, every choice of   *)
(* dependencies. The types are numbers, and a list names them in the order   *)
(* of their first occurrences: any other list is one of these with the types *)
(* renamed, and the sorter never compares types by anything but identity.    *)
EXTENDS TypeSorter

CONSTANTS MaxList, MaxDeps

SeqUpTo(S, n) == UNION {[1 .. k -> S] : k \in 0 .. n}

Distinct(s) == \A a, b \in DOMAIN s : s[a] = s[b] => a = b

\* The first occurrence of a type follows those of all smaller ones.
Numbered(s) == \A k \in DOMAIN s : \A t \in 1 .. s[k] - 1 : \E m \in 1 .. k - 1 : s[m] = t

Lists == {s \in SeqUpTo(Types, MaxList) : Numbered(s)}

\* Any list, with repetitions and with dependencies it lacks; the dependencies
\* of a type that is not in the list are never asked for.
AnyInput ==
  UNION {{[list |-> s, deps |-> d] :
            d \in {f \in [Types -> {q \in SeqUpTo(Types, MaxDeps) : Distinct(q)}] :
                     \A t \in Types : (\A k \in DOMAIN s : s[k] # t) => f[t] = << >>}} :
         s \in Lists}
===============================================================================
