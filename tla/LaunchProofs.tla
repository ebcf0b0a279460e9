------------------------------ MODULE LaunchProofs ------------------------------
(*****************************************************************************)
(* For any system, paths, names and command lines, and any number of changes *)
(* to the files: where the headers are looked for, how a process ends, and   *)
(* what the driver reads of the arguments of the user.                       *)
(*****************************************************************************)
EXTENDS Launch, NaturalsInduction, WellFoundedInduction, SequenceTheorems, TLAPS

\* The places that executable_path may name.
Known(p) ==
  \/ p \in had
  \/ argv0 # Nameless /\ p = At[argv0]
  \/ os = "linux" /\ p \in {Deleted[q] : q \in had}

\* A path leads nowhere, to the file that is there, or to one of the program's.
Leading ==
  /\ argv0 \in Names /\ program \in had /\ started \in had /\ had \subseteq Paths
  /\ real \in [Paths -> Paths \cup {None}]
  /\ \A p \in Paths : real[p] \in {None, p} \cup had

\* What is in buf when it is looked up, and what executable_path returns.
Naming ==
  /\ pc = "canonical" => buf \in Paths /\ Known(buf)
  /\ pc \in {"arguments", "analyse"} => answer = None \/ Known(answer)

PathInv == Leading /\ Naming

\* Asked for its name, the program leaves a path in buf to be looked up, or has
\* the answer.
LEMMA Answered ==
  ASSUME PathInv, Asking,
         \/ \E p : p \in Paths /\ Known(p) /\ Found(p, "canonical")
         \/ \E p : (p = None \/ Known(p)) /\ answer' = p /\ pc' = "arguments"
         \/ Fallback
  PROVE  PathInv'
<1>1. UNCHANGED <<os, argv0, files, started>>
  BY DEF Asking
<1>2. Leading'
  BY <1>1 DEF PathInv, Leading, files
<1>3. \A p : Known(p)' <=> Known(p)
  BY <1>1 DEF Known, files
<1>4. CASE \E p : p \in Paths /\ Known(p) /\ Found(p, "canonical")
  <2>1. pc' = "canonical" /\ buf' \in Paths /\ Known(buf')
    BY <1>4 DEF Found
  <2> QED
    BY <2>1, <1>1, <1>2 DEF PathInv, Naming, Known, files
<1>5. CASE \E p : (p = None \/ Known(p)) /\ answer' = p /\ pc' = "arguments"
  <2>1. pc' = "arguments" /\ (answer' = None \/ Known(answer'))
    BY <1>5
  <2> QED
    BY <2>1, <1>1, <1>2 DEF PathInv, Naming, Known, files
<1>6. CASE Fallback
  <2>1. CASE argv0 = Nameless
    BY <1>6, <2>1, <1>2 DEF Fallback, PathInv, Naming
  <2>2. CASE argv0 # Nameless
    <3>1. pc' = "canonical" /\ buf' = At[argv0]
      BY <1>6, <2>2 DEF Fallback, Found
    <3>2. At[argv0] \in Paths
      BY PathsAssumption DEF PathInv, Leading
    <3> QED
      BY <3>1, <3>2, <2>2, <1>1, <1>2 DEF PathInv, Naming, Known
  <2> QED
    BY <2>1, <2>2
<1> QED
  BY <1>4, <1>5, <1>6

\* The files change, and what the program has had stays what it has had.
LEMMA FilesChange == ASSUME PathInv, Change PROVE PathInv'
<1>1. UNCHANGED <<os, argv0, started, pc, buf, answer>>
  BY DEF Change, Move, Remove, Install, RemoveDirectory, Changing
<1>2. had \subseteq had' /\ Leading'
  <2>1. CASE Move
    <3> PICK to \in Paths : /\ real[to] = None
                            /\ real' = [Without(program) EXCEPT ![to] = to]
                            /\ program' = to /\ had' = had \cup {to}
      BY <2>1 DEF Move
    <3> QED
      BY <1>1 DEF PathInv, Leading, Without
  <2>2. CASE Remove
    BY <1>1, <2>2 DEF Remove, PathInv, Leading, Without
  <2>3. CASE Install
    <3> PICK p \in Paths : real[p] = None /\ real' = [real EXCEPT ![p] = p]
      BY <2>3 DEF Install
    <3> QED
      BY <1>1, <2>3 DEF Install, PathInv, Leading
  <2>4. CASE RemoveDirectory
    BY <1>1, <2>4 DEF RemoveDirectory, PathInv, Leading
  <2> QED
    BY <2>1, <2>2, <2>3, <2>4 DEF Change
<1>3. \A p : Known(p) => Known(p)'
  BY <1>1, <1>2 DEF Known
<1> QED
  BY <1>1, <1>2, <1>3 DEF PathInv, Naming, Known

LEMMA PathInit == Init => PathInv
<1> SUFFICES ASSUME Init PROVE PathInv
  OBVIOUS
<1> QED
  BY PathsAssumption DEF Init, PathInv, Leading, Naming

LEMMA PathStep == PathInv /\ [Next]_vars => PathInv'
<1> SUFFICES ASSUME PathInv, [Next]_vars PROVE PathInv'
  OBVIOUS
<1> USE DEF files
<1>0. program \in Paths /\ Known(program) /\ started \in Paths /\ Known(started) /\ None \notin Paths
  BY PathsAssumption DEF PathInv, Leading, Known
<1>1. ASSUME NEW e, Throw(e) PROVE PathInv'
  BY <1>1 DEF Throw, PathInv, Leading, Naming, Known
<1>2. CASE ParseFails \/ SolarisNull \/ LinuxUnread \/ NoDirectory \/ Fails
  BY <1>1, <1>2 DEF ParseFails, SolarisNull, LinuxUnread, NoDirectory, Fails
<1>3. CASE ParseOptions
  BY <1>3 DEF ParseOptions, PathInv, Leading, Naming, Known
<1>4. CASE AskWindows
  BY <1>0, <1>4, Answered DEF AskWindows, Fits, Written
<1>5. CASE AskMacOS
  BY <1>0, <1>5, Answered DEF AskMacOS, Fits, Written
<1>6. CASE AskSolaris
  <2>1. argv0 # Nameless => At[argv0] \in Paths /\ Known(At[argv0])
    BY PathsAssumption DEF PathInv, Leading, Known
  <2> QED
    BY <1>0, <1>6, <2>1, Answered DEF AskSolaris
<1>7. CASE AskBSD
  BY <1>0, <1>7, Answered DEF AskBSD, Fits, Written
<1>8. CASE AskLinux
  <2>1. Link \in Paths /\ Known(Link)
    BY <1>0, <1>8, PathsAssumption DEF AskLinux, Link, Known, PathInv, Leading
  <2> QED
    BY <2>1, <1>8, Answered DEF AskLinux, Fits, Written
<1>9. CASE AskOther
  BY <1>9, Answered DEF AskOther
<1>10. CASE Canonical
  <2>1. UNCHANGED <<os, argv0, files, started>> /\ pc' = "arguments" /\ answer' = real[buf]
    BY <1>10 DEF Canonical
  <2>2. buf \in Paths /\ Known(buf) /\ real[buf] \in {None, buf} \cup had
    BY <1>10 DEF Canonical, PathInv, Naming, Leading
  <2> QED
    BY <2>1, <2>2 DEF PathInv, Leading, Naming, Known
<1>11. CASE MakeArguments
  BY <1>11 DEF MakeArguments, PathInv, Leading, Naming, Known
<1>12. CASE Overflows \/ Succeeds \/ Catch
  BY <1>12 DEF Overflows, Succeeds, Catch, PathInv, Leading, Naming, Known
<1>13. CASE Change
  BY <1>13, FilesChange
<1>14. CASE UNCHANGED vars
  BY <1>14 DEF vars, PathInv, Leading, Naming, Known
<1> QED
  BY <1>2, <1>3, <1>4, <1>5, <1>6, <1>7, <1>8, <1>9, <1>10, <1>11, <1>12, <1>13, <1>14 DEF Next, Step

\* Whatever happens to the files meanwhile, the headers are looked for at a
\* path that the program has had, or that argv[0] or Linux gives for it, and
\* never at one that was cut to the size of buf.
THEOREM HeadersAreKnown == Spec => []HeadersKnown
<1>1. PathInv => HeadersKnown
  BY DEF PathInv, Naming, Known, HeadersKnown
<1> QED
  BY <1>1, PathInit, PathStep, PTL DEF Spec

-------------------------------------------------------------------------------
(* The end.                                                                  *)

\* What is thrown is known by what throws it, and whether it is caught; an error
\* is printed at the end only, and never after a catalog.
Ends ==
  /\ pc = "thrown" => thrown \in {"logic_error", "runtime_error", "filesystem_error"}
  /\ thrown = "logic_error" => Misused(tokens) \/ os \in {"linux", "solaris"}
  /\ pc = "aborted" => thrown = "overflow" \/ (thrown = "logic_error" /\ "error" \in complained)
  /\ pc = "exited" => output \in {"written", "lost"} \/ "error" \in complained
  /\ ~ Exited => "error" \notin complained /\ output = "none"
  /\ "error" \in complained => output = "none"

LEMMA EndsStep == Ends /\ [Next]_vars => Ends'
<1> SUFFICES ASSUME Ends, [Next]_vars PROVE Ends'
  OBVIOUS
<1>1. Misused(tokens)' <=> Misused(tokens')
  BY DEF Misused
<1> USE <1>1 DEF Ends, files, Exited
<1>2. CASE ParseFails \/ SolarisNull \/ LinuxUnread \/ NoDirectory \/ Fails
  BY <1>2 DEF ParseFails, SolarisNull, LinuxUnread, NoDirectory, Fails, Throw
<1>3. CASE ParseOptions
  BY <1>3 DEF ParseOptions
<1>4. CASE Asking /\ pc' \in {"canonical", "arguments"}
  BY <1>4 DEF Asking
<1>5. CASE AskWindows \/ AskMacOS \/ AskSolaris \/ AskBSD \/ AskLinux \/ AskOther
  BY <1>4, <1>5 DEF AskWindows, AskMacOS, AskSolaris, AskBSD, AskLinux, AskOther, Fallback, Found
<1>6. CASE Canonical \/ MakeArguments \/ Overflows \/ Succeeds
  BY <1>6 DEF Canonical, MakeArguments, Overflows, Succeeds
<1>7. CASE Catch
  BY <1>7 DEF Catch, Caught
<1>8. CASE Change
  BY <1>8 DEF Change, Move, Remove, Install, RemoveDirectory, Changing
<1>9. CASE UNCHANGED vars
  BY <1>9 DEF vars
<1> QED
  BY <1>2, <1>3, <1>5, <1>6, <1>7, <1>8, <1>9 DEF Next, Step

\* Only a misused option, a system that does not name the program and a call
\* stack that is used up abort the process; and with neither a catalog nor an
\* error it ends only if the output was lost behind the writer's back.
THEOREM EndsAreExplained == Spec => []EndsExplained
<1>1. Init => Ends
  BY DEF Init, Ends, Exited
<1>2. Ends => EndsExplained
  BY DEF Ends, EndsExplained, AbortCauses, NothingSilently, ErrorOrOutput
<1> QED
  BY <1>1, <1>2, EndsStep, PTL DEF Spec

-------------------------------------------------------------------------------
(* The arguments.  What is read is a function of the number of arguments     *)
(* read; that there is one is shown by its least exception.                  *)

LEMMA LeastNumber ==
  ASSUME NEW T \in SUBSET Nat, T # {}
  PROVE  \E x \in T : \A y \in T : x <= y
<1>1. IsWellFoundedOn(OpToRel(<, Nat), Nat)
  BY NatLessThanWellFounded
<1>2. PICK x \in T : \A y \in T : ~ (<<y, x>> \in OpToRel(<, Nat))
  BY <1>1, WFMin
<1>3. ASSUME NEW y \in T, y < x PROVE FALSE
  <2>1. y \in Nat /\ x \in Nat
    OBVIOUS
  <2>2. <<y, x>> \in OpToRel(<, Nat)
    BY <1>3, <2>1, Zenon DEF OpToRel
  <2> QED
    BY <2>2, <1>2
<1>4. \A y \in T : x <= y
  BY <1>3
<1> QED
  BY <1>4

\* An induction: what holds at the first number, and at every one whose
\* predecessor has it, holds up to the last.
LEMMA Upwards ==
  ASSUME NEW a \in Nat, NEW n \in Nat, NEW G, a \in G,
         \A m \in a + 1 .. n : m - 1 \in G => m \in G
  PROVE  \A m \in a .. n : m \in G
<1> DEFINE T == {m \in a .. n : m \notin G}
<1> SUFFICES ASSUME T # {} PROVE FALSE
  OBVIOUS
<1>1. T \in SUBSET Nat
  OBVIOUS
<1>2. PICK x \in T : \A y \in T : x <= y
  BY <1>1, LeastNumber
<1>3. x \in a + 1 .. n /\ x - 1 \in a .. n
  BY <1>2
<1>4. x - 1 \in G
  BY <1>2, <1>3
<1> QED
  BY <1>2, <1>3, <1>4

Result(S) == [dirs : Seq(S), rest : Seq(S), open : BOOLEAN]

LEMMA ReadingTyped ==
  ASSUME NEW S, NEW r \in Result(S), NEW x \in S
  PROVE  Reading(r, x) \in Result(S)
BY AppendProperties DEF Result, Reading

LEMMA ReadSteps ==
  ASSUME NEW S, NEW args \in Seq(S), args # << >>
  PROVE  \E r :
           /\ r[1] = Unread
           /\ \A m \in 2 .. Len(args) : r[m] = Reading(r[m - 1], args[m])
           /\ Read(args) = r[Len(args)]
           /\ \A m \in 1 .. Len(args) : r[m] \in Result(S)
<1> DEFINE N == Len(args)
           At1(f, m) == IF m = 1 THEN Unread ELSE Reading(f[m - 1], args[m])
           Reads(f, n) == f = [m \in 1 .. n |-> At1(f, m)]
           G == {n \in Nat : \E f : Reads(f, n)}
<1>1. N \in Nat \ {0}
  OBVIOUS
<1>2. 1 \in G
  <2> DEFINE f == [m \in 1 .. 1 |-> Unread]
  <2>1. Reads(f, 1)
    OBVIOUS
  <2> QED
    BY <2>1
<1>3. ASSUME NEW n \in 2 .. N, n - 1 \in G PROVE n \in G
  <2>1. PICK f : Reads(f, n - 1)
    BY <1>3
  <2> DEFINE v == Reading(f[n - 1], args[n])
             g == [m \in 1 .. n |-> IF m = n THEN v ELSE f[m]]
  <2>2. \A m \in 1 .. n : g[m] = At1(g, m)
    <3> SUFFICES ASSUME NEW m \in 1 .. n PROVE g[m] = At1(g, m)
      OBVIOUS
    <3>1. CASE m = n
      <4>1. g[m] = v /\ g[m - 1] = f[m - 1] /\ m # 1
        BY <3>1
      <4> QED
        BY <4>1, <3>1
    <3>2. CASE m # n
      <4>1. m \in 1 .. n - 1 /\ g[m] = f[m]
        BY <3>2
      <4>2. f[m] = At1(f, m)
        BY <4>1, <2>1
      <4>3. m # 1 => g[m - 1] = f[m - 1]
        BY <4>1
      <4> QED
        BY <4>1, <4>2, <4>3
    <3> QED
      BY <3>1, <3>2
  <2>3. g = [m \in 1 .. n |-> At1(g, m)]
    BY <2>2
  <2> HIDE DEF g
  <2> QED
    BY <2>3
<1>4. N \in G
  <2> HIDE DEF G, N
  <2>1. \A m \in 1 + 1 .. N : m - 1 \in G => m \in G
    BY <1>3
  <2>2. \A m \in 1 .. N : m \in G
    BY <1>1, <1>2, <2>1, Upwards
  <2> QED
    BY <1>1, <2>2
<1> DEFINE r == CHOOSE f : f = [m \in 1 .. N |-> At1(f, m)]
<1>5. r = [m \in 1 .. N |-> At1(r, m)] /\ Read(args) = r[N]
  BY <1>4, Zenon DEF Read
<1> HIDE DEF r
<1>6. r[1] = Unread /\ \A m \in 2 .. N : r[m] = Reading(r[m - 1], args[m])
  BY <1>1, <1>5
<1>7. \A m \in 1 .. N : r[m] \in Result(S)
  <2> DEFINE H == {m \in Nat : r[m] \in Result(S)}
  <2>1. 1 \in H
    <3>1. Unread \in Result(S)
      BY DEF Unread, Result
    <3> QED
      BY <3>1, <1>6
  <2>2. ASSUME NEW m \in 1 + 1 .. N, m - 1 \in H PROVE m \in H
    <3>1. m \in 1 .. Len(args) /\ m \in 2 .. N
      BY <1>1
    <3>2. args[m] \in S
      BY <3>1, ElementOfSeq
    <3> QED
      BY <2>2, <3>1, <3>2, <1>6, ReadingTyped
  <2>3. \A m \in 1 .. N : m \in H
    <3> HIDE DEF H, N
    <3> QED
      BY <1>1, <2>1, <2>2, Upwards
  <2> QED
    BY <2>3
<1> QED
  BY <1>5, <1>6, <1>7

LEMMA InsertParts ==
  ASSUME NEW S, NEW s \in Seq(S), s # << >>, NEW x \in S
  PROVE  /\ Insert(s, x) \in Seq(S)
         /\ Insert(s, x) # << >>
         /\ Len(Insert(s, x)) = Len(s) + 1
         /\ Insert(s, x)[1] = s[1]
         /\ Insert(s, x)[2] = x
         /\ \A m \in 2 .. Len(s) : Insert(s, x)[m + 1] = s[m]
<1>1. /\ Head(s) = s[1] /\ s[1] \in S /\ Tail(s) \in Seq(S)
      /\ Len(Tail(s)) = Len(s) - 1 /\ Len(s) \in Nat \ {0}
      /\ \A i \in 1 .. Len(Tail(s)) : Tail(s)[i] = s[i + 1]
  BY HeadTailProperties
<1> DEFINE f == <<Head(s), x>>
<1>2. f \in Seq(S) /\ Len(f) = 2 /\ f[1] = s[1] /\ f[2] = x
  BY <1>1
<1> HIDE DEF f
<1>3. /\ f \o Tail(s) \in Seq(S)
      /\ Len(f \o Tail(s)) = Len(s) + 1
      /\ \A i \in 1 .. Len(s) + 1 : (f \o Tail(s))[i] = IF i <= 2 THEN f[i] ELSE Tail(s)[i - 2]
  <2>1. /\ f \o Tail(s) \in Seq(S)
        /\ Len(f \o Tail(s)) = Len(f) + Len(Tail(s))
        /\ \A i \in 1 .. Len(f) + Len(Tail(s)) :
             (f \o Tail(s))[i] = IF i <= Len(f) THEN f[i] ELSE Tail(s)[i - Len(f)]
    BY <1>1, <1>2, ConcatProperties
  <2>2. Len(f) + Len(Tail(s)) = Len(s) + 1
    BY <1>1, <1>2
  <2> QED
    BY <1>2, <2>1, <2>2
<1>4. ASSUME NEW m \in 2 .. Len(s) PROVE (f \o Tail(s))[m + 1] = s[m]
  <2>1. m + 1 \in 1 .. Len(s) + 1 /\ m + 1 > 2 /\ (m + 1) - 2 \in 1 .. Len(Tail(s))
    BY <1>1
  <2>2. ((m + 1) - 2) + 1 = m
    OBVIOUS
  <2> QED
    BY <1>1, <1>3, <2>1, <2>2
<1>5. Insert(s, x) = f \o Tail(s)
  BY DEF Insert, f
<1>6. /\ (f \o Tail(s))[1] = s[1] /\ (f \o Tail(s))[2] = x /\ f \o Tail(s) # << >>
  BY <1>1, <1>2, <1>3
<1> QED
  BY <1>3, <1>4, <1>5, <1>6

\* What the arguments of a run consist of.
Texts(p) ==
  {Plain(x) : x \in STRING \cup {"affc", "-isystem", "-fsyntax-only"}} \cup {Below(p, "clang"), Below(p, "libcxx")}

LEMMA GivenTyped ==
  ASSUME NEW left \in Seq(STRING), NEW p
  PROVE  Given(left) \in Seq(Texts(p)) /\ Given(left) # << >> /\ Len(Given(left)) \in Nat \ {0}
<1> DEFINE S == Texts(p)
           f == <<Plain("affc")>>
           g == [m \in 1 .. Len(left) |-> Plain(left[m])]
<1>1. f \in Seq(S) /\ Len(f) = 1
  <2>1. Plain("affc") \in S
    BY DEF Texts
  <2> QED
    BY <2>1
<1>2. \A m \in 1 .. Len(left) : left[m] \in STRING
  BY ElementOfSeq
<1>3. \A m \in 1 .. Len(left) : Plain(left[m]) \in S
  BY <1>2 DEF Texts
<1>4. g \in Seq(S) /\ Len(g) \in Nat
  BY <1>3, IsASeq
<1> HIDE DEF f, g, S
<1>5. f \o g \in Seq(S) /\ Len(f \o g) = 1 + Len(g)
  BY <1>1, <1>4, ConcatProperties
<1>6. Given(left) = f \o g
  BY DEF Given, f, g
<1> QED
  BY <1>4, <1>5, <1>6 DEF S

\* What four insertions make of the arguments.
LEMMA FourInsertions ==
  ASSUME NEW S, NEW only \in S, NEW isystem \in S, NEW clang \in S, NEW libcxx \in S,
         NEW user \in Seq(S), Len(user) # 0
  PROVE  \E a4 \in Seq(S) :
           /\ a4 = Insert(Insert(Insert(Insert(Append(user, only), libcxx), isystem), clang), isystem)
           /\ Len(a4) = Len(user) + 5 /\ a4[2] = isystem
           /\ a4[3] = clang /\ a4[4] = isystem /\ a4[5] = libcxx
           /\ \A m \in 2 .. Len(user) : a4[m + 4] = user[m]
           /\ a4[Len(user) + 5] = only
<1> PICK k : k = Len(user)
  OBVIOUS
<1>0. k \in Nat \ {0}
  OBVIOUS
<1>1. PICK a0 \in Seq(S) :
        /\ a0 = Append(user, only)
        /\ a0 # << >> /\ Len(a0) = k + 1
        /\ \A m \in 2 .. k : a0[m] = user[m]
        /\ a0[k + 1] = only
  <2>1. /\ Append(user, only) \in Seq(S) /\ Append(user, only) # << >> /\ Len(Append(user, only)) = k + 1
        /\ \A m \in 1 .. k : Append(user, only)[m] = user[m]
        /\ Append(user, only)[k + 1] = only
    BY <1>0, AppendProperties
  <2>2. \A m \in 2 .. k : Append(user, only)[m] = user[m]
    BY <1>0, <2>1
  <2> QED
    BY <2>1, <2>2
<1>2. PICK a1 \in Seq(S) :
        /\ a1 = Insert(a0, libcxx)
        /\ a1 # << >> /\ Len(a1) = k + 2
        /\ a1[2] = libcxx
        /\ \A m \in 2 .. k : a1[m + 1] = user[m]
        /\ a1[k + 2] = only
  <2>1. /\ Insert(a0, libcxx) \in Seq(S)
        /\ Insert(a0, libcxx) # << >>
        /\ Len(Insert(a0, libcxx)) = Len(a0) + 1
        /\ Insert(a0, libcxx)[2] = libcxx
        /\ \A m \in 2 .. Len(a0) : Insert(a0, libcxx)[m + 1] = a0[m]
    <3>1. a0 # << >>
      BY <1>1
    <3> QED
      BY <3>1, InsertParts
  <2>2. PICK b \in Seq(S) :
          /\ b = Insert(a0, libcxx) /\ b # << >> /\ Len(b) = k + 2 /\ b[2] = libcxx
          /\ \A m \in 2 .. k + 1 : b[m + 1] = a0[m]
    BY <1>0, <1>1, <2>1
  <2>3. /\ b[k + 2] = a0[k + 1]
        /\ \A m \in 2 .. k : b[m + 1] = a0[m]
    <3>1. /\ k + 1 \in 2 .. k + 1 /\ (k + 1) + 1 = k + 2
          /\ \A m \in 2 .. k : m \in 2 .. k + 1 /\ (m) + 1 = m + 1
      BY <1>0
    <3> QED
      BY <2>2, <3>1
  <2>4. \A m \in 2 .. k : b[m + 1] = user[m]
    BY <1>1, <2>3, Zenon
  <2> QED
    BY <1>1, <2>2, <2>3, <2>4
<1>3. PICK a2 \in Seq(S) :
        /\ a2 = Insert(a1, isystem)
        /\ a2 # << >> /\ Len(a2) = k + 3
        /\ a2[2] = isystem
        /\ a2[3] = libcxx
        /\ \A m \in 2 .. k : a2[m + 2] = user[m]
        /\ a2[k + 3] = only
  <2>1. /\ Insert(a1, isystem) \in Seq(S)
        /\ Insert(a1, isystem) # << >>
        /\ Len(Insert(a1, isystem)) = Len(a1) + 1
        /\ Insert(a1, isystem)[2] = isystem
        /\ \A m \in 2 .. Len(a1) : Insert(a1, isystem)[m + 1] = a1[m]
    <3>1. a1 # << >>
      BY <1>2
    <3> QED
      BY <3>1, InsertParts
  <2>2. PICK b \in Seq(S) :
          /\ b = Insert(a1, isystem) /\ b # << >> /\ Len(b) = k + 3 /\ b[2] = isystem
          /\ \A m \in 2 .. k + 2 : b[m + 1] = a1[m]
    BY <1>0, <1>2, <2>1
  <2>3. /\ b[k + 3] = a1[k + 2] /\ b[3] = a1[2]
        /\ \A m \in 2 .. k : b[m + 2] = a1[m + 1]
    <3>1. /\ k + 2 \in 2 .. k + 2 /\ (k + 2) + 1 = k + 3
          /\ 2 \in 2 .. k + 2 /\ 2 + 1 = 3
          /\ \A m \in 2 .. k : m + 1 \in 2 .. k + 2 /\ (m + 1) + 1 = m + 2
      BY <1>0
    <3> QED
      BY <2>2, <3>1
  <2>4. \A m \in 2 .. k : b[m + 2] = user[m]
    BY <1>2, <2>3, Zenon
  <2> QED
    BY <1>2, <2>2, <2>3, <2>4
<1>4. PICK a3 \in Seq(S) :
        /\ a3 = Insert(a2, clang)
        /\ a3 # << >> /\ Len(a3) = k + 4
        /\ a3[2] = clang
        /\ a3[3] = isystem
        /\ a3[4] = libcxx
        /\ \A m \in 2 .. k : a3[m + 3] = user[m]
        /\ a3[k + 4] = only
  <2>1. /\ Insert(a2, clang) \in Seq(S)
        /\ Insert(a2, clang) # << >>
        /\ Len(Insert(a2, clang)) = Len(a2) + 1
        /\ Insert(a2, clang)[2] = clang
        /\ \A m \in 2 .. Len(a2) : Insert(a2, clang)[m + 1] = a2[m]
    <3>1. a2 # << >>
      BY <1>3
    <3> QED
      BY <3>1, InsertParts
  <2>2. PICK b \in Seq(S) :
          /\ b = Insert(a2, clang) /\ b # << >> /\ Len(b) = k + 4 /\ b[2] = clang
          /\ \A m \in 2 .. k + 3 : b[m + 1] = a2[m]
    BY <1>0, <1>3, <2>1
  <2>3. /\ b[k + 4] = a2[k + 3] /\ b[3] = a2[2] /\ b[4] = a2[3]
        /\ \A m \in 2 .. k : b[m + 3] = a2[m + 2]
    <3>1. /\ k + 3 \in 2 .. k + 3 /\ (k + 3) + 1 = k + 4
          /\ 2 \in 2 .. k + 3 /\ 2 + 1 = 3
          /\ 3 \in 2 .. k + 3 /\ 3 + 1 = 4
          /\ \A m \in 2 .. k : m + 2 \in 2 .. k + 3 /\ (m + 2) + 1 = m + 3
      BY <1>0
    <3> QED
      BY <2>2, <3>1
  <2>4. \A m \in 2 .. k : b[m + 3] = user[m]
    BY <1>3, <2>3, Zenon
  <2> QED
    BY <1>3, <2>2, <2>3, <2>4
<1>5. PICK a4 \in Seq(S) :
        /\ a4 = Insert(a3, isystem)
        /\ a4 # << >> /\ Len(a4) = k + 5
        /\ a4[2] = isystem
        /\ a4[3] = clang
        /\ a4[4] = isystem
        /\ a4[5] = libcxx
        /\ \A m \in 2 .. k : a4[m + 4] = user[m]
        /\ a4[k + 5] = only
  <2>1. /\ Insert(a3, isystem) \in Seq(S)
        /\ Insert(a3, isystem) # << >>
        /\ Len(Insert(a3, isystem)) = Len(a3) + 1
        /\ Insert(a3, isystem)[2] = isystem
        /\ \A m \in 2 .. Len(a3) : Insert(a3, isystem)[m + 1] = a3[m]
    <3>1. a3 # << >>
      BY <1>4
    <3> QED
      BY <3>1, InsertParts
  <2>2. PICK b \in Seq(S) :
          /\ b = Insert(a3, isystem) /\ b # << >> /\ Len(b) = k + 5 /\ b[2] = isystem
          /\ \A m \in 2 .. k + 4 : b[m + 1] = a3[m]
    BY <1>0, <1>4, <2>1
  <2>3. /\ b[k + 5] = a3[k + 4] /\ b[3] = a3[2] /\ b[4] = a3[3] /\ b[5] = a3[4]
        /\ \A m \in 2 .. k : b[m + 4] = a3[m + 3]
    <3>1. /\ k + 4 \in 2 .. k + 4 /\ (k + 4) + 1 = k + 5
          /\ 2 \in 2 .. k + 4 /\ 2 + 1 = 3
          /\ 3 \in 2 .. k + 4 /\ 3 + 1 = 4
          /\ 4 \in 2 .. k + 4 /\ 4 + 1 = 5
          /\ \A m \in 2 .. k : m + 3 \in 2 .. k + 4 /\ (m + 3) + 1 = m + 4
      BY <1>0
    <3> QED
      BY <2>2, <3>1
  <2>4. \A m \in 2 .. k : b[m + 4] = user[m]
    BY <1>4, <2>3, Zenon
  <2> QED
    BY <1>4, <2>2, <2>3, <2>4
<1> QED
  BY <1>1, <1>2, <1>3, <1>4, <1>5

\* The program's own directories are the second to the fifth argument.
LEMMA ArgumentsParts ==
  ASSUME NEW left \in Seq(STRING), NEW p, NEW args, args = Arguments(left, p), NEW user, user = Given(left)
  PROVE  /\ args \in Seq(Texts(p)) /\ Len(args) = Len(user) + 5
         /\ args[2] = Plain("-isystem") /\ args[3] = Below(p, "clang")
         /\ args[4] = Plain("-isystem") /\ args[5] = Below(p, "libcxx")
         /\ \A m \in 2 .. Len(user) : args[m + 4] = user[m]
         /\ args[Len(user) + 5] = Plain("-fsyntax-only")
<1>1. user \in Seq(Texts(p)) /\ Len(user) # 0
  BY GivenTyped
<1>2. PICK only \in Texts(p), isystem \in Texts(p), clang \in Texts(p), libcxx \in Texts(p) :
        /\ only = Plain("-fsyntax-only") /\ isystem = Plain("-isystem")
        /\ clang = Below(p, "clang") /\ libcxx = Below(p, "libcxx")
  BY DEF Texts
<1>3. args = Insert(Insert(Insert(Insert(Append(user, only), libcxx), isystem), clang), isystem)
  BY <1>2 DEF Arguments
<1>4. \E a \in Seq(Texts(p)) :
        /\ a = Insert(Insert(Insert(Insert(Append(user, only), libcxx), isystem), clang), isystem)
        /\ Len(a) = Len(user) + 5 /\ a[2] = isystem
        /\ a[3] = clang /\ a[4] = isystem /\ a[5] = libcxx
        /\ \A m \in 2 .. Len(user) : a[m + 4] = user[m]
        /\ a[Len(user) + 5] = only
  <2>1. ASSUME NEW u \in Seq(Texts(p)), Len(u) # 0
        PROVE  \E a \in Seq(Texts(p)) :
                 /\ a = Insert(Insert(Insert(Insert(Append(u, only), libcxx), isystem), clang), isystem)
                 /\ Len(a) = Len(u) + 5 /\ a[2] = isystem
                 /\ a[3] = clang /\ a[4] = isystem /\ a[5] = libcxx
                 /\ \A m \in 2 .. Len(u) : a[m + 4] = u[m]
                 /\ a[Len(u) + 5] = only
    BY <2>1, FourInsertions
  <2> QED
    BY <1>1, <2>1
<1>5. /\ args \in Seq(Texts(p)) /\ Len(args) = Len(user) + 5 /\ args[2] = isystem
      /\ args[3] = clang /\ args[4] = isystem /\ args[5] = libcxx
      /\ \A m \in 2 .. Len(user) : args[m + 4] = user[m]
      /\ args[Len(user) + 5] = only
  BY <1>3, <1>4
<1> QED
  BY <1>2, <1>5

\* What is read of the arguments of the user, with the directories in front.
Ahead(front, r) == [dirs |-> front \o r.dirs, rest |-> r.rest, open |-> r.open]

LEMMA ReadingParts ==
  ASSUME NEW d, NEW e, NEW x
  PROVE  /\ Reading([dirs |-> d, rest |-> e, open |-> TRUE], x) = [dirs |-> Append(d, x), rest |-> e, open |-> FALSE]
         /\ x.text = "-isystem" =>
              Reading([dirs |-> d, rest |-> e, open |-> FALSE], x) = [dirs |-> d, rest |-> e, open |-> TRUE]
BY DEF Reading

LEMMA AppendPair ==
  ASSUME NEW x, NEW y
  PROVE  Append(<<x>>, y) = <<x, y>>
<1>1. <<x>> \in Seq({x, y}) /\ <<x, y>> \in Seq({x, y}) /\ Len(<<x>>) = 1 /\ Len(<<x, y>>) = 2
  OBVIOUS
<1> PICK s \in Seq({x, y}), t \in Seq({x, y}) : s = <<x>> /\ t = <<x, y>>
  BY <1>1
<1>2. /\ Append(s, y) \in Seq({x, y}) /\ Len(Append(s, y)) = 2
      /\ Append(s, y)[1] = x /\ Append(s, y)[2] = y
  BY AppendProperties
<1>3. Append(s, y) = t
  <2>1. Len(t) = 2 /\ t[1] = x /\ t[2] = y
    OBVIOUS
  <2>2. \A i \in 1 .. 2 : Append(s, y)[i] = t[i]
    BY <1>2, <2>1
  <2> QED
    BY <1>2, <2>1, <2>2, SeqEqual
<1> QED
  BY <1>3

LEMMA AheadStep ==
  ASSUME NEW S, NEW front \in Seq(S), NEW r \in Result(S), NEW x \in S
  PROVE  Reading(Ahead(front, r), x) = Ahead(front, Reading(r, x))
<1>1. r.dirs \in Seq(S) /\ r.rest \in Seq(S) /\ r.open \in BOOLEAN
  BY DEF Result
<1>2. Append(front \o r.dirs, x) = front \o Append(r.dirs, x)
  <2> DEFINE d == r.dirs
             e == <<x>>
  <2>1. d \in Seq(S) /\ e \in Seq(S)
    BY <1>1
  <2> HIDE DEF d, e
  <2>2. front \o d \in Seq(S) /\ (front \o d) \o e = front \o (d \o e)
    BY <2>1, ConcatProperties, ConcatAssociative
  <2>3. Append(front \o d, x) = (front \o d) \o e /\ Append(d, x) = d \o e
    BY <2>1, <2>2, AppendIsConcat DEF e
  <2>4. Append(front \o d, x) = front \o Append(d, x)
    BY <2>2, <2>3
  <2> QED
    BY <2>4 DEF d
<1>3. CASE r.open
  BY <1>2, <1>3 DEF Reading, Ahead, Result
<1>4. CASE ~ r.open /\ x.text = "-isystem"
  BY <1>4 DEF Reading, Ahead, Result
<1>5. CASE ~ r.open /\ x.text # "-isystem"
  BY <1>5 DEF Reading, Ahead, Result
<1> QED
  BY <1>1, <1>3, <1>4, <1>5

\* The directories of the program are read first, the arguments of the user as
\* if they were alone, and the last argument as the user has left it.
LEMMA UserRead ==
  ASSUME NEW left \in Seq(STRING), NEW p
  PROVE  LET front == <<Below(p, "clang"), Below(p, "libcxx")>> IN
         /\ Read(Given(left)) \in Result(Texts(p))
         /\ Read(Arguments(left, p)) = Reading(Ahead(front, Read(Given(left))), Plain("-fsyntax-only"))
<1> DEFINE S == Texts(p)
           front == <<Below(p, "clang"), Below(p, "libcxx")>>
<1> PICK user, args : user = Given(left) /\ args = Arguments(left, p)
  OBVIOUS
<1> PICK n : n = Len(user)
  OBVIOUS
<1>1. /\ user \in Seq(S) /\ user # << >> /\ n \in Nat \ {0}
      /\ args \in Seq(S) /\ Len(args) = n + 5 /\ args # << >>
      /\ args[2] = Plain("-isystem") /\ args[3] = Below(p, "clang")
      /\ args[4] = Plain("-isystem") /\ args[5] = Below(p, "libcxx")
      /\ \A m \in 2 .. n : args[m + 4] = user[m]
      /\ args[n + 5] = Plain("-fsyntax-only")
  <2>1. user \in Seq(S) /\ user # << >> /\ n \in Nat \ {0}
    BY GivenTyped
  <2>2. /\ args \in Seq(S) /\ Len(args) = n + 5
        /\ args[2] = Plain("-isystem") /\ args[3] = Below(p, "clang")
        /\ args[4] = Plain("-isystem") /\ args[5] = Below(p, "libcxx")
        /\ \A m \in 2 .. n : args[m + 4] = user[m]
        /\ args[n + 5] = Plain("-fsyntax-only")
    BY ArgumentsParts
  <2>3. args # << >>
    BY <2>1, <2>2
  <2> QED
    BY <2>1, <2>2, <2>3
<1> HIDE DEF S
<1>2. PICK u : /\ u[1] = Unread
               /\ \A m \in 2 .. n : u[m] = Reading(u[m - 1], user[m])
               /\ Read(user) = u[n]
               /\ \A m \in 1 .. n : u[m] \in Result(S)
  BY <1>1, ReadSteps
<1>3. PICK a : /\ a[1] = Unread
               /\ \A m \in 2 .. n + 5 : a[m] = Reading(a[m - 1], args[m])
               /\ Read(args) = a[n + 5]
  <2>1. \E a : /\ a[1] = Unread
               /\ \A m \in 2 .. Len(args) : a[m] = Reading(a[m - 1], args[m])
               /\ Read(args) = a[Len(args)]
    BY <1>1, ReadSteps
  <2> QED
    BY <1>1, <2>1
<1>4. a[5] = Ahead(front, Unread)
  <2>1. /\ a[2] = Reading(a[1], Plain("-isystem")) /\ a[3] = Reading(a[2], Below(p, "clang"))
        /\ a[4] = Reading(a[3], Plain("-isystem")) /\ a[5] = Reading(a[4], Below(p, "libcxx"))
    <3>1. 2 \in 2 .. n + 5 /\ 3 \in 2 .. n + 5 /\ 4 \in 2 .. n + 5 /\ 5 \in 2 .. n + 5
      BY <1>1
    <3>2. /\ a[2] = Reading(a[2 - 1], args[2]) /\ a[3] = Reading(a[3 - 1], args[3])
          /\ a[4] = Reading(a[4 - 1], args[4]) /\ a[5] = Reading(a[5 - 1], args[5])
      BY <1>3, <3>1
    <3>3. 2 - 1 = 1 /\ 3 - 1 = 2 /\ 4 - 1 = 3 /\ 5 - 1 = 4
      OBVIOUS
    <3> QED
      BY <1>1, <3>2, <3>3
  <2>2. Plain("-isystem").text = "-isystem"
    BY DEF Plain
  <2>3. a[2] = [dirs |-> << >>, rest |-> << >>, open |-> TRUE]
    <3>1. a[2] = Reading([dirs |-> << >>, rest |-> << >>, open |-> FALSE], Plain("-isystem"))
      BY <1>3, <2>1 DEF Unread
    <3> QED
      BY <2>2, <3>1, ReadingParts
  <2>4. a[3] = [dirs |-> <<Below(p, "clang")>>, rest |-> << >>, open |-> FALSE]
    <3>1. a[3] = [dirs |-> Append(<< >>, Below(p, "clang")), rest |-> << >>, open |-> FALSE]
      BY <2>1, <2>3, ReadingParts
    <3> QED
      BY <3>1
  <2>5. a[4] = [dirs |-> <<Below(p, "clang")>>, rest |-> << >>, open |-> TRUE]
    BY <2>1, <2>2, <2>4, ReadingParts
  <2>6. a[5] = [dirs |-> front, rest |-> << >>, open |-> FALSE]
    <3>1. a[5] = [dirs |-> Append(<<Below(p, "clang")>>, Below(p, "libcxx")), rest |-> << >>, open |-> FALSE]
      BY <2>1, <2>5, ReadingParts
    <3> QED
      BY <3>1, AppendPair
  <2>7. front \o << >> = front
    BY ConcatEmptySeq
  <2> QED
    BY <2>6, <2>7 DEF Ahead, Unread
<1>5. front \in Seq(S)
  <2>1. Below(p, "clang") \in S /\ Below(p, "libcxx") \in S
    BY DEF S, Texts
  <2> QED
    BY <2>1
<1> HIDE DEF front
<1>6. \A m \in 1 .. n : a[m + 4] = Ahead(front, u[m])
  <2> DEFINE G == {m \in Nat : a[m + 4] = Ahead(front, u[m])}
  <2>1. 1 \in G
    BY <1>2, <1>4
  <2>2. ASSUME NEW m \in 1 + 1 .. n, m - 1 \in G PROVE m \in G
    <3>1. m \in 2 .. n /\ m + 4 \in 2 .. n + 5 /\ (m + 4) - 1 = (m - 1) + 4 /\ m - 1 \in 1 .. n /\ m \in 1 .. Len(user)
      BY <1>1
    <3>2. a[m + 4] = Reading(a[(m - 1) + 4], user[m])
      <4>1. a[m + 4] = Reading(a[(m + 4) - 1], args[m + 4])
        BY <1>3, <3>1
      <4> QED
        BY <1>1, <3>1, <4>1
    <3>3. a[(m - 1) + 4] = Ahead(front, u[m - 1])
      BY <2>2
    <3>4. u[m - 1] \in Result(S) /\ user[m] \in S
      BY <1>1, <1>2, <3>1, ElementOfSeq
    <3>5. a[m + 4] = Ahead(front, Reading(u[m - 1], user[m]))
      BY <1>5, <3>2, <3>3, <3>4, AheadStep
    <3>6. u[m] = Reading(u[m - 1], user[m])
      BY <1>2, <3>1
    <3> QED
      BY <3>1, <3>5, <3>6
  <2>3. \A m \in 1 .. n : m \in G
    <3> HIDE DEF G
    <3> QED
      BY <1>1, <2>1, <2>2, Upwards
  <2> QED
    BY <2>3
<1>7. Read(args) = Reading(Ahead(front, Read(user)), Plain("-fsyntax-only"))
  <2>1. n \in 1 .. n /\ n + 5 \in 2 .. n + 5 /\ (n + 5) - 1 = n + 4
    BY <1>1
  <2>2. a[n + 5] = Reading(a[n + 4], Plain("-fsyntax-only"))
    BY <1>1, <1>3, <2>1
  <2> QED
    BY <1>2, <1>3, <1>6, <2>1, <2>2
<1>8. Read(user) \in Result(S)
  BY <1>1, <1>2
<1> QED
  BY <1>7, <1>8 DEF S, front

-------------------------------------------------------------------------------
(* What is left over of the tokens is a sequence of names.                   *)

LEMMA NamesTyped ==
  ASSUME NEW T, NEW ts \in Seq([kind : T, name : STRING]), NEW places
  PROVE  NamesAt(ts, places) \in Seq(STRING)
<1> DEFINE N == Len(ts)
           At0(f, m) == IF m = 0 THEN << >> ELSE IF m \in places THEN Append(f[m - 1], ts[m].name) ELSE f[m - 1]
           Takes(f, n) == f = [m \in 0 .. n |-> At0(f, m)]
           G == {n \in Nat : \E f : Takes(f, n)}
<1>1. N \in Nat
  OBVIOUS
<1>2. 0 \in G
  <2> DEFINE f == [m \in 0 .. 0 |-> << >>]
  <2>1. Takes(f, 0)
    OBVIOUS
  <2> QED
    BY <2>1
<1>3. ASSUME NEW n \in 1 .. N, n - 1 \in G PROVE n \in G
  <2>1. PICK f : Takes(f, n - 1)
    BY <1>3
  <2> DEFINE v == IF n \in places THEN Append(f[n - 1], ts[n].name) ELSE f[n - 1]
             g == [m \in 0 .. n |-> IF m = n THEN v ELSE f[m]]
  <2>2. \A m \in 0 .. n : g[m] = At0(g, m)
    <3> SUFFICES ASSUME NEW m \in 0 .. n PROVE g[m] = At0(g, m)
      OBVIOUS
    <3>1. CASE m = n
      <4>1. g[m] = v /\ g[m - 1] = f[m - 1] /\ m # 0
        BY <3>1
      <4> QED
        BY <4>1, <3>1
    <3>2. CASE m # n
      <4>1. m \in 0 .. n - 1 /\ g[m] = f[m]
        BY <3>2
      <4>2. f[m] = At0(f, m)
        BY <4>1, <2>1
      <4>3. m # 0 => g[m - 1] = f[m - 1]
        BY <4>1
      <4> QED
        BY <4>1, <4>2, <4>3
    <3> QED
      BY <3>1, <3>2
  <2>3. g = [m \in 0 .. n |-> At0(g, m)]
    BY <2>2
  <2> HIDE DEF g
  <2> QED
    BY <2>3
<1>4. N \in G
  <2> HIDE DEF G, N
  <2>1. \A m \in 0 + 1 .. N : m - 1 \in G => m \in G
    BY <1>3
  <2>2. \A m \in 0 .. N : m \in G
    BY <1>1, <1>2, <2>1, Upwards
  <2> QED
    BY <1>1, <2>2
<1> DEFINE taken == CHOOSE f : f = [m \in 0 .. N |-> At0(f, m)]
<1>5. taken = [m \in 0 .. N |-> At0(taken, m)] /\ NamesAt(ts, places) = taken[N]
  BY <1>4, Zenon DEF NamesAt
<1> HIDE DEF taken
<1>6. /\ taken[0] = << >>
      /\ \A m \in 1 .. N : taken[m] = IF m \in places THEN Append(taken[m - 1], ts[m].name) ELSE taken[m - 1]
  <2>1. \A m \in 0 .. N : taken[m] = At0(taken, m)
    BY <1>5, Zenon
  <2>2. 0 \in 0 .. N /\ \A m \in 1 .. N : m \in 0 .. N /\ m # 0
    BY <1>1
  <2> QED
    BY <2>1, <2>2, Zenon
<1>7. \A m \in 0 .. N : taken[m] \in Seq(STRING)
  <2> DEFINE H == {m \in Nat : taken[m] \in Seq(STRING)}
  <2>1. 0 \in H
    <3>1. << >> \in Seq(STRING)
      OBVIOUS
    <3> QED
      BY <3>1, <1>6
  <2>2. ASSUME NEW m \in 0 + 1 .. N, m - 1 \in H PROVE m \in H
    <3>1. m \in 1 .. Len(ts) /\ m \in 1 .. N
      BY <1>1
    <3>2. ts[m] \in [kind : T, name : STRING]
      BY <3>1, ElementOfSeq
    <3>3. PICK s \in Seq(STRING), x \in STRING : s = taken[m - 1] /\ x = ts[m].name
      BY <2>2, <3>2
    <3>4. Append(s, x) \in Seq(STRING)
      BY AppendProperties
    <3>5. taken[m] = IF m \in places THEN Append(s, x) ELSE s
      BY <1>6, <3>1, <3>3
    <3>6. taken[m] \in Seq(STRING)
      BY <3>4, <3>5, Zenon
    <3> QED
      BY <3>1, <3>6
  <2>3. \A m \in 0 .. N : m \in H
    <3> HIDE DEF H, N
    <3> QED
      BY <1>1, <2>1, <2>2, Upwards
  <2> QED
    BY <2>3
<1> QED
  BY <1>1, <1>5, <1>7

\* The arguments of the driver are made of what the options leave over.
Left ==
  /\ tokens \in CommandLines
  /\ options.left \in Seq(STRING)
  /\ pc = "analyse" => compilerArgs = Arguments(options.left, answer)

LEMMA LeftStep == Left /\ [Next]_vars => Left'
<1> SUFFICES ASSUME Left, [Next]_vars PROVE Left'
  OBVIOUS
<1> USE DEF files
<1>1. CASE ParseFails \/ SolarisNull \/ LinuxUnread \/ NoDirectory \/ Fails
  BY <1>1 DEF ParseFails, SolarisNull, LinuxUnread, NoDirectory, Fails, Throw, Left
<1>2. CASE ParseOptions
  <2>1. tokens' = tokens /\ options' = Parsed(tokens) /\ pc' = "system"
    BY <1>2 DEF ParseOptions
  <2>2. tokens \in Seq([kind : {"word", "option", "ambiguous"}, name : STRING])
    BY TokensAssumption DEF Left
  <2>3. \E places : options'.left = NamesAt(tokens, places)
    BY <2>1 DEF Parsed
  <2>4. options'.left \in Seq(STRING)
    BY <2>2, <2>3, NamesTyped
  <2> QED
    BY <2>1, <2>4 DEF Left
<1>3. CASE Asking /\ pc' \in {"canonical", "arguments"}
  BY <1>3 DEF Asking, Left
<1>4. CASE AskWindows \/ AskMacOS \/ AskSolaris \/ AskBSD \/ AskLinux \/ AskOther
  BY <1>3, <1>4 DEF AskWindows, AskMacOS, AskSolaris, AskBSD, AskLinux, AskOther, Fallback, Found
<1>5. CASE Canonical \/ Overflows \/ Succeeds \/ Catch
  BY <1>5 DEF Canonical, Overflows, Succeeds, Catch, Left
<1>6. CASE MakeArguments
  BY <1>6 DEF MakeArguments, Left
<1>7. CASE Change
  BY <1>7 DEF Change, Move, Remove, Install, RemoveDirectory, Changing, Left
<1>8. CASE UNCHANGED vars
  BY <1>8 DEF vars, Left
<1> QED
  BY <1>1, <1>2, <1>4, <1>5, <1>6, <1>7, <1>8 DEF Next, Step

LEMMA UserFromLeft == Left => UserUndisturbed
<1> SUFFICES ASSUME Left, pc = "analyse"
             PROVE  LET user == Read(Given(options.left))
                        all == Read(compilerArgs)
                    IN /\ all.dirs = <<Below(answer, "clang"), Below(answer, "libcxx")>> \o user.dirs
                                        \o (IF user.open THEN <<Plain("-fsyntax-only")>> ELSE << >>)
                       /\ all.rest = user.rest \o (IF user.open THEN << >> ELSE <<Plain("-fsyntax-only")>>)
  BY DEF UserUndisturbed
<1> DEFINE S == Texts(answer)
           front == <<Below(answer, "clang"), Below(answer, "libcxx")>>
           only == Plain("-fsyntax-only")
<1> PICK user : user = Read(Given(options.left))
  OBVIOUS
<1>1. user \in Result(S) /\ Read(compilerArgs) = Reading(Ahead(front, user), only)
  BY UserRead DEF Left
<1>2. front \in Seq(S) /\ only \in S /\ only.text # "-isystem"
  <2>1. Below(answer, "clang") \in S /\ Below(answer, "libcxx") \in S /\ only \in S
    BY DEF Texts
  <2>2. only.text # "-isystem"
    BY DEF Plain
  <2> QED
    BY <2>1, <2>2
<1> HIDE DEF S, front, only
<1>3. user.dirs \in Seq(S) /\ user.rest \in Seq(S) /\ user.open \in BOOLEAN /\ front \o user.dirs \in Seq(S)
  BY <1>1, <1>2, ConcatProperties DEF Result
<1>4. CASE user.open
  <2>1. Read(compilerArgs).dirs = Append(front \o user.dirs, only) /\ Read(compilerArgs).rest = user.rest
    BY <1>1, <1>4 DEF Reading, Ahead
  <2>2. Append(front \o user.dirs, only) = (front \o user.dirs) \o <<only>> /\ user.rest \o << >> = user.rest
    BY <1>2, <1>3, AppendIsConcat, ConcatEmptySeq
  <2> QED
    BY <1>4, <2>1, <2>2 DEF front, only
<1>5. CASE ~ user.open
  <2>1. Read(compilerArgs).dirs = front \o user.dirs /\ Read(compilerArgs).rest = Append(user.rest, only)
    BY <1>1, <1>2, <1>5 DEF Reading, Ahead
  <2>2. Append(user.rest, only) = user.rest \o <<only>> /\ (front \o user.dirs) \o << >> = front \o user.dirs
    BY <1>2, <1>3, AppendIsConcat, ConcatEmptySeq
  <2> QED
    BY <1>5, <2>1, <2>2 DEF front, only
<1> QED
  BY <1>3, <1>4, <1>5

\* However many arguments the user gives, the driver reads them as if they were
\* alone, after the two directories of the program.
THEOREM UserIsUndisturbed == Spec => []UserUndisturbed
<1>1. Init => Left
  BY DEF Init, Left, NoOptions
<1> QED
  BY <1>1, LeftStep, UserFromLeft, PTL DEF Spec
===============================================================================
