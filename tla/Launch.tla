-------------------------------- MODULE Launch --------------------------------
(*****************************************************************************)
(* From the command line to the arguments of clang's driver: main of         *)
(* src/generate.cpp, executable_path of src/exepath.cpp on each system, and  *)
(* the first part of ClangSourceAnalyser::analyse.  Meanwhile other programs *)
(* move, remove and install files, and may remove the current directory.     *)
(* What analyse and the writer do afterwards is in Affc; here they succeed,  *)
(* throw, use up the call stack or lose the output.                          *)
(*****************************************************************************)
EXTENDS Naturals, Sequences

CONSTANTS
  Systems,      \* those among "windows", "macos", "solaris", "bsd", "linux", "other"
  Paths, None,  \* what paths lead to; None: there is nothing
  Start,        \* the paths the program may be started from
  Links,        \* the paths that may be links to it
  Long,         \* the paths that do not fit into buf, and their first 1024
  Cut,          \*   characters
  Deleted,      \* what Linux calls a path when its file is gone
  Names, At,    \* what argv[0] can be, and the path it is from the current directory
  Nameless,     \* the argv[0] that is empty
  CommandLines, \* sequences of tokens: [kind, name]
  MaxChanges    \* of the files, while affc starts

ASSUME PathsAssumption ==
  /\ Start \subseteq Paths /\ Links \subseteq Paths /\ None \notin Paths
  /\ At \in [Names -> Paths] /\ Deleted \in [Paths -> Paths] /\ Cut \in [Long -> Paths]

ASSUME TokensAssumption ==
  \A ts \in CommandLines : ts \in Seq([kind : {"word", "option", "ambiguous"}, name : STRING])

VARIABLES
  os, argv0, tokens,
  real,       \* where each path leads to: a file, or None
  program,    \* the path of the file of the program, the last one that it had
  removed,    \* the file is gone
  started,    \* its path when the program was started
  had,        \* the paths it has had since
  cwd,        \* the current directory exists
  changes,
  pc,
  options,    \* the variables_map, and the arguments that are left over
  buf, answer,
  compilerArgs,
  thrown,
  complained, \* what has been printed to std::cerr: "warning", "error"
  output      \* "none" yet, "written", or "lost" on its way

files == <<real, program, removed, had, cwd, changes>>
vars == <<os, argv0, tokens, files, started, pc, options, buf, answer, compilerArgs, thrown, complained, output>>

NoOptions == [include |-> << >>, exclude |-> << >>, flags |-> << >>, left |-> << >>]

Init ==
  /\ os \in Systems /\ argv0 \in Names /\ tokens \in CommandLines
  /\ program \in Start /\ removed = FALSE /\ started = program /\ had = {program}
  /\ real \in {r \in [Paths -> Paths \cup {None}] :
       /\ r[program] = program
       /\ \A p \in Paths : r[p] \in {None, p} \/ (p \in Links /\ r[p] = program)}
  /\ cwd = TRUE /\ changes = 0
  /\ pc = "options" /\ options = NoOptions
  /\ buf = None /\ answer = None /\ compilerArgs = << >>
  /\ thrown = "nothing" /\ complained = {} /\ output = "none"

-------------------------------------------------------------------------------
(* The file system, while affc runs.                                         *)

Exited == pc \in {"exited", "aborted"}

Changing ==
  /\ ~ Exited /\ changes < MaxChanges /\ changes' = changes + 1
  /\ UNCHANGED <<os, argv0, tokens, started, pc, options, buf, answer, compilerArgs, thrown, complained, output>>

\* The file that p leads to goes; so do the links to it.
Without(f) == [p \in Paths |-> IF real[p] = f THEN None ELSE real[p]]

Move ==
  /\ Changing
  /\ ~ removed
  /\ \E to \in Paths :
       /\ real[to] = None
       /\ real' = [Without(program) EXCEPT ![to] = to]
       /\ program' = to /\ had' = had \cup {to}
  /\ UNCHANGED <<removed, cwd>>

Remove ==
  /\ Changing
  /\ ~ removed /\ removed' = TRUE
  /\ real' = Without(program)
  /\ UNCHANGED <<program, had, cwd>>

\* Another file, maybe where the program was.
Install ==
  /\ Changing
  /\ \E p \in Paths : real[p] = None /\ real' = [real EXCEPT ![p] = p]
  /\ UNCHANGED <<program, removed, had, cwd>>

RemoveDirectory ==
  /\ Changing
  /\ cwd /\ cwd' = FALSE
  /\ UNCHANGED <<real, program, removed, had>>

-------------------------------------------------------------------------------
(* boost::program_options, as main uses it.                                  *)

Flags == {"include-hidden", "include-protected"}
Lists == {"include", "exclude"}

\* The names at some of the places, in their order.
NamesAt(ts, places) ==
  LET taken[m \in 0 .. Len(ts)] ==
        IF m = 0 THEN << >> ELSE IF m \in places THEN Append(taken[m - 1], ts[m].name) ELSE taken[m - 1]
  IN taken[Len(ts)]

\* A list takes the words up to the next option; a word that no list takes and
\* an option that is not registered are for the compiler.
Parsed(ts) ==
  LET Places == 1 .. Len(ts)
      Owner(m) ==
        LET before == {l \in 1 .. m - 1 : ts[l].kind # "word"} IN
        IF ts[m].kind # "word" THEN "itself"
        ELSE IF before = {} THEN "left"
        ELSE LET last == ts[CHOOSE l \in before : \A x \in before : x <= l] IN
             IF last.name \in Lists THEN last.name ELSE "left"
      Unregistered(m) == ts[m].kind # "word" /\ ts[m].name \notin Flags \cup Lists
  IN [include |-> NamesAt(ts, {m \in Places : Owner(m) = "include"}),
      exclude |-> NamesAt(ts, {m \in Places : Owner(m) = "exclude"}),
      flags   |-> NamesAt(ts, {m \in Places : ts[m].name \in Flags}),
      left    |-> NamesAt(ts, {m \in Places : Owner(m) = "left" \/ Unregistered(m)})]

\* A name that more than one option begins with, or a flag given twice.
Misused(ts) ==
  \/ \E m \in 1 .. Len(ts) : ts[m].kind = "ambiguous"
  \/ \E l, m \in 1 .. Len(ts) : l < m /\ ts[l].name \in Flags /\ ts[m].name = ts[l].name

Throw(e) ==
  /\ thrown' = e /\ pc' = "thrown"
  /\ UNCHANGED <<os, argv0, tokens, files, started, options, buf, answer, compilerArgs, complained, output>>

\* program_options::error is a std::logic_error.
ParseFails == pc = "options" /\ Misused(tokens) /\ Throw("logic_error")

\* The warning about missing filters goes to std::cerr; a list that is given
\* without values is an empty vector, and not empty() in the map.
ParseOptions ==
  /\ pc = "options" /\ ~ Misused(tokens)
  /\ options' = Parsed(tokens)
  /\ complained' = IF \E m \in 1 .. Len(tokens) : tokens[m].kind = "option" /\ tokens[m].name = "include"
                    THEN {} ELSE {"warning"}
  /\ pc' = "system"
  /\ UNCHANGED <<os, argv0, tokens, files, started, buf, answer, compilerArgs, thrown, output>>

-------------------------------------------------------------------------------
(* executable_path.                                                          *)

\* Wrong variant: whatever the system has written into buf is taken.
FitsAlways(p) == TRUE
Fits(p) == p \notin Long

\* What is left in buf of a path.
Written(p) == IF p \in Long THEN Cut[p] ELSE p

Found(p, next) == buf' = p /\ pc' = next /\ UNCHANGED answer

\* executable_path_fallback: an empty argv[0] has no path.
Fallback ==
  IF argv0 = Nameless THEN answer' = None /\ pc' = "arguments" /\ UNCHANGED buf
  ELSE Found(At[argv0], "canonical")

Asking ==
  /\ pc = "system"
  /\ UNCHANGED <<os, argv0, tokens, files, started, options, compilerArgs, thrown, complained, output>>

\* GetModuleFileNameA: the name is taken as it is; a name that does not fit, or
\* an error, is known by what it returns.
AskWindows ==
  /\ os = "windows" /\ Asking
  /\ \/ Fits(started) /\ answer' = Written(started) /\ pc' = "arguments" /\ UNCHANGED buf
     \/ Fallback

\* _NSGetExecutablePath: the path that the program was started with.
AskMacOS ==
  /\ os = "macos" /\ Asking
  /\ IF Fits(started) THEN Found(Written(started), "canonical") ELSE Fallback

\* getexecname may have no name, and a string cannot be made of a null pointer;
\* an absolute name is taken as it is, and a relative one is looked up.
AskSolaris ==
  /\ os = "solaris" /\ Asking
  /\ \/ answer' = started /\ pc' = "arguments" /\ UNCHANGED buf
     \/ argv0 # Nameless /\ Found(At[argv0], "canonical")
     \/ Fallback

SolarisNull == os = "solaris" /\ pc = "system" /\ Throw("logic_error")

\* sysctl: what it returns is not looked at; after an error size is still the
\* size of buf.  (The zero that ends the path is counted and stays in the name of
\* the file, whose directory only is used.)
AskBSD ==
  /\ os = "bsd" /\ Asking
  /\ \/ ~ removed /\ Fits(program) /\ Found(Written(program), "canonical")
     \/ Fallback

\* readlink cuts a path that does not fit, and then size is the size of buf.
Link == IF removed THEN Deleted[program] ELSE program

AskLinux ==
  /\ os = "linux" /\ Asking
  /\ IF Fits(Link) THEN Found(Written(Link), "canonical") ELSE Fallback

\* After an error size is -1, and std::string throws a std::length_error.
LinuxUnread == os = "linux" /\ pc = "system" /\ Throw("logic_error")

AskOther == os = "other" /\ Asking /\ Fallback

\* canonical with an error_code gives an empty path where there is nothing; its
\* argument current_path() throws where there is no current directory.
NoDirectory == pc = "canonical" /\ ~ cwd /\ Throw("filesystem_error")

Canonical ==
  /\ pc = "canonical" /\ cwd
  /\ answer' = real[buf] /\ pc' = "arguments"
  /\ UNCHANGED <<os, argv0, tokens, files, started, options, buf, compilerArgs, thrown, complained, output>>

-------------------------------------------------------------------------------
(* analyse, and the end of main.                                             *)

Plain(x) == [text |-> x, of |-> None]

\* A directory next to a file; None is in the current directory.
Below(p, name) == [text |-> name, of |-> p]

Given(left) == <<Plain("affc")>> \o [m \in 1 .. Len(left) |-> Plain(left[m])]

Insert(s, x) == <<Head(s), x>> \o Tail(s)

\* Each insertion is right behind the first argument.
\* Wrong variant: the flag is inserted before its directory is.
ArgumentsSwapped(left, p) ==
  LET args == Append(Given(left), Plain("-fsyntax-only")) IN
  Insert(Insert(Insert(Insert(args, Plain("-isystem")), Below(p, "libcxx")), Plain("-isystem")), Below(p, "clang"))
Arguments(left, p) ==
  LET args == Append(Given(left), Plain("-fsyntax-only")) IN
  Insert(Insert(Insert(Insert(args, Below(p, "libcxx")), Plain("-isystem")), Below(p, "clang")), Plain("-isystem"))

MakeArguments ==
  /\ pc = "arguments"
  /\ compilerArgs' = Arguments(options.left, answer)
  /\ pc' = "analyse"
  /\ UNCHANGED <<os, argv0, tokens, files, started, options, buf, answer, thrown, complained, output>>

\* The driver, the jobs and format.write throw std::runtime_error only.
Fails == pc = "analyse" /\ Throw("runtime_error")

\* The text of the exception of getID is made by toString, which does not end on
\* a recursive type: the process is killed, in ProtoFormat and Affc as well.
Overflows ==
  /\ pc = "analyse" /\ thrown' = "overflow" /\ pc' = "aborted"
  /\ UNCHANGED <<os, argv0, tokens, files, started, options, buf, answer, compilerArgs, complained, output>>

\* Neither the status of MessageToJsonString nor the state of std::cout is looked
\* at: what is written may be lost, and main goes on to its end.
Succeeds ==
  /\ pc = "analyse" /\ output' \in {"written", "lost"} /\ pc' = "exited"
  /\ UNCHANGED <<os, argv0, tokens, files, started, options, buf, answer, compilerArgs, thrown, complained>>

\* catch (std::runtime_error&): a filesystem_error is one.
\* Wrong variant: the handler is made for the errors of the options.
CaughtOptions(e) == e = "logic_error"
Caught(e) == e \in {"runtime_error", "filesystem_error"}

\* Main prints the exception and returns 0, or the process is aborted.
Catch ==
  /\ pc = "thrown" /\ complained' = complained \cup {"error"}
  /\ pc' = IF Caught(thrown) THEN "exited" ELSE "aborted"
  /\ UNCHANGED <<os, argv0, tokens, files, started, options, buf, answer, compilerArgs, thrown, output>>

Step ==
  \/ ParseOptions \/ ParseFails
  \/ AskWindows \/ AskMacOS \/ AskSolaris \/ SolarisNull \/ AskBSD \/ AskLinux \/ LinuxUnread \/ AskOther
  \/ NoDirectory \/ Canonical
  \/ MakeArguments \/ Fails \/ Overflows \/ Succeeds \/ Catch

Change == Move \/ Remove \/ Install \/ RemoveDirectory

Next == Step \/ Change

Spec == Init /\ [][Next]_vars

-------------------------------------------------------------------------------
(* Properties.                                                               *)

\* Whatever is moved, removed or installed while affc starts, the headers are
\* looked for where the program was at some time, where argv[0] leads to when
\* the system has no name that fits, below what Linux calls a file that is
\* gone, or below the current directory: never at a path that was cut.
HeadersKnown ==
  pc = "analyse" =>
    \/ answer \in had \cup {None}
    \/ argv0 # Nameless /\ answer = At[argv0]
    \/ os = "linux" /\ answer \in {Deleted[p] : p \in had}

\* What the driver makes of its arguments: "-isystem" takes the next one.
Unread == [dirs |-> << >>, rest |-> << >>, open |-> FALSE]

Reading(before, x) ==
  IF before.open THEN [before EXCEPT !.dirs = Append(@, x), !.open = FALSE]
  ELSE IF x.text = "-isystem" THEN [before EXCEPT !.open = TRUE]
  ELSE [before EXCEPT !.rest = Append(@, x)]

Read(args) ==
  LET reads[m \in 1 .. Len(args)] == IF m = 1 THEN Unread ELSE Reading(reads[m - 1], args[m])
  IN reads[Len(args)]

\* The driver reads the arguments of the user as if they were alone, with the
\* program's own directories in front of theirs, and only checks the syntax:
\* unless the last of them lacks its argument, which is then "-fsyntax-only".
UserUndisturbed ==
  pc = "analyse" =>
    LET user == Read(Given(options.left))
        all == Read(compilerArgs)
    IN /\ all.dirs = <<Below(answer, "clang"), Below(answer, "libcxx")>> \o user.dirs
                        \o (IF user.open THEN <<Plain("-fsyntax-only")>> ELSE << >>)
       /\ all.rest = user.rest \o (IF user.open THEN << >> ELSE <<Plain("-fsyntax-only")>>)

\* Neither a file that goes nor a directory that goes while affc starts, nor an
\* error of the compiler, aborts the process; a misused option does, and so
\* does a system that cannot name the program on Linux and Solaris, both with a
\* word. The one abort without a word is the call stack that is used up.
AbortCauses ==
  pc = "aborted" =>
    \/ thrown = "overflow"
    \/ /\ Misused(tokens) \/ os \in {"linux", "solaris"}
       /\ thrown = "logic_error" /\ "error" \in complained

\* The status of the process is 0 with or without a catalog. Whoever finds none
\* and no error on std::cerr (the warning is not counted) can tell one thing
\* only: analysis and writer went through, and the output was lost on its way.
NothingSilently == pc = "exited" /\ output # "written" => "error" \in complained \/ output = "lost"

\* An error that is told of and a catalog exclude each other.
ErrorOrOutput == "error" \in complained => output = "none"

\* How a process ends says why: aborted only for the causes above; with status 0
\* only after an error that was printed, or when the writer was done, whether or
\* not what it wrote has arrived.
EndsExplained == AbortCauses /\ NothingSilently /\ ErrorOrOutput
===============================================================================
