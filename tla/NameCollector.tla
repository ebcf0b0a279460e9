---------------------------- MODULE NameCollector ----------------------------
(*****************************************************************************)
(* Which declarations of a translation unit are collected: MyMatcher,        *)
(* NameCollector and path_contains_file of src/clang.cpp.                    *)
(*                                                                           *)
(* A path given to --include or --exclude is a record [kind, files]:         *)
(*   "file"     an existing file; files holds it alone                       *)
(*   "dir"      an existing directory; files holds what is below it          *)
(*   "cwd"      the same of the current directory, by its name               *)
(*   "empty"    "" and ".", which have no file name once "." is stripped     *)
(*   "missing"  nothing is there                                             *)
(*****************************************************************************)
EXTENDS Naturals, Sequences

\* A plain variable is matched only when it is constexpr ("var").
Matched == {"typedef", "alias", "function", "record", "enum", "var"}

\* boost::filesystem::canonical throws when there is nothing at the path.
throws(path) == path.kind = "missing"

\* The name of the file is empty when a macro made the declaration.
NoFile == "no file"

\* A path with a file name is compared with the file as a whole: a directory is
\* never equal to a file, but the current one is what canonical makes of an empty
\* name. A path without a file name has no components and is a prefix of
\* everything.
path_contains_file(path, file) ==
  \/ path.kind = "file" /\ file \in path.files
  \/ path.kind = "cwd" /\ file = NoFile
  \/ path.kind = "empty"

\* The wider levels include the narrower ones.
visibilityMatches(vis, level) ==
  \/ vis = "default"
  \/ vis = "protected" /\ level \in {"protected", "hidden"}
  \/ vis = "hidden" /\ level = "hidden"

\* The location is looked at: it is not in a system header, and the cheaper
\* tests of run have succeeded.
Examined(filter, d) ==
  /\ d.kind \in Matched
  /\ ~ d.implicit
  /\ visibilityMatches(d.visibility, filter.visibilityLevel)
  /\ ~ d.system

\* The first include that contains the file ends the search, and an exception
\* of an earlier one ends the program.
isLocationValid(filter, d) ==
  \E n \in 1 .. Len(filter.includes) :
    /\ path_contains_file(filter.includes[n], d.file)
    /\ \A m \in 1 .. n - 1 : ~ throws(filter.includes[m])

LocationThrows(filter, d) ==
  \E n \in 1 .. Len(filter.includes) :
    /\ throws(filter.includes[n])
    /\ \A m \in 1 .. n - 1 : ~ path_contains_file(filter.includes[m], d.file)

\* What the matcher run over the unit leaves in decls.
Decls(filter, unit) ==
  {d \in unit.decls : Examined(filter, d) /\ isLocationValid(filter, d)}

Throws(filter, unit) ==
  \E d \in unit.decls : Examined(filter, d) /\ LocationThrows(filter, d)
===============================================================================
