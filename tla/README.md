# A TLA+ model of AutoFFI

`affc` reads C, C++ and Objective-C sources with clang and writes a JSON
document: the types they declare, numbered, and the names they export, each with
the number of its type. This directory holds TLA+ modules that model how it gets
from one to the other, TLC configurations that check them on small instances, and
proofs checked by TLAPS. Paths are relative to the repository: `src/clang.cpp`,
`include/AutoFFI/TypeSorter.h`.

## 1. The system

The program is a single-threaded batch process. What is hard in it is not
concurrency but graphs: types are recursive, shared and redeclared; they are
reached through different clang forms; they are visited in the order of memory
addresses; and several containers have to agree on which object stands for what.
What surrounds it has hazards of its own: the classes of the messages, in which a
dozen functions of every class have to agree about each member, and pointers change
hands between messages, arenas and callers; files that are cut or written by others;
and a file system that changes while the program looks for its own path.

| Part | State | Operations | What makes it correct |
|---|---|---|---|
| `main` (`src/generate.cpp`) | the options, the arguments left over | parse; analyse, then write; print a `runtime_error` | it ends; it writes nothing after a failure; it says so |
| `executable_path` (`src/exepath.cpp`) | the buffer | ask the system, or look `argv[0]` up; make the path canonical | the path is the program's, or there is none: never one that was cut |
| `analyse` (`src/clang.cpp:537-681`) | the loop over clang's jobs, the catalog | per job: gather, collect, sort, add | the catalog describes all jobs |
| `NameCollector` (`src/clang.cpp:397-472`) | the set of matched declarations | `run`, with the visibility and path filters | exactly the declarations asked for |
| `TypeConverter` (`src/clang.cpp:133-311`) | the container of `TypeRepr`s, the objects, the call stack | one `Visit` function per class of clang type | each clang type has one object of the right shape; it ends on recursive types |
| `ExportCollector` (`src/clang.cpp:319-394`) | the exports | one `Visit` function per class of declaration, `replaceType` | one export per declaration, with the type declared |
| AST (`src/AST.cpp`, `AST.h`) | kinds and members | `Type::replace` with `ReplaceVisitor`, `toString` | replacing misses nothing and ends |
| `TypeSorter` (`src/TypeSorter.cpp`, `TypeSorter.h`) | the graph, the result | constructor: visit, `addDependency`, `sort` | dependencies first, no type lost, never throws, ends |
| `Catalog` (`src/Catalog.cpp`) | a sequence and a set of types, a set of exports | add, remove | sequence and set agree; order kept |
| `CountMap`, `Format::write` (`CountMap.hpp`, `src/ProtoFormat.cpp`) | the numbers, the message | number, convert, print | complete or nothing; numbers lead to what was meant |
| `Format::read` | none: what it parses is dropped | parse, or throw | what was written is read; half of a file is not taken for more |
| Message classes (`src/autoffi.pb.cc`, `.h`) | members, cached sizes, the pointer to a `Value`, the arena | accessors, `Clear`, `MergeFrom`, `CopyFrom`, `Swap`, sizes, two writers, a parser | the functions agree with each other and with the descriptor; every `Value` has one owner |
| `SymbolTable` (`SymbolTable.h`, `src/SymbolTable.cpp`) | a map from names to exports | make, size, has, get, remove | answers by the names of when it was made |
| `list.cpp`, `null.cpp`, `test/`, `test/assets`, build files | | not built, empty, tests, vendored, none | |

How the parts call each other, once per job:

```
main --AnalyzeOptions--> analyse
  clang: ExecuteAction --match--> NameCollector.run --> set of declarations
  ExportCollector.Visit(decl)  --clang type--> TypeConverter --> objects, TypeReprs
                 | redeclared record: replaceType --> Type::replace on every entry
  the entries that are not dangling --> TypeSorter --> sorted types
  exports --> Catalog.addExport      sorted types --> Catalog.addType
main --Catalog--> Format::write --> CountMap, messages, JSON on standard output
```

Before it: `main` hands the arguments it does not know to `analyse`, which puts the
header directories next to `executable_path` in front of them. After it, a generator of
bindings reads the JSON, or the bytes that `Format::PROTOBUF` writes.

Failures: a job that clang cannot parse, a path for which `canonical` throws, a
type without a `Visit` function and a type without a number all throw through the
whole of the above into `main`, which prints the text and returns 0. A
`logic_error` is not caught there: the errors of the option parser are, and so is what
`std::string` throws when the system call of `executable_path` has failed. The hazards, each at its line and with the
properties that cover it, are listed in `PROJECT.json`.

## 2. Modules

State and actions have the names of the code where it has one.

**`TypeSorter`**: the constructor of the sorter, from the call to the return.
`Construct` makes the graph, `VisitDependency` is one call of `addDependency`,
`NextType` the loop over the range, `BeginSort` the call of `sort`. A vertex is a
position of the list: a list with repetitions has several vertices of one type,
of which `getVertex` finds the first, and 0 when the type is not listed (that is
what `m[type]` inserts). `has_cycles` is given by its meaning: a cycle exists iff
some set of vertices is never left. `boost::topological_sort` is external, and
modelled step by step (`DiscoverRoot`, `ExamineEdge`, `FinishVertex`), because its
depth-first order decides where a second occurrence of a type lands and whether
`not_a_dag` is thrown. `FillResult` is the loop of `sort`.

**`TypeOrder`**: what a sorter promises, without graph, repetitions or search: keep
dependencies that form no cycle, give up only those that would close one, emit a
type after all it has a kept dependency on. The sorter implements it for every list, if a
dependency that the list lacks is taken for one on the first type of the list.

**`TypeConverter`**: the recursion as an explicit stack of calls, `Frame` being the
call on top: `[fn, clang, obj, got]` with the object allocated by the call and the
number of parts it has converted. `Found` is a hit in the container;
`EnterQualified`/`EnterUnqualified` and their `Resume` actions are the two branches
of `VisitQualType`, before and after the inner call. The `Visit` functions fall
into three shapes. *Sugar* (typedef, elaborated, parenthesised) passes on what it
stands for. A *leaf* (builtin, enum) is made at once. A *composite* (record, array,
pointer, block pointer, function) is entered in the container with NULL members
(`VisitComposite`), converts its parts one by one (`VisitPart`, `ResumePart`) and
returns. `Unconvertible` is the exception. A clang type has a kind and parts; names,
counts and enumerators are left out, because no branch depends on them.

Qualifiers are of three sorts (`Quals`), because the code looks at them in two ways. A
`QualType` has none, or `"fast"` ones (`const`, `volatile`, `restrict`, whatever else
there is), or only `"extended"` ones (an address space, `__unaligned`, the ownership of
Objective-C). `VisitQualType` branches on `hasLocalQualifiers`, true of both sorts; the
container compares a `Key`, in which only the fast ones count. A type that a unit has
with extended qualifiers only (`Mixed`) shares its key with the plain type (`Blurred`), and
the first of the two to be converted is found in place of the other: the qualifiers are
lost, or the plain type becomes a `QualType` around itself. `Stands` says which objects a
`QualType` of clang may lead to: its own entry, or that of what is left of it when sugar is
taken off. Which of `const`, `volatile` and `restrict` a fast one is is left out: each
combination is a key of its own, and one of them stands for all.

**`ExportCollector`** (extends it): `VisitDecl` starts one of the `Visit` functions of
declarations, `PushExport` ends it. A redeclared record goes through
`VisitPreviousDecl` and `ReplacePrevious`, which is `replaceType` and the export
behind it. Declarations are taken in any order: the code iterates over a set of
pointers. clang shares the type of a record among its declarations, which is why
`PreviousType` is the type of the declaration itself.

**`Replacement`**, **`Replace`**: `ReplaceAll` is the effect `ReplacePrevious` uses;
`Replace` is the visitor itself, with its stack and its set, called on one entry
after the other. The run `replace` shows that they agree.

**`NameCollector`**: the filters, as operators over a declaration and the options. The
collector has one variable, the set of declarations, which a job fills before
anything reads it, so the composition takes it in one step (`Decls`). `Throws` says
when a path of `--include` ends the program. A declaration made by a macro is in a file without
a name (`NoFile`), which `canonical` makes the current directory, so a path of it (`"cwd"`) contains
that declaration.

**`Catalog`**: the sequence, the set, the exports, and every operation.

**`ProtoFormat`**: `Start` numbers the types, `WriteType` and `WriteExport` make one
message each, `TypeMissing` and `ExportMissing` are `getID` throwing. The text of
that exception calls `toString`, which on a recursive type never ends: `Endless` says
for which types, and the outcome is then "overflow" (the call stack) and not "error".

**`Affc`**: `main` and `analyse`. It instantiates the collector, the sorter, the catalog
and the writer under names (`Coll`, `Sort`, `Cat`, `Writer`) and runs their steps one
after the other for every job. `Kept` is the list of entries that are not dangling,
`Dependencies` what the visit functions of the sorter read off the objects. The command
line is represented by the filter it yields, clang by the translation unit it hands
over. A sorter that threw would be a state without a step: a deadlock.

**`Bindings`**: what the program promises as a whole, without types, visitors, lists or
messages: units are analysed one after the other, the first that cannot be is the end, and
when all have been, everything is published at once, or nothing. Which units can be analysed
is said by `Affc`, from the input alone. A unit that is `Sound` does not fail: clang parses it, its
paths exist, and no type without a `Visit` function is part of what is declared. A unit is analysed
only if it is `Passable`, which asks the same except below types it also has with extended
qualifiers only: the object that has taken their key hides the parts, so that a unit which should
fail may pass. It may refuse to publish only when a record is redeclared. `Affc` implements it, for every order of the declarations.

**`Launch`**: from the command line to the arguments of clang's driver. `ParseOptions` is
what boost's parser makes of the tokens; `AskWindows` ... `AskOther` are the six versions
of `executable_path`, of which a build has one; `SolarisNull` and `LinuxUnread` are the
calls that fail in a way the code does not expect; `Canonical` comes as a step of its own,
because the file of the program may be moved (`Move`), removed, or replaced (`Install`)
and the current directory removed between the two calls. `MakeArguments` is the beginning
of `analyse`. `Fails`, `Overflows` and `Succeeds` are what analysis and writer may do to the
process: throw, use up the call stack (`toString` of a recursive type, "overflow" in `ProtoFormat`),
or come to their end, with `output` "written" or "lost", since nobody looks at the state of
`std::cout`. `Catch` is the end of `main`.

**`Numbers`**: the values of enumerators, the sizes of arrays and the kinds of builtin
types from clang (`getLimitedValue`, 64 bits) through the AST into the fields of a message
(32 bits), and the two enumerations of primitive kinds that a cast relates.

**`ProtoClasses`**: the six message classes as tables, one for each function of each class:
the members with their types (in the order that `memset` and `memcpy` rely on), the members
that the constructors set, that `Clear` resets, that `MergeFrom`, the copy constructor and
`InternalSwap` take, the bytes counted for each tag, the field numbers of the two writers,
the tags of the parser. No table is derived from another one, as in the code.
**`ProtoOps`** gives the functions their meaning: `MergeFrom`, `Swap`, `ByteSizeLong`,
`Serialize`, `Parse` and so on, on messages that include their cached sizes; memory that no
constructor sets holds `junk`. **`ProtoSchema`** is the descriptor the file embeds, and
`Decode`, what a reader that has only the descriptor makes of some bytes. **`ProtoWire`**
is the runtime: varints, tags, lengths. The functions of a class call themselves on the messages
below. Messages are no deeper than four (`Height`: a catalog has types, which have fields, which
have values), so the recursion is written out: `Flat`, `High`, `Higher` and `Deep` give what a
function makes of a message from what it makes of those below, and `ParseBy`, `DecodeBy` are the
loops of the two readers, for a reader of the messages below (`ParseFlat` ... `Parse`).
The loops are recursive functions. The runtime writes nothing larger than an `int` can say
(`MaxInt`), and neither do `SerializeMessage` and `WriteProtobuf`.

**`ProtoMessage`**: two messages of one class and any calls on them. **`Messages`**: what the
classes promise, in terms of the descriptor only: contents, no caches, no arenas.

**`CatalogFile`**: `Format::write` in its three formats, a file whose last write may be cut at
any byte, other writers of the file, and `Format::read`.

**`SubMessage`**: who owns the `Value` an `Export` or a `RecordField` points to. `place` is where
a `Value` was created, `hand` what the caller has to delete, `owned` what an arena was given
by `Own`, `borrowed` what was taken from an arena by `unsafe_arena_release`. An address is not
used twice, so that a pointer to something deleted is seen; the caller keeps the rules of the
interface (the head of the module says which).

**`SymbolTable`**: all operations, and exports that get other names meanwhile. Where the code
and `Catalog` have one name for two things, this module says `Entries` and `removeName`, so
that one run can extend both.

**`*Proofs`**: theorems. **`MC*`**: instances for TLC.

Operators under the heading *Wrong variant* are plausible bugs of the definition that
follows them. Each property of each passing run is violated when one of them takes the
place of that definition; `PROJECT.json` lists the pairs.

## 3. Runs

| Run | Instance | Distinct states | Shows |
|---|---|---|---|
| `sorter` | any list of at most 4 of 3 types, each with at most 2 dependencies, listed or not | 170,314 | never `not_a_dag`; nothing lost; kept dependencies come first; only those in cycles are dropped; implements `TypeOrder`; terminates |
| `collector` | 7 clang types in every arrangement C allows of two lists of choices, one with extended qualifiers, 3 and 5 sets of declarations | 256,908 | faithful conversion, one object per type, no re-entry, exports, at most one lost type, termination |
| `replace` | 3 types of any shape over 4, an entry listed twice; or one type that no entry lists | 1,007,929 | the visitor has the effect assumed, each call rewrites what its own type leads to, and it ends |
| `catalog` | 4 types, 3 exports, 2 names, then a table of the exports in any order; or 2 objects of any shape, catalogs of at most 3 entries; or one declaration, with 3 and 6 bits for 32 and 64, every enumerator of 5 widths, all sizes, all kinds | 372,066 | the two representations agree; the order is kept; what the four operations of the table answer is by the names of then; the document is complete or there is none; numbers are positions; which enumerators and sizes arrive; the kinds agree |
| `affc` | 8 sets of types, three with an address space, 4 sets of declarations, 3 filters, one and two jobs | 70,991 | the output describes what was asked for, in order; implements `Bindings`; the program exits |
| `messages` | each class, two messages empty or full, on one arena or two, 2 calls (3 for `Export`); or 2 catalogs in a file that is written twice, cut anywhere, with 12 foreign fragments | 21,870 | implements `Messages`; the size computed is the number of bytes; what is written is read; the readers agree; a cut file makes nothing up |
| `sub_message` | 4 messages on the heap and 2 arenas, 5 `Value`s | 79,230 | one owner; no pointer to what is deleted, and nothing shared; nothing deleted twice |
| `launch` | 6 systems, 6 command lines, 5 paths, 2 changes of the file system | 776,252 | headers are not looked for at a cut path; the user's arguments are read as given; which failures abort, and that only a lost output is silent |
| `forward_declaration` | `struct R; struct R { ... };` | | violated: the exported type is not listed |
| `address_space` | `typedef int __attribute__((address_space(1))) *gp; int f(int);` | | violated: the plain `int` is a `QualType` |
| `exclude` | `--include a.h b.h --exclude b.h` | | violated: `b.h` is exported |
| `directory` | `--include` of a directory | | violated: nothing below it is exported |

The bounds. A list of 4 with 3 types always repeats one; with 3 types there are cycles
of length 1, 2 and 3, shared dependencies, and unlisted types whose edges go to vertex
0. The types are only compared, so `sorter` takes of the lists that differ in the names of
types the one that names them 1, 2, 3 in order (`Numbered`): a reduction of the inputs and
not of the states, which is sound for liveness too. In `collector` the pointer, the typedef and the function type can lead
back to the records, through qualified and plain forms; `X` makes conversions fail in
every depth of the recursion. Translation units that C cannot express (a record that
holds itself, a typedef of itself) are left out by `Possible`. In `catalog` two objects
are enough for a reference out of the catalog that is written, a repetition and a cycle of `toString`.
In `affc` the types are compared to a depth of 8 (`Depth`), beyond the length of any
path without repetition through the 7 types; `EnoughIds` are two objects for each of the 7
types and each of two jobs, which is what `IdsAssumption` asks for. All three ends, "written", "error" and "overflow", are reached. These runs need no
other bound: every counter is bounded by the input. In `catalog` the order of the types needs three
types and a fourth to be erased; a table is made when at most one type is in the catalog
(`Ordered`), because it reads only the exports.

Two runs hold several sides of one part of the system each, `catalog` and `messages`. The sides
share no state: a behaviour is one of one of them, and the modules that are idle stay in their first
state, in which their properties hold.

`MaxCalls` bounds the calls in `messages`: the messages start full or empty, on one
arena or two, so that two calls bring any function to any state another has left (a size
cached by a write, then a change; a copy, then a write). `Samples` holds a negative number,
whose varint has ten bytes, a number of two bytes, nested and repeated messages.
`MaxWrites` bounds what gets into the file: two catalogs, or one and a fragment of another writer,
which is a field of a later version, in each wire type, unpacked parameter types, a tag
above the cutoff, a string that is no UTF-8, or the end of a group. Every byte is a place
to cut. `Numbers` is given scaled-down widths; what matters is that there are types narrower than
the field, of its width, between the two, of the larger width and wider. In `sub_message`
two messages of the heap and one on each of two arenas meet in every combination of
places; five `Value`s are enough for a `Swap` that copies two while two are held. In
`launch` the name that fits no buffer, what is left when it is cut, and what a file that
is gone is called are paths like any other, at which there may or may not be a file;
`MaxChanges` is two: between two system calls the program goes and another takes its place.

What `affc` writes is compared with the input by `Described`, the pairs of a clang type and a
number of the document that agree down to a depth: it follows the references of the document and
the parts of the types side by side, and depends on no definition of the modules in between.

### Fairness

`FairSpec` of each module adds `WF_vars(Step)`: the program has one thread and waits
for nothing, so a possible step is taken. Nothing is assumed about being called:
`TypeSorter` promises to return only once constructed. Which declaration is visited
next, and which export is written next, is not fair to anyone and need not be. The
modules about messages, files, ownership, the launch and the table have no fairness and
no liveness: their callers may stop at any time.

### Disagreements between code and documents

* **Forward declarations.** `replaceType(prevType, type)` marks the entries of
  `prevType` as dangling (`src/clang.cpp:345`), but clang gives all declarations of a
  record one type, so it marks the type in use. The entries of everything else are
  replaced by entries that are not dangling (`:348`), which also revives what an earlier
  redeclaration had marked. In effect the record redeclared last is missing from the
  sorted list, `addDependency` takes vertex 0 for it, and writing fails as soon as
  anything refers to it, the exports of the record itself included; unless a typedef
  or a use converted after it has entered it again. `AtMostOneLost` is what does
  hold, `ExportedTypesListed` what CHANGELOG.md:15 promises.
* **Address spaces.** `VisitQualType` makes a `QualType` when there are qualifiers of any
  sort (`src/clang.cpp:210`), but `ClangQualTypeLT` (`:56-61`) tells types apart by `const`,
  `volatile` and `restrict` only. With `typedef int __attribute__((address_space(1))) *gp;
  int f(int);` the `QualType` of the pointee is entered under the key of `int`; its underlying
  type, and both types of `f`, are then looked up under that key and are the `QualType` itself,
  against the comment at `:209` ("Skip creation of qualified types where no qualifiers are
  present"). In the other order the address space is lost. `NoQualifiersNoQualType` states
  the comment; `FaithfulConversion`, `OutputFaithful` and `Passable` say how far the damage goes:
  to types that the unit has in both forms, and to what they hide.
* **`--quiet`** (README.md:46) is no option of the program: `main` hands what it does not know
  to the compiler (`src/generate.cpp:31-40`). It is a missing option and no behaviour, and has
  no run.
* **`--exclude`** is stored and never read (README.md:58).
* **`--include` of a directory** matches nothing: a directory has a file name, so it is
  compared with the file as a whole (`src/clang.cpp:406-409` against README.md:57 and the
  comment at `:422`).

## 4. Proofs

Proved with TLAPS, for every value of the constants:

| Theorem | Module | States |
|---|---|---|
| `TypeCorrect` | `TypeSorterProofs` | `Spec => []TypeOK` |
| `Acyclic` | `TypeSorterProofs` | `Spec => []NeverNotADag` |
| `SortedKeepsOrder` | `TypeSorterProofs` | `Spec => []KeptOrder` |
| `OnlyHopelessDropped` | `TypeSorterProofs` | `Spec => []OnlyCyclesDropped` |
| `DependenciesFirst` | `TypeSorterProofs` | `Spec => []TopologicallySorted` |
| `NothingLost` | `TypeSorterProofs` | `Spec => []SameTypes` |
| `RefinesTypeOrder` | `TypeSorterProofs` | `Spec => ImplementsTypeOrder` |
| `CollectorTyped` | `ExportCollectorProofs` | `Spec => []TypeOK` |
| `NeverReentered` | `ExportCollectorProofs` | `Spec => []NoReentry` |
| `OneObjectPerType` | `ExportCollectorProofs` | `Spec => []OneObjectEach` |
| `ConversionIsFaithful` | `ExportCollectorProofs` | `Spec => []FaithfulConversion` |
| `ExportsAreFaithful` | `ExportCollectorProofs` | `Spec => []ExportsFaithful` |
| `LostIsOneRecord` | `ExportCollectorProofs` | `Spec => []AtMostOneLost` |
| `SetAgrees` | `ProtoFormatProofs` | `CatalogSpec => []SeqMatchesSet` |
| `OrderStays` | `ProtoFormatProofs` | `CatalogSpec => OrderKept` |
| `WrittenAsWhole` | `ProtoFormatProofs` | `Spec => []AllOrNothing` |
| `NumbersAreFaithful` | `ProtoFormatProofs` | `Spec => []NumbersArePositions` |
| `SubMessageTyped` | `PointerProofs` | `SubSpec => []TypeOK` |
| `ExactlyOneOwner` | `PointerProofs` | `SubSpec => []OneOwner` |
| `PointersSafe` | `PointerProofs` | `SubSpec => []PointersSound` |
| `NeverDeletedTwice` | `PointerProofs` | `SubSpec => []NoFault` |
| `LookupIsFaithful` | `ProtoFormatProofs` | `TableSpec => []LookupFaithful` |
| `SizeIsFaithful` | `ProtoFormatProofs` | `TableSpec => []SizeFaithful` |
| `TableIsFaithful` | `ProtoFormatProofs` | `TableSpec => []TableFaithful` |
| `EveryMemberReplaced` | `PointerProofs` | `Spec => []ReplacesEverywhere` |
| `EveryCallReplacesBelow` | `PointerProofs` | `Spec => []ReplacesBelow` |
| `NoVisitTwice` | `PointerProofs` | `Spec => []VisitedOnce` |
| `HeadersAreKnown` | `LaunchProofs` | `Spec => []HeadersKnown` |
| `EndsAreExplained` | `LaunchProofs` | `Spec => []EndsExplained` |
| `UserIsUndisturbed` | `LaunchProofs` | `Spec => []UserUndisturbed` |
| `NumbersArrive` | `ProtoFormatProofs` | `NumbersSpec => []NumbersKept` |
| `KindsArrive` | `ProtoFormatProofs` | `NumbersSpec => []KindsKept` |
| `OutputIsFaithful` | `AffcProofs` | `Spec => []OutputFaithful` |
| `OutputIsOrdered` | `AffcProofs` | `Spec => []OutputOrdered` |
| `RefinesBindings` | `AffcProofs` | `Spec => ImplementsBindings` |
| `MessagesStayTyped` | `MessageProofs` | `Spec => []MessagesInv` |
| `SizeIsRight` | `MessageProofs` | `Spec => []SizeIsBytes` |
| `ReadersAlike` | `MessageProofs` | `FileSpec => []ReadersAgree` |
| `CatalogsAreReadBack` | `ContentProofs` | `FileSpec => []WrittenIsRead` |
| `ClassesKeepPromise` | `ContentProofs` | `Spec => ImplementsMessages` |

The assumptions. `InputsAssumption`: a sorter is built from a sequence of types and a
sequence of dependencies for each of them; it need not hold its dependencies.
`ASTsAssumption` and `DeclsAssumption`: a type has a kind and as many parts as that kind has;
a record or an enumeration is declared without qualifiers, and the type of a record
declaration is a record (`getTypeForDecl` of clang). Types may refer to each other in any way, those that
no C declares included, with qualifiers of any sort, and there may be any number of them and of
declarations.
`UnitsAssumption` says the same (`Convertible`, `Declared`) of the units that `affc` is given;
`IdsAssumption`: clang knows finitely many types in a job, and there is a number for each of
them in each job, with and without fast qualifiers; `DepthAssumption`: the depth to which types are
compared is a number, any number.
`CatalogsAssumption`: the types of a catalog, and what each of them refers to, are types
that exist, and its exports are finite in number; it need not hold what its types refer to.
`HomeAssumption` and `NamesAssumption`: each message is on the heap or on an arena, and the
names of messages, arenas, the heap and the caller differ. `ExportsAssumption` and
`RangesAssumption`: a table is made of a sequence of exports.
`CallsAssumption`: when `replaceType` is called, every type that has `prevType` as a member has an
entry. `OneObjectEach` proves it of the types that the collector of the job has made; those of an
earlier job have no entry, and know no later type. Builtin types and enumerations have no members.
The types may be cyclic in any way. `PathsAssumption` and `TokensAssumption`: what `argv[0]` leads
to, what a deleted file is called and what a cut path is are paths; a command line is a sequence
of tokens of any length. `WidthsAssumption` and `DeclarationsAssumption`: a `size_t` is no narrower
than the field; the enumerators of one width have one type, signed or unsigned, whose numbers they
are; an array has as many elements as a `size_t` can say. The widths may be any.
`JunkAssumption`: what memory holds is some number. `SamplesAssumption` and `ValuesAssumption`:
the messages start with contents of their class, and a setter is called with what its type in C++
and the check of names allow, any 32-bit number, any text and any bytes included. A catalog that is
written is one of `Contents` (`CatalogsAssumption` of `CatalogFile`), of any size, and what
others write to the file are any bytes at all (`ForeignAssumption`).

*The sorter.* `KeptOrder` is far from inductive: it speaks of the end only. `IInv`
strengthens it to

* `GraphInv`: the graph has no cycle, and edges join only first occurrences (`IsRep`),
  since `getVertex` returns nothing else, for missing types neither;
* `Colors`: gray is on the stack, black is sorted, and nothing is there twice;
* `Chain`: each vertex of the stack got there by the last examined edge of the one below;
* `Settled`: the target of an examined edge is black or next on the stack;
* `TargetsFirst`: the targets of a sorted vertex are sorted before it;
* `RepsFirst`: a later occurrence of a type is only found as a root, when every vertex
  before it is finished;
* `Fresh`, `AllSorted`: the search before its beginning and after its end.

An edge back into the stack would close a cycle of `Chain` with the edge (`NoBackEdge`),
which `GraphInv` excludes: hence `Acyclic`. When the top of the stack finishes, all its
edges are examined, so by `Settled` all its targets are black: hence `TargetsFirst`.
`RepsFirst` then says that no later occurrence of a type can precede its first one,
which is what makes the order hold for the first occurrences, the ones
`Catalog::addType` keeps (`EdgeOrder`). There is one lemma per step of the search.

*The order.* What the loops leave behind is `DepInv`, next to `IInv`: the dependencies before
the cursors are handled (`HandledSoFar`): they have their edge, or the edge would close a
cycle; an edge stands for a dependency (`EdgesAreDeps`). Edges are only added, so what would
close a cycle once always will (`HandledStays`): hence `OnlyHopelessDropped`. A cycle that
stopped a dependency would be one of types (`CycleOfTypes`): in a closed list without cycles
every dependency has its edge, and `EdgeOrder` gives `DependenciesFirst`. `NothingLost` is the
bijection between positions of the result and of the list. The refinement maps a call to
`Give`, an added edge to `Keep`, a finished vertex to `Emit` unless its type is out already,
and everything else to no step; cycles of vertices and of types correspond because only first
vertices have edges (`NoCycleOfTypes`, `CycleIsOfTypes`), and a vertex whose type is not out
when it is finished is a first one by `RepsFirst`. What the rest of the program uses is
`AfterOrTogether`, which holds with cycles too: in a closed list a type comes after its
dependency, or the dependency leads back to it, because the cycle that an edge would have closed
is one of types (`GivenUpLeadsBack`).

*The converter and the collector.* The properties speak of moments when the stack is empty, or
of entries without saying who made them. `CollectorInv` ties the two together:

* `Typed`: the types of the variables, each call with an object that exists;
* `Chained`: every call on the stack was asked for by the one below it (`Asked`), the first one by
  the declaration, with a key that fits its branch (`WellCalled`), and what has been returned is a
  right answer (`Means`): an object that `Stands` for what was asked for;
* `Recorded`: a call that has made an object has entered it, and no two such calls have the
  same key;
* `Indexed`: a key has one entry, and an object got its own first (`OwnFirst`); any other entry of
  it was made for sugar that stands for it (`AliasOf`);
* `Shaped`: every entry has its shape or belongs to a call on the stack, whose object has the
  parts that were taken until now (`Built`). Under a key that is `Blurred` the object may be a
  `QualType` instead, the one that was converted first (`Right`);
* `Visited`, `Exported`: one declaration at a time, and an export for each one before;
* `OneDangling`: the entries that are dangling are all of the record whose redeclaration was
  exported last (`LastReplaced`).

`NeverReentered` follows from `Recorded`: a call begins only for a key that is not in the
container, and enters it before it asks for anything. When a call returns, `Built` is all of
the shape (`ShapedPop`). A redeclaration converts a type twice, and by `Indexed` the second
conversion can only repeat the answer of the first (`OneConversion`): `replaceType` then replaces
a type by itself (`ReplacedByItself`), so that objects stay as they are and only the marks of
the entries change. This is the divergence of "Forward declarations" above, and the reason why
`LostIsOneRecord` holds for any number of redeclarations. There is one lemma per action; the
actions that push and return share `StepPush` and `StepReturn`.

*The catalog.* The invariant is `SeqMatchesSet` itself with the types of the sequence.
`EraseShifts` says where erasing the only occurrence of a type leaves the others;
`EraseKeeps` that their order is the same; `StepKeeps` proves invariant and action
property together.

*The writer.* `AllOrNothing` speaks of the end, so `IInv` says what was done until now:
`TypesDone`, each message is the one of its position and everything it refers to is numbered;
`ExportsDone`, each export written is one of the catalog with its number; `Numbered`, the
numbers are those of the whole catalog before the first message; `Ended`, what let the writer
end. A reference without a number is one out of the catalog (`MissingKid`, `MissingExport`),
and at the end the exports and their messages are in bijection (`AllExported`). When no type
is listed twice, the first position of a type is its only one, so numbers are positions.

*Ownership.* None of the four properties is inductive by itself: what a deletion does to
the pointers of others depends on who else has the object. `OwnersInv` of `PointerProofs` says
where everything is:

* `Placed`: what exists was created somewhere, and not on an arena that is gone;
* `HandOwns`, `ArenaOwns`: the caller's and the arenas' objects exist, are of the heap, and
  no two have the same; an arena that is gone owns nothing;
* `BorrowedLives`: what was borrowed lives on an arena or is owned by one;
* `PointersFit`: a pointer leads to something that exists and fits the place of the message;
* `OnePointer`: no two messages, and no message and the caller, have the same pointer;
* `HomesExist`: a message that exists is on no arena that is gone, and one that does not
  exist points to nothing;
* `SomeOwner`: what is of the heap has an owner.

Uniqueness of the owner then follows from the first five. There is one step per action, and
the actions that create something share lemmas about `Allocate`.

*The table.* The invariant says what the map holds for each name: `NULL` if it was removed
or no export had it, and otherwise an export that comes first in the range, by the names of
when the table was made. Besides what `getExport` finds it says what `hasExport` and `removeExport`
have answered, the latter by what had been removed before the call (`removedThen`). That such a first one exists is the least number principle, from
the library's theorems. `size` counts the same set of names.

*The visitor.* `ReplacesEverywhere` speaks of the moment when `replaceType` returns, the visits
reach a type through any other, and members change under them. `IInv` of `PointerProofs` says

* `Given`: the input, and that what is visited is never `prevType`;
* `Half`: every member is as it was, or as it will be, and nothing else ever changes;
* `Visiting`: the visits under way are of different types, and the members before the one each is
  at are done for good;
* `Remaining`: a type that is not rewritten is being visited or has its entry still to come;
* `Reached`: what has been visited is rewritten or being visited, and what lies below it has been
  visited up to where the visit is.

A visit skips a type that was visited, which is only right because of `Reached`: either it
is finished, or a visit below in the stack will finish it. At the end nothing remains and the stack
is empty, so every type is rewritten: `ReplaceAll`, which is the effect that `ExportCollector`
takes the calls to have. `VisitGoesOn` is shared by the steps that end with a member passed.

*The start of `affc`.* `PathInv` has two parts: `Leading`, every real path is a place the program
was at, itself, or nothing, whatever changes; and `Naming`, what is in the buffer, and what
`executable_path` returns, is `Known`. `Ends` says for every state which exceptions there can be
and why. `UserUndisturbed` compares two readings of the driver, a recursion over the arguments:
`ReadSteps` shows that there is such a reading, by its least exception, and `UserRead` that
the reading of the whole goes through the same states as that of the user's own arguments, with
the four directories ahead (`Ahead`, `AheadStep`), up to the argument inserted last.

*Numbers.* `TypeRead` says what was read of clang so far and `TypeWritten` what was written of it, so
that at the end each number is `Int32(getLimitedValue(...))` of the declared one. What this is
for a given width is arithmetic of remainders: `Pow2Divides`, a power of two divides every
larger one, `RemainderOfSum`, and from these `EnumeratorArrives` (four cases: the number is
not negative and fits 64 bits, or does not; it is negative and its type is at most 64 bits wide,
or wider), `EnumeratorsDiffer` and `SizeArrives`. `SameOrder` compares the two enumerations of
primitive kinds.

*The composition.* What is known of the collector is known of one job, and it works on objects
that the jobs before have left. The lemmas of `ExportCollectorProofs` about single steps therefore
speak of a collector that finds `b` objects (`Since(b)`: every entry is of a later object, and every
later object has its own entry, `EnteredFirst`, and members that have one, `Filled`); its own specification is the case 0, and
`AffcProofs` has them from `INSTANCE`. The invariant has four parts:

* `Running`: the collector's invariant with some `b`, in every state of a job until it is sorted;
* `ExportsOnce`: an export of the catalog is of a job that has been collected, and a declaration
  has one in each;
* `Remembered`: for every such job there is a table from the `QualType`s of clang to objects
  (`Translated`) that gives each object its shape (`ShapeIn`) and each declaration the type of its
  export: what stood for what (`Stands`) by the container of the collector, which the next job
  clears. Later jobs only add objects, so a table
  stays true (`TranslatedStays`);
* `WriterInv`: a message says of its object what the object says, by the numbers of `CountMap`,
  and a number leads to the position of its type (`NumbersLead`).

At the end the table of a job, followed by the numbers, gives messages that have the kind and the
references that the unit asks for; by induction on the depth (`Upwards`, from the least number
principle) they are among those `Described`. `Described` is a recursive function, of which TLAPS
knows only that it is a function with such equations if there is one: `SequenceExists` makes it.

*The order of the output.* The sorter promises an order for a list that holds all dependencies,
and a list may lack some: a type whose entry is dangling is not kept. The catalog would then
lack it too, and nothing can be written. So `OrderInv` says

* between jobs `Fits`: either a type of the catalog has a member that exists and is not in the
  catalog (`Lacks`), or every type comes after its members, or they lead back to it
  (`Orderly`, `Leads`). An object made later is never the member of an earlier one
  (`NewKids`), so a member that is lacking stays so;
* while a job is collected and sorted, the same of the objects there were before it, and that the
  sorter was given new objects (`SortOf`), each of which has a number (`NewObjectsFit`: a job makes
  at most one object for each key, that is for each clang type with and without fast qualifiers, which is
  `IdsAssumption`);
* while its types are added, the same of the catalog and the sorted types together (`Adding`);
* throughout `TypesAgree`: the two containers of the catalog hold the same, each type once.

When something has been written every member has a number (`NothingLacks`), so the types
are in order; a number is the only position of its type (`NumberIs`), and where types lead
back, so do the messages (`MessagesLead`).

*What the program implements.* `AddExports` is `Analyse`, a job that fails is `Fail`, the last step of
the writer `Publish`, a type without a number `Refuse`, and every other step is none of `Bindings`
(`BoundStep`). Two parts of the invariant say when a unit may fail and the writer refuse:

* `Sounding`: the collector throws only for a unit that is not `Sound`. A set of types that is
  closed under their parts and has none of kind `other` holds the type of every call on the
  stack (`CallsCovered`, `TopCovered`), and the types that a collector has converted when it is done
  are such a set but for what hides below `Mixed` types (`CollectedIsCovered`), so that the unit is
  `Passable` (`PassableHolds`). And an entry is marked only if a record was redeclared
  (`Blamed`).
* `Complete`: if no job so far redeclares a record (`Blame`), the catalog has all objects, those of
  the job that is going on in the list of the sorter (`KeptHasAll`) or among the sorted types.

A type that the writer finds without a number is an object (`KidsKnown`, `Translated`), so by
`Complete` some record was redeclared (`MissingRefuses`).

*The message classes.* The tables of `ProtoClasses` come from a generator, and what could be wrong in
them is one entry of one table. The proofs therefore speak of any class and any member, and what
they need of the tables is said in a few lemmas, which expand them: what the kind, the tags and the
type in the descriptor of a member have to do with each other. The invariant of two messages and
any calls is `MessagesInv`: both messages are of their class (`Msgs`: each member holds what its kind
says, `Held`, on every level below; a cached size holds some number, since memory may hold
anything); and the size noted at the last write is the number of bytes. That every
function gives messages of the class is an induction over `Height`, from the classes with nothing below up to
`Catalog`. So is that `ByteSizeLong` is the length of what `Serialize` writes, for the array writer,
the stream writer and a mixture: the length of a concatenation is the sum of the lengths
(`FlattenLength`), the size of a varint the number of its groups, and both sums are taken over the
same members in two orders, that of the members and that of the fields: a sum does not change under a
permutation (`Permuted`). Messages below have their caches brought up to date by the same call, so what memory held
there before is never written.

*What is written is read.* `WrittenIsRead` speaks of a whole file, and of a file that was written more
than once. Both need a statement about pieces of bytes: `Yields(c, a, s, b)` says that a reader by the
descriptor who holds contents `a` of class `c` and goes on with the bytes `s`, whatever comes after
them, holds `b`. Pieces compose: `s` and then `t` yield what `t` yields from what `s` did
(`YieldsBoth`). A single field yields its value: a varint of ten bytes is read as the 64-bit number
it was written from, whose lower half is the number of the message (`VarintRead`), and the bytes of a
text or a packed member are those its length frames. The bytes of a message are those of its
members in the order of their numbers, and after the first `k` of them the reader holds
`MergedFor` of the members so far: a member below is read by the same statement one level down, and
a repeated one is an induction over its elements. So the bytes of `y` bring any contents `a` to `Merged`
of `a` and the contents of `y` (`ReadBack`), for `Catalog` by `Height`. The invariant of the file,
`WrittenInv`, is then that, as long as no write was cut and no one else wrote, the file yields the
catalogs written merged one after the other; `ReadersAlike` carries it over to the parser of the
class.

*What the classes promise.* `Messages` knows contents only, and what a call does to them comes from the
descriptor. Every function of `ProtoOps` is therefore compared with the one of `Messages`: what
`Clear`, `CopyFrom`, `MergeFrom`, `Swap`, a setter, the constructors and the parser leave behind has
the contents that `Messages` says, class by class in the order of `Height`. The tables of
`ProtoClasses` enter where they say which members a function takes: that each of them takes all. What
a message says is one function of its members (`Saying`), and a change of one member changes it
there (`FieldChange`). `PromiseInv` adds to `MessagesInv` that both messages say contents of their
class, and that the bytes written last are read by the descriptor as the content written, which is
`ReadBack` once more. Every call is then one of `Messages`: `Swap` gives each message what the other
says, with one arena and with two, and a message that is copied to itself keeps what it says.

*The two readers.* `ReadersAlike` compares the generated parser with the reader that has only the
descriptor. Both loops run over `Fields(file)`, of any bytes. As long as the second
refuses nothing, the first has not failed or stopped, and its message says what the other has read
(`Tells`). A turn keeps this: a tag that the parser has an
entry for means the field of that name and conversely, below the cutoff; the two ways to read a field
make the same of its bytes; an unknown field is dropped by both; the end of a group, a tag without a
number and bytes that end too soon are refused by both. For a message below it is the same statement
one level further down. The invariant of the file is that it holds bytes, with `ReadersAgree` itself.

The work on these proofs corrected the model twice: an explicit zero in the bytes
overwrites what was read before, which an earlier `Decode` had merged as if it were absent; and the
number 0 is refused as the number of a field.

The type invariants of the sorter and of `SubMessage`, and that of the messages, are proved and in no
run.

Only model-checked: that `affc` exits; that a file that was cut makes nothing up
(`CutInventsNothing`); all liveness, which is out of the prover's reach together with `ENABLED`.

## 5. Not modelled, and why

* The set-up of clang, its driver and parser: external; the model starts from
  translation units it may hand over.
* Names: carried along unchanged.
* Of the message classes: strings that are handed over by pointer (`set_allocated_name`), the
  default instances and their one-time initialisation, reflection and descriptors as objects.
  Two writers within one message that mix packed and unpacked `paramType`: the reader of the
  library looks ahead there. Groups, which no version of the descriptor has.
* `removeDanglingTypes` of the catalog: its body is empty.
* `list.cpp` is not built, `null.cpp` is empty; vendored assets, tests and build files have no
  behaviour of the program.

## 6. Plan

Done: `TypeSorter` with its proofs, that it implements `TypeOrder` included; `TypeConverter`
and `ExportCollector` with their proofs; `Replace`, `Catalog`, `ProtoFormat`, `Numbers` and `Launch` with their
proofs; `Affc` with `NameCollector`, with the proofs that its output is faithful and in order and
that it implements `Bindings`; the message classes with `Messages`, with the proofs that sizes are
right and that they implement `Messages`; `CatalogFile`, with the proofs that the readers agree and that
what is written is read; `SubMessage` and `SymbolTable` with their
proofs.

Left: more of clang's input in `collector` (redeclared typedefs and functions, two qualifiers,
function types without a prototype).
