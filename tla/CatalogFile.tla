----------------------------- MODULE CatalogFile -----------------------------
(*****************************************************************************)
(* Format::write and Format::read of src/ProtoFormat.cpp with their three    *)
(* formats: catalogs go to a stream as protocol buffers, which a file keeps, *)
(* and a reader reads the file.  A write may be cut at any byte (the result  *)
(* of SerializeToOstream is ignored), the stream is then bad, and the file   *)
(* may have been written by others, with a later version of the descriptor.  *)
(*****************************************************************************)
EXTENDS ProtoOps

CONSTANTS
  Catalogs,  \* the contents that are written
  Foreign,   \* what other writers append to the file
  MaxWrites  \* how often anything is written, by others too

ASSUME CatalogsAssumption == Catalogs \subseteq Contents("Catalog")
ASSUME ForeignAssumption == Foreign \subseteq Seq(Byte)

VARIABLES
  file,     \* the bytes behind the stream `out`
  bad,      \* the stream has failed
  writes,   \* the contents written as protocol buffers, the last one perhaps in part
  foreign,  \* others have written to the file
  printed,  \* the documents on std::cout and std::cerr: [on, catalog, content]
  result    \* how reading the file went, in a sequence of one: [ok, content]

fileVars == <<file, bad, writes, foreign, printed, result>>

FileInit ==
  /\ file = << >> /\ bad = FALSE /\ writes = << >> /\ foreign = FALSE
  /\ printed = << >> /\ result = << >>

Unread ==
  /\ result = << >>
  /\ Len(writes) + Len(printed) + (IF foreign THEN 1 ELSE 0) < MaxWrites

\* case PROTOBUF: of the bytes, cut reach the stream; a bad stream takes none.
\* The runtime writes no message of more than MaxInt bytes.
WriteProtobuf(c, mode, junk) ==
  /\ Unread
  /\ \E bytes \in {SerializeToOstream("Catalog", Build("Catalog", c, junk), mode)} :
         /\ Len(bytes) <= MaxInt
         /\ \E cut \in IF bad THEN {0} ELSE 0 .. Len(bytes) :
              /\ file' = file \o SubSeq(bytes, 1, cut)
              /\ bad' = (bad \/ cut < Len(bytes))
  /\ writes' = IF bad THEN writes ELSE Append(writes, c)
  /\ UNCHANGED <<foreign, printed, result>>

\* case JSON: MessageToJsonString decodes the bytes of the message by the
\* descriptor; the document goes to std::cout, whatever `out` is.
WriteJson(c, junk) ==
  /\ Unread
  /\ \E bytes \in {SerializeToOstream("Catalog", Build("Catalog", c, junk), "array")} :
         /\ Len(bytes) <= MaxInt
         /\ printed' = Append(printed, [on |-> "cout", catalog |-> c,
                                        content |-> Decode("Catalog", bytes).content])
  /\ UNCHANGED <<file, bad, writes, foreign, result>>

\* case DEBUGSTR: DebugString reads the message by reflection.
WriteDebugString(c, junk) ==
  /\ Unread
  /\ printed' = Append(printed, [on |-> "cerr", catalog |-> c,
                                 content |-> Content("Catalog", Build("Catalog", c, junk))])
  /\ UNCHANGED <<file, bad, writes, foreign, result>>

WriteForeign(bytes) ==
  /\ Unread /\ ~ bad /\ ~ foreign
  /\ file' = file \o bytes
  /\ foreign' = TRUE
  /\ UNCHANGED <<bad, writes, printed, result>>

\* Format::read: an exception unless ParseFromIstream succeeds; the catalog of
\* the caller stays as it is either way.
ReadFile(junk) ==
  /\ result = << >>
  /\ \E r \in {ParseFromIstream("Catalog", New("Catalog", junk), file, junk)} :
       result' = << [ok |-> r.ok, content |-> Content("Catalog", r.msg)] >>
  /\ UNCHANGED <<file, bad, writes, foreign, printed>>

FileNext ==
  \E junk \in Junk :
    \/ \E c \in Catalogs :
         \/ \E mode \in {"stream", "array"} : WriteProtobuf(c, mode, junk)
         \/ WriteJson(c, junk)
         \/ WriteDebugString(c, junk)
    \/ \E bytes \in Foreign : WriteForeign(bytes)
    \/ ReadFile(junk)

FileSpec == FileInit /\ [][FileNext]_fileVars

-------------------------------------------------------------------------------
(* Properties.                                                               *)

\* All contents written, merged.
Everything ==
  LET merged[k \in 0 .. Len(writes)] ==
        IF k = 0 THEN Empty("Catalog") ELSE Merged("Catalog", merged[k - 1], writes[k])
  IN  merged[Len(writes)]

\* A file that was written whole is read without an exception and says what
\* was written; a file that holds several catalogs, written one after the
\* other, reads as the catalog that has the types and exports of them all.  The
\* documents of the other formats, JSON for generators of bindings, say what the
\* catalog says.
WrittenIsRead ==
  /\ result # << >> /\ ~ bad /\ ~ foreign =>
       result[1].ok /\ result[1].content = Everything
  /\ \A k \in 1 .. Len(printed) : printed[k].content = printed[k].catalog

\* The reader of Format::read and a reader that has the descriptor only agree
\* about every file the latter accepts: with fields of later versions, with
\* parameter types that are not packed, with fields in any order.
ReadersAgree ==
  result # << >> =>
    LET d == Decode("Catalog", file)
    IN  d.ok => result[1].ok /\ result[1].content = d.content

\* What a content x says is part of what y says, where Sub says so of the messages
\* below: a list is a beginning, whose last element may itself be a part, and
\* everything else is equal or absent.
PartBy(Sub(_, _, _), c, x, y) ==
  \A n \in FieldNames(c) :
    LET f == Schema[c][n]
    IN  IF IsMessage(f) \/ f.repeated
        THEN /\ Len(x[n]) <= Len(y[n])
             /\ \A k \in 1 .. Len(x[n]) :
                  x[n][k] = y[n][k] \/ (IsMessage(f) /\ k = Len(x[n]) /\ Sub(f.type, x[n][k], y[n][k]))
        ELSE x[n] \in {y[n], Absent(f)}

PartFlat(c, x, y) == PartBy(LAMBDA d, a, b : FALSE, c, x, y)
PartHigh(c, x, y) == PartBy(PartFlat, c, x, y)
PartHigher(c, x, y) == PartBy(PartHigh, c, x, y)
PartOf(c, x, y) == PartBy(PartHigher, c, x, y)

\* A file whose last write was cut, be it in the middle of a message below
\* another one, is refused or reads as a part of what was written: no number
\* and no name is made up from half of its bytes.  (Between two fields of any
\* depth a cut is not noticed, and the part is read without an exception.)
CutInventsNothing ==
  result # << >> /\ bad /\ ~ foreign /\ result[1].ok =>
    PartOf("Catalog", result[1].content, Everything)
===============================================================================
