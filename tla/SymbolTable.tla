------------------------------ MODULE SymbolTable -----------------------------
(*****************************************************************************)
(* SymbolTable of include/AutoFFI/SymbolTable.h and src/SymbolTable.cpp: the *)
(* exports of a catalog by their names.  The table keeps copies of the       *)
(* names, and the exports, whose names are public, live on outside.          *)
(*****************************************************************************)
EXTENDS Integers, FiniteSets, Sequences

CONSTANTS
  Entries,     \* the autoffi::Export objects that may be in a table
  Names, NULL,
  Ranges       \* the sequences of exports that tables are made of

ASSUME ExportsAssumption == NULL \notin Entries
ASSUME RangesAssumption == Ranges \subseteq Seq(Entries)

VARIABLES
  name,        \* the name of each export
  range,       \* what the table was made of
  namesThen,   \* the names of the exports when it was made
  removed,     \* the names removed since
  removedThen, \* those that had been removed when the last call was made
  table,       \* std::map: from names to exports; NULL where there is no entry
  made,        \* there is a table
  call, result \* the last call, and what it returned

tableVars == <<name, range, namesThen, removed, removedThen, table, made, call, result>>

TableInit ==
  /\ name \in [Entries -> Names] /\ namesThen = name
  /\ range \in Ranges /\ removed = {} /\ removedThen = {}
  /\ table = [n \in Names |-> NULL] /\ made = FALSE
  /\ call = [op |-> "none"] /\ result = NULL

-------------------------------------------------------------------------------

\* emplace keeps an entry that is there: the first export of a name stays.
\* Wrong variant: table[ex->name] = ex.
LastOf(s, n) ==
  IF \E k \in 1 .. Len(s) : name[s[k]] = n
  THEN s[CHOOSE k \in 1 .. Len(s) : name[s[k]] = n /\ \A m \in k + 1 .. Len(s) : name[s[m]] # n]
  ELSE NULL
FirstOf(s, n) ==
  IF \E k \in 1 .. Len(s) : name[s[k]] = n
  THEN s[CHOOSE k \in 1 .. Len(s) : name[s[k]] = n /\ \A m \in 1 .. k - 1 : name[s[m]] # n]
  ELSE NULL

Construct ==
  /\ ~ made /\ made' = TRUE
  /\ table' = [n \in Names |-> FirstOf(range, n)]
  /\ namesThen' = name
  /\ call' = [op |-> "construct"] /\ result' = NULL /\ removedThen' = removed
  /\ UNCHANGED <<name, range, removed>>

Keys == {n \in Names : table[n] # NULL}

size ==
  /\ made
  /\ call' = [op |-> "size"] /\ result' = Cardinality(Keys) /\ removedThen' = removed
  /\ UNCHANGED <<name, range, namesThen, removed, table, made>>

hasExport(n) ==
  /\ made
  /\ call' = [op |-> "has", name |-> n] /\ result' = (n \in Keys) /\ removedThen' = removed
  /\ UNCHANGED <<name, range, namesThen, removed, table, made>>

\* NULL where it throws "could not find export for symbol".
getExport(n) ==
  /\ made
  /\ call' = [op |-> "get", name |-> n] /\ result' = table[n] /\ removedThen' = removed
  /\ UNCHANGED <<name, range, namesThen, removed, table, made>>

\* Wrong variant: erase is taken to succeed.
removeNameAnyway(n) ==
  /\ made
  /\ call' = [op |-> "remove", name |-> n] /\ result' = TRUE /\ removedThen' = removed
  /\ table' = [table EXCEPT ![n] = NULL]
  /\ removed' = removed \cup {n}
  /\ UNCHANGED <<name, range, namesThen, made>>

\* SymbolTable::removeExport.
removeName(n) ==
  /\ made
  /\ call' = [op |-> "remove", name |-> n] /\ result' = (n \in Keys) /\ removedThen' = removed
  /\ table' = [table EXCEPT ![n] = NULL]
  /\ removed' = removed \cup {n}
  /\ UNCHANGED <<name, range, namesThen, made>>

\* Somebody gives an export another name; the table is not told.
Rename(ex, n) ==
  /\ name[ex] # n /\ name' = [name EXCEPT ![ex] = n]
  /\ UNCHANGED <<range, namesThen, removed, removedThen, table, made, call, result>>

TableNext ==
  \/ Construct \/ size
  \/ \E n \in Names : hasExport(n) \/ getExport(n) \/ removeName(n)
  \/ \E ex \in Entries, n \in Names : Rename(ex, n)

TableSpec == TableInit /\ [][TableNext]_tableVars

-------------------------------------------------------------------------------
(* Properties.                                                               *)

\* Where an export of the name n comes first in the range, by the names of then.
Leads(k, n) ==
  k \in 1 .. Len(range) /\ namesThen[range[k]] = n /\ \A m \in 1 .. k - 1 : namesThen[range[m]] # n

\* Whatever is looked up, removed and renamed meanwhile, getExport answers with
\* the export that came first under the name when the table was made, and
\* throws for a name that none had or that was removed.
LookupFaithful ==
  call.op = "get" =>
    IF result = NULL
    THEN call.name \in removed \/ \A k \in 1 .. Len(range) : namesThen[range[k]] # call.name
    ELSE call.name \notin removed /\ \E k \in 1 .. Len(range) : Leads(k, call.name) /\ result = range[k]

\* The operations agree with each other: the size is the number of names that
\* getExport would find, and that were not removed.
SizeFaithful ==
  call.op = "size" => result = Cardinality({namesThen[range[k]] : k \in 1 .. Len(range)} \ removed)

\* The table has the names that getExport would find.
HasFaithful ==
  call.op = "has" =>
    result = (call.name \notin removed /\ \E k \in 1 .. Len(range) : namesThen[range[k]] = call.name)

\* removeExport says whether there was something to remove: it says yes to a name
\* once, and never to one that no export had, whoever has the name by now.
RemoveFaithful ==
  call.op = "remove" =>
    result = (call.name \notin removedThen /\ \E k \in 1 .. Len(range) : namesThen[range[k]] = call.name)

\* Every answer of the table is about the exports it was made of and the names
\* they had then, less the ones removed.
TableFaithful == LookupFaithful /\ SizeFaithful /\ HasFaithful /\ RemoveFaithful
===============================================================================
