CONSTANTS
  Types = {t1, t2, t3, t4}
  Exports = {e1, e2, e3}
  Entries = {e1, e2, e3}
  Names = {"a", "b"}
  NULL = NULL
  Ranges <- MCRanges
  Ordered = 1
  N = 2
  Catalogs <- SmallCatalogs
  IntBits = 3
  LongBits = 6
  Declarations <- MCDeclarations
SPECIFICATION MCSpec
INVARIANTS
  SeqMatchesSet
  TableFaithful
  AllOrNothing
  NumbersArePositions
  NumbersKept
  KindsKept
PROPERTIES
  OrderKept
