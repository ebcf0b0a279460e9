SPECIFICATION MCSpec
CONSTANTS
  Samples <- MCSamples
  Values <- MCValues
  Junk <- MCJunk
  MaxCalls <- MCMaxCalls
  Catalogs <- MCCatalogs
  Foreign <- MCForeign
  MaxWrites = 2
INVARIANTS
  SizeIsBytes
  WrittenIsRead
  ReadersAgree
  CutInventsNothing
PROPERTY ImplementsMessages
CHECK_DEADLOCK FALSE
