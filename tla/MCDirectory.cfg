CONSTANTS
  R = R
  Q = Q
  P = P
  S = S
  F = F
  B = B
  X = X
  ClangTypes <- AllTypes
  JobLists <- OneJob
  Filters <- Directory
  ObjectIds <- EnoughIds
  Depth = 8
SPECIFICATION Spec
INVARIANTS
  IncludedExported
