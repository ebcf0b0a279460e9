CONSTANTS
  R = R
  Q = Q
  P = P
  S = S
  F = F
  B = B
  X = X
  ClangTypes <- AllTypes
  JobLists <- AnyJobs
  Filters <- SmallFilters
  ObjectIds <- EnoughIds
  Depth = 8
SPECIFICATION FairSpec
INVARIANTS
  OutputFaithful
  OutputOrdered
PROPERTIES
  ImplementsBindings
  AlwaysExits
