CONSTANTS
  R = R
  Q = Q
  P = P
  S = S
  F = F
  B = B
  X = X
  ClangTypes <- AllTypes
  ASTs <- SmallASTs
SPECIFICATION FairSpec
INVARIANTS
  TypeOK
  FaithfulConversion
  OneObjectEach
  NoReentry
  ExportsFaithful
  AtMostOneLost
PROPERTIES
  Termination
