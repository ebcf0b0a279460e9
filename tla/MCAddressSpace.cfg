CONSTANTS
  R = R
  Q = Q
  P = P
  S = S
  F = F
  B = B
  X = X
  ClangTypes <- AllTypes
  ASTs <- AddressSpaceASTs
SPECIFICATION Spec
INVARIANTS
  NoQualifiersNoQualType
