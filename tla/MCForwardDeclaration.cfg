CONSTANTS
  R = R
  Q = Q
  P = P
  S = S
  F = F
  B = B
  X = X
  ClangTypes <- AllTypes
  ASTs <- ForwardASTs
SPECIFICATION Spec
INVARIANTS
  ExportedTypesListed
