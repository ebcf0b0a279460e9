CONSTANTS
  Types = {1, 2, 3}
  MaxList = 4
  MaxDeps = 2
  Inputs <- AnyInput
SPECIFICATION FairSpec
INVARIANTS
  NeverNotADag
  KeptOrder
  SameTypes
  OnlyCyclesDropped
  TopologicallySorted
PROPERTIES
  ImplementsTypeOrder
  Termination
