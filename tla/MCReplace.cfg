CONSTANTS
  Calls <- SmallCalls
SPECIFICATION FairSpec
INVARIANTS
  ReplacesEverywhere
  ReplacesBelow
  VisitedOnce
PROPERTIES
  Termination
