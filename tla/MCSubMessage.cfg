SPECIFICATION SubSpec
CONSTANTS
  h1 = h1
  h2 = h2
  h3 = h3
  h4 = h4
  a1 = a1
  a2 = a2
  v1 = v1
  v2 = v2
  v3 = v3
  v4 = v4
  v5 = v5
  Holders = {h1, h2, h3, h4}
  Objects = {v1, v2, v3, v4, v5}
  Arenas = {a1, a2}
  Heap = Heap
  NULL = NULL
  Unused = Unused
  Caller = Caller
  Home <- MCHome
SYMMETRY Symmetry
INVARIANTS
  OneOwner
  PointersSound
  NoFault
CHECK_DEADLOCK FALSE
