CONSTANTS
  Threads = {t1, t2}
  Objects = {o1, o2}
  Handles = {h1, h2}
  Nobody = Nobody
  Null = Null
  MaxFrames = 2
  MaxPins = 1
  MaxHolds = 1
SYMMETRY Symmetry
SPECIFICATION Spec
INVARIANTS
  NothingDangles
  HeapExact
  FramesExact
PROPERTY LocalsPrivate
CHECK_DEADLOCK FALSE
