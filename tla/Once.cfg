CONSTANTS
  a = a
  b = b
  Threads = {t1, t2, t3}
  Controls <- MCControls
  NoControl = NoControl
  MayNest <- MCMayNest
SPECIFICATION FairSpec
INVARIANT TableExact
PROPERTIES Implements WaitersReturn
CHECK_DEADLOCK FALSE
