CONSTANTS
  Threads = {t1, t2}
  Words = {a, b}
  NoThread = NoThread
  NoWord = NoWord
  MaxDepth = 2
SYMMETRY Symmetry
SPECIFICATION Spec
INVARIANT BroadcastReleases
CHECK_DEADLOCK FALSE
