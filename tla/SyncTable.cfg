CONSTANTS
  Threads = {t1, t2, t3}
  Words = {a, b}
  NoThread = NoThread
  NoWord = NoWord
  MaxDepth = 2
SYMMETRY Symmetry
SPECIFICATION Spec
INVARIANTS NoDanglingEntry CountersExact RealtimeBroadcastReleases
PROPERTY HeldObjectSurvives
CHECK_DEADLOCK FALSE
