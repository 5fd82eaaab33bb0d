SYMMETRY Symmetry
CONSTANTS
  Threads = {t1, t2, t3}
  Objects = {o}
  Nobody = Nobody
  Nothing = Nothing
  MaxEntries = 3
  MaxNatives = 1
  MonitorMax = 2
SPECIFICATION Spec
INVARIANTS MonitorsExact HeapOutlivesThreads
PROPERTIES CollectsAtBoundary DestroyWaits
CHECK_DEADLOCK FALSE
