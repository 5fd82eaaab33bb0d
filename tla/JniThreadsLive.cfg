CONSTANTS
  Threads = {t1, t2}
  Objects = {o}
  Nobody = Nobody
  Nothing = Nothing
  MaxEntries = 3
  MaxNatives = 1
  MonitorMax = 2
SPECIFICATION FairSpec
PROPERTIES DestroyReleasesWaiters DestroyCompletes
CHECK_DEADLOCK FALSE
