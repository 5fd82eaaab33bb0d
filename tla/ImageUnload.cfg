CONSTANTS
  libA = libA
  libB = libB
  lock1 = lock1
  mutex1 = mutex1
  call1 = call1
  call2 = call2
  Guest = {g1, g2}
  Lock = {lock1}
  Image = {libA, libB}
  HasHooks = {libA}
  Mutex = {mutex1}
  Callback = {call1, call2}
  LocksOf <- MCLocksOf
  MutexesOf <- MCMutexesOf
  CodeOf <- MCCodeOf
  DsoOf <- MCDsoOf
  MaxLibrary = 2
  Segments = 1
  MaxHandles = 2
  MaxLoads = 1
  MaxUses = 3
SYMMETRY Symmetry
SPECIFICATION Spec
INVARIANTS
  NothingDangles
  EntriesOutliveUsers
  OpenMeansWhole
PROPERTY CleanedBeforeUnmap
CHECK_DEADLOCK FALSE
