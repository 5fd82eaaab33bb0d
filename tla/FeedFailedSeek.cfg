CONSTANTS
  Threads = {t1, t2}
  NoThread = NoThread
  Length = 3
  MaxTarget = 4
  BlockFrames = 2
  Blocks = 2
  Prime = 1
  MaxRead = 2
SYMMETRY Symmetry
SPECIFICATION Spec
PROPERTY FailedSeekKeepsPlace
CHECK_DEADLOCK FALSE
