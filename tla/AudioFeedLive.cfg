CONSTANTS
  Threads = {t1}
  NoThread = NoThread
  Length = 2
  MaxTarget = 3
  BlockFrames = 1
  Blocks = 2
  Prime = 2
  MaxRead = 1
SPECIFICATION FairSpec
PROPERTIES CallersReturn NeverStalls
CHECK_DEADLOCK FALSE
