CONSTANTS
  Threads = {t1, t2}
  Nobody = Nobody
  Page = 2
  Space = 4
  MaxLength = 6
  MaxOffset = 4
  Lengths = {1, 3, 6}
  Kinds <- MCKinds
  MaxName = 2
  Objects = {1, 2}
  Arrays = {1}
  Attribs = {0}
  Paths = {"a", "b"}
  Inside = {}
  Drive <- MCDrive
  Attempts = 1
  MaxBackups = 2
  Full = {"f"}
  Made <- MCMade
  SettingsPaths = {"prefs", "temp"}
  SettingsDrive <- MCSettingsDrive
  SettingsAttempts = 2
  SettingsBackups = 3
  Keys = {"k", "l"}
  Values = {"v"}
  MaxEntries = 2
  MaxSaves = 3
  Fds = {1, 2}
  Descs = {1, 2}
  Uids = {1, 2}
  Entries = 1
  Opens <- MCOpens
  Cloexecs = {0}
  Disk <- MCDisk
  Fold <- MCFold
  Probes = {"A"}
  Slots = {1, 2}
  MaxNames = 2
  Length = 1
  MaxSerial = 4
  Classes = {"base", "mid", "leaf"}
  NoClass = "no class"
  Super <- MCSuper
  Procs = {"f"}
  Statics = {TRUE, FALSE}
  Games <- MCGames
  MaxTries = 3
  Channels = {0, 1}
  Feeds = {1, 2, 3}
  NoFeed = 0
  Loops = {TRUE}
SYMMETRY Symmetry
SPECIFICATION Spec
INVARIANTS
  BuffersTracked
  NothingLost
  MapsAccounted
  DescriptorsSound
  AssetsFound
  CallsReachOverride
  GameFreedOnce
  FeedsAccounted
PROPERTIES
  MeaningKept
CHECK_DEADLOCK FALSE
