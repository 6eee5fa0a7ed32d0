SPECIFICATION Spec
CONSTANTS
  Parts = {"env"}
  Threads = {t1, t2}
  NewThreads = {t1, t2}
  Ops = {"malloc", "free", "check", "usable_size", "delFrame"}
  Alone = {"usable_size", "delFrame"}
  Sites = {s1, s2}
  Unknown = Unknown
  Capacity = 1
  MaxTables = 3
  MaxCalls = 2
  DUMA_MAX_DEL_DEPTH = 3
  MaxNesting = 3
  MaxDeletes = 3
  MaxStack = 10
  MaxBlocks = 2
  PageSize = 4
  KBPerPage = 1
  CreationPages = 4
  CHECK_FREQ = 2
  Slots = {1, 2}
  MaxSteps = 5
  MemSize = 4
  Chars = {0, 1, 2}
  LONG_MAX = 15
  MIN_ALIGNMENT = 8
  Reserve = 2
  MaxNews = 2
  MaxDepth = 6
  Beyond = 10
  Configs <- SomeConfigs
  Requests <- SomeRequests
  Numbers <- SomeNumbers
  Patterns <- SomePatterns
  Environments <- SomeEnvironments
  Platforms <- SomePlatforms
  OptionSets <- SomeOptionSets
  MapFiles <- SomeMapFiles
  Stacks <- SomeStacks
  BufferSizes <- SomeBufferSizes
  MinBuffer = 10
  ErrorSize = 8
INVARIANT
  AsDocumented
CHECK_DEADLOCK FALSE
