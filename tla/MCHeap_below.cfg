SPECIFICATION FairSpec
CONSTANTS
  PageSize = 4
  KBPerPage = 2
  CreationPages = 4
  NPages = 16
  MapAt = {8, 12}
  SlotsPerPage = 11
  SIZE_MOD = 64
  PROTECT_FREE = 7
  MAX_ALLOC <- Unlimited
  MALLOC_0_STRATEGY = 3
  NEW_0_STRATEGY = 3
  MALLOC_FAILEXIT = TRUE
  ALIGNMENT = 4
  MmapMayFail = FALSE
  MunmapMayFail = FALSE
  PointerSize = 4
  UserTypes = {"MALLOC"}
  Sizes = {5}
  Alignments = {8}
  ProtectBelow = {TRUE}
  MaxCalls = 4
INVARIANT
  EveryBufferGuarded
