SPECIFICATION FairSpec
CONSTANTS
  PageSize = 4
  KBPerPage = 2
  CreationPages = 4
  NPages = 14
  MapAt = {7, 11}
  SlotsPerPage = 9
  SIZE_MOD = 64
  PROTECT_FREE = 0
  MAX_ALLOC <- Unlimited
  MALLOC_0_STRATEGY = 2
  NEW_0_STRATEGY = 0
  MALLOC_FAILEXIT = TRUE
  ALIGNMENT = 2
  MmapMayFail = FALSE
  MunmapMayFail = FALSE
  PointerSize = 4
  UserTypes = {"MALLOC", "NEW_ELEM"}
  Sizes = {0, 5}
  Alignments = {6, 8}
  ProtectBelow = {FALSE}
  MaxCalls = 4
INVARIANTS
  GuardPages
PROPERTIES
  ImplementsHeap
