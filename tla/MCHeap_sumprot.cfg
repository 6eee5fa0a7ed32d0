SPECIFICATION FairSpec
CONSTANTS
  PageSize = 4
  KBPerPage = 2
  CreationPages = 4
  NPages = 18
  MapAt = {7, 11, 15}
  SlotsPerPage = 11
  SIZE_MOD = 64
  PROTECT_FREE = 8
  MAX_ALLOC = 1
  MALLOC_0_STRATEGY = 3
  NEW_0_STRATEGY = 3
  MALLOC_FAILEXIT = TRUE
  ALIGNMENT = 4
  MmapMayFail = FALSE
  MunmapMayFail = FALSE
  PointerSize = 4
  UserTypes = {"MALLOC"}
  Sizes = {5}
  Alignments = {}
  ProtectBelow = {FALSE}
  MaxCalls = 5
INVARIANT
  SumProtectedExact
