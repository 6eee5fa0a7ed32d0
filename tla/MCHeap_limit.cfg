SPECIFICATION FairSpec
CONSTANTS
  PageSize = 4
  KBPerPage = 2
  CreationPages = 4
  NPages = 14
  MapAt = {7, 11}
  SlotsPerPage = 9
  SIZE_MOD = 64
  PROTECT_FREE = 7
  MAX_ALLOC = 10
  MALLOC_0_STRATEGY = 3
  NEW_0_STRATEGY = 3
  MALLOC_FAILEXIT = FALSE
  ALIGNMENT = 4
  MmapMayFail = TRUE
  MunmapMayFail = TRUE
  PointerSize = 4
  UserTypes = {"MALLOC", "NEW_ELEM"}
  Sizes = {5}
  Alignments = {}
  ProtectBelow = {FALSE, TRUE}
  MaxCalls = 4
INVARIANTS
  GuardPages
  FreedHidden
  ProtectedBounded
PROPERTIES
  LiveUntouched
  CallEnds
  ImplementsHeap
