SPECIFICATION FairSpec
CONSTANTS
  PageSize = 4
  KBPerPage = 2
  CreationPages = 4
  NPages = 22
  MapAt = {7, 11, 15, 19}
  SlotsPerPage = 9
  SIZE_MOD = 256
  PROTECT_FREE <- Unlimited
  MAX_ALLOC <- Unlimited
  MALLOC_0_STRATEGY = 3
  NEW_0_STRATEGY = 3
  MALLOC_FAILEXIT = TRUE
  ALIGNMENT = 4
  MmapMayFail = FALSE
  MunmapMayFail = FALSE
  PointerSize = 4
  UserTypes = {"MALLOC"}
  Sizes = {0, 5}
  Alignments = {}
  ProtectBelow = {FALSE}
  MaxCalls = 4
INVARIANTS
  TypeOK
  SlotsDisjoint
  PagesOwned
  TableOpen
  SlotAccounting
  NoInternalError
  HeapInv
PROPERTIES
  ImplementsHeap
