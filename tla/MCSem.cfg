SPECIFICATION FairSpec
CONSTANTS
  Threads = {t1, t2, t3}
  Nobody = Nobody
  MaxDepth = 3
  MaxGets = 3
INVARIANTS
  TypeOK
  MutualExclusion
  NeverAborts
  SemInv
PROPERTIES
  ImplementsLock
  CallsReturn
