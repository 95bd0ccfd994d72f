CONSTANTS
  t1 = t1
  t2 = t2
  noBlock = noBlock
  noThread = noThread
  Blocks <- ThreeEachBlocks
  Genesis = 0
  Parent <- ThreeEach
  Ancestors <- ThreeEachAncestors
  Work <- ThreeEachWork
  Addr <- ThreeEachAddr
  BadContext = {}
  BadConnect = {2}
  Threads = {t1, t2}
  NoBlock = noBlock
  NoThread = noThread
  Keep = 1
  ManualOps = {}
  MaxManual = 0
  MaxPrune = 0
SPECIFICATION FairSpec
CHECK_DEADLOCK FALSE
INVARIANTS
  LinkedIffAncestorsProcessed
PROPERTIES
  CandidateKeysStable
  ActivationReturns
