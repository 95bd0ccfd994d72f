CONSTANTS
  t1 = t1
  t2 = t2
  noBlock = noBlock
  noThread = noThread
  Blocks <- ThreeEachBlocks
  Genesis = 0
  Parent <- ThreeEach
  Ancestors <- ThreeEachAncestors
  Work <- ThreeEachWork
  Addr <- ThreeEachAddr
  BadContext = {}
  BadConnect = {}
  Threads = {t1, t2}
  NoBlock = noBlock
  NoThread = noThread
  Keep = 1
  ManualOps = {}
  MaxManual = 0
  MaxPrune = 0
SPECIFICATION Spec
CHECK_DEADLOCK FALSE
INVARIANTS
  BestChainIsActive
