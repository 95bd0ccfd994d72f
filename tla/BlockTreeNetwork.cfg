CONSTANTS
  t1 = t1
  t2 = t2
  noBlock = noBlock
  noThread = noThread
  Blocks <- HeavyEndBlocks
  Genesis = 0
  Parent <- HeavyEnd
  Ancestors <- HeavyEndAncestors
  Work <- HeavyEndWork
  Addr <- HeavyEndAddr
  BadContext = {8}
  BadConnect = {7}
  Threads = {t1}
  NoBlock = noBlock
  NoThread = noThread
  Keep = 2
  ManualOps = {}
  MaxManual = 0
  MaxPrune = 2
SPECIFICATION Spec
CHECK_DEADLOCK FALSE
INVARIANTS
  FailedHasInvalidAncestor
  UnlinkedExact
  BestChainIsActive
PROPERTIES
  WorkLostOnlyToInvalid
