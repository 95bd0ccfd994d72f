CONSTANTS
  t1 = t1
  t2 = t2
  noBlock = noBlock
  noThread = noThread
  Blocks <- SharedRootBlocks
  Genesis = 0
  Parent <- SharedRoot
  Ancestors <- SharedRootAncestors
  Work <- SharedRootWork
  Addr <- SharedRootAddr
  BadContext = {}
  BadConnect = {4}
  Threads = {t1}
  NoBlock = noBlock
  NoThread = noThread
  Keep = 1
  ManualOps = {"invalidate", "reconsider", "precious"}
  MaxManual = 3
  MaxPrune = 0
SPECIFICATION Spec
CHECK_DEADLOCK FALSE
INVARIANTS
  QuietCandidatesExact
  ManualOpsUndone
