SPECIFICATION Spec
CONSTANTS
    Parent <- ParentC
    Genesis = 0
    Tips = {3}
    MaxBlockfileSize = 4
    PruneTarget = 4
    PruneAfterHeight = 1
    Keep = 1
    LostKinds = {"blk"}
    MaxFile = 1
    MaxCrashes = 1
    MaxDisconnects = 1
    MaxFlushes = 1
INVARIANTS
    StartsAgain
    EntryFindsItsBlock
    EntryFindsItsUndo
    RecentBlocksAreKept
CHECK_DEADLOCK FALSE
