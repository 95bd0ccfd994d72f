----------------------------- MODULE FlushState -----------------------------
(***************************************************************************)
(* Block files, block index and chainstate: how they are written, pruned   *)
(* and found again after a crash.                                          *)
(*                                                                         *)
(* The node appends blocks to numbered files as they arrive and undo data  *)
(* as they are connected.  FlushStateToDisk then makes the last file       *)
(* durable, writes the changed index entries in one synchronous batch,     *)
(* removes pruned files and writes the chainstate.  It holds cs_main, so   *)
(* nothing comes between its steps but the end of the process.             *)
(*                                                                         *)
(* A file is the sequence of the blocks stored in it, one unit each; blk   *)
(* and rev are what the operating system shows, blkSync and revSync what   *)
(* has been committed.  The chainstate is the block it is the state of;    *)
(* its batches are not synchronous, so a crash may bring back an earlier   *)
(* one.                                                                    *)
(***************************************************************************)
EXTENDS Integers, Sequences, FiniteSetsExt

CONSTANTS
    Parent,            \* the tree of blocks: the parent of each block but Genesis
    Genesis,
    Tips,              \* the blocks whose branches peers announce
    MaxBlockfileSize,  \* MAX_BLOCKFILE_SIZE, in blocks
    PruneTarget,       \* nPruneTarget, in blocks and undo records
    PruneAfterHeight,
    Keep,              \* MIN_BLOCKS_TO_KEEP
    LostKinds,         \* the files whose uncommitted writes a crash may lose
    MaxFile,           \* bound: number of the last file
    MaxCrashes,        \* bound: crashes
    MaxDisconnects,    \* bound: blocks taken off the tip
    MaxFlushes         \* bound: flushes that are not forced by pruning, an error or a start

Null == -1
Garbage == -2

Blocks == DOMAIN Parent \cup {Genesis}
Files == 0..MaxFile

Ancestry[b \in Blocks] == IF b = Genesis THEN {b} ELSE {b} \cup Ancestry[Parent[b]]
Height[b \in Blocks] == IF b = Genesis THEN 0 ELSE Height[Parent[b]] + 1

\* The blocks form a tree in which Ancestry and Height are what their recursions say,
\* and a file holds more than one block.
ASSUME FlushAssumption ==
    /\ Garbage \notin Blocks
    /\ Genesis \notin DOMAIN Parent /\ \A b \in DOMAIN Parent : Parent[b] \in Blocks
    /\ Ancestry \in [Blocks -> SUBSET Blocks]
    /\ \A b \in Blocks : b \in Ancestry[b] /\ \A a \in Ancestry[b] : Ancestry[a] \subseteq Ancestry[b]
    /\ \A b \in DOMAIN Parent : Parent[b] \in Ancestry[b]
    /\ Ancestry[Genesis] = {Genesis}
    /\ Height \in [Blocks -> Nat] /\ Height[Genesis] = 0
    /\ \A b \in DOMAIN Parent : Height[b] = Height[Parent[b]] + 1
    /\ MaxBlockfileSize \in Nat /\ MaxBlockfileSize > 1
    /\ MaxFile \in Nat /\ Keep \in Nat
    /\ PruneAfterHeight \in Nat /\ PruneAfterHeight >= Keep
    /\ Tips \subseteq Blocks
    /\ LostKinds \subseteq {"blk", "rev"}

VARIABLES
    index, dbIndex,             \* mapBlockIndex and the entries in the database
    vinfo, dbVinfo,             \* vinfoBlockFile
    nLastBlockFile, dbLastBlockFile,
    setDirtyBlockIndex, setDirtyFileInfo,
    blk, blkSync, rev, revSync, \* contents of the files
    tip,                        \* chainActive.Tip()
    best,                       \* the block pcoinsTip is the state of
    dbBest, bests,              \* the same on disk, and those a crash may bring back
    fHavePruned, dbHavePruned, syncHavePruned, fCheckForPruning,
    pc, mode, fDoFullFlush, setFilesToPrune,   \* the flush in progress
    fRequestShutdown,
    nTipMax, nCrashes, nDisconnects, nFlushes  \* history and bounds

entries == <<index, vinfo, nLastBlockFile, setDirtyBlockIndex, setDirtyFileInfo>>
chainState == <<tip, best>>
prune == <<fHavePruned, fCheckForPruning>>
files == <<blk, blkSync, rev, revSync>>
database == <<dbIndex, dbVinfo, dbLastBlockFile, dbBest, bests, dbHavePruned, syncHavePruned>>
flush == <<pc, mode, fDoFullFlush, setFilesToPrune, fRequestShutdown>>
history == <<nTipMax, nCrashes, nDisconnects, nFlushes>>
vars == <<entries, chainState, prune, files, database, flush, history>>

-----------------------------------------------------------------------------
\* An entry of the index; nTx tells whether the block was ever received.
HeaderOnly == [nTx |-> FALSE, nFile |-> 0, nDataPos |-> Null, nUndoPos |-> Null]
Absent == [HeaderOnly EXCEPT !.nFile = Garbage]
HasData(e) == e.nDataPos # Null
HasUndo(e) == e.nUndoPos # Null
Known(b) == index[b] # Absent

NullInfo == [nSize |-> 0, nUndoSize |-> 0, nHeightLast |-> 0]

At(content, pos) == IF pos \in DOMAIN content THEN content[pos] ELSE Garbage

WriteAt(content, pos, b) ==
    [i \in 1..Max({Len(content), pos}) |-> IF i = pos THEN b ELSE At(content, i)]

\* A node that has stored, connected and flushed the genesis block.
Init ==
    /\ index = [b \in Blocks |->
           IF b = Genesis THEN [nTx |-> TRUE, nFile |-> 0, nDataPos |-> 1, nUndoPos |-> Null]
           ELSE Absent]
    /\ dbIndex = index
    /\ vinfo = [f \in Files |-> IF f = 0 THEN [NullInfo EXCEPT !.nSize = 1] ELSE NullInfo]
    /\ dbVinfo = vinfo
    /\ nLastBlockFile = 0 /\ dbLastBlockFile = 0
    /\ setDirtyBlockIndex = {} /\ setDirtyFileInfo = {}
    /\ blk = [f \in Files |-> IF f = 0 THEN <<Genesis>> ELSE <<>>] /\ blkSync = blk
    /\ rev = [f \in Files |-> <<>>] /\ revSync = rev
    /\ tip = Genesis /\ best = Genesis /\ dbBest = Genesis /\ bests = {Genesis}
    /\ fHavePruned = FALSE /\ dbHavePruned = FALSE /\ syncHavePruned = FALSE
    /\ fCheckForPruning = FALSE
    /\ pc = "idle" /\ mode = "NONE" /\ fDoFullFlush = FALSE /\ setFilesToPrune = {}
    /\ fRequestShutdown = FALSE
    /\ nTipMax = 0 /\ nCrashes = 0 /\ nDisconnects = 0 /\ nFlushes = 0

(***************************************************************************)
(* Blocks arrive and are connected                                         *)
(***************************************************************************)

NewHeaders(b) == {a \in Ancestry[b] : ~Known(a)}

\* The headers of a branch, in one message; those already known are skipped.
ProcessNewBlockHeaders(b) ==
    LET new == NewHeaders(b) IN
    /\ pc = "idle"
    /\ new # {}
    /\ index' = [a \in Blocks |-> IF a \in new THEN HeaderOnly ELSE index[a]]
    /\ setDirtyBlockIndex' = setDirtyBlockIndex \cup new
    /\ UNCHANGED <<vinfo, nLastBlockFile, setDirtyFileInfo, chainState, prune, files, database,
                   flush, history>>

CallFlush(m) == pc' = "enter" /\ mode' = m

LastHeightOnly(info, b) == [info EXCEPT !.nSize = @ + 1, !.nHeightLast = Height[b]]

\* CBlockFileInfo::AddBlock, and the size.
AddBlock(info, b) == [info EXCEPT !.nSize = @ + 1, !.nHeightLast = Max({@, Height[b]})]

HasRoom(f) == vinfo[f].nSize + 1 < MaxBlockfileSize

\* The first file from the last one on that has room.
FindBlockPos(f) == HasRoom(f) /\ \A g \in nLastBlockFile..(f - 1) : ~HasRoom(g)

\* Leaving a block file cuts off what is beyond its size and commits it.
Finalized(content, size) == SubSeq(content, 1, Min({Len(content), size}))

LeaveUncommitted(f) ==
    /\ rev' = [rev EXCEPT ![f] = Finalized(@, vinfo[f].nUndoSize)]
    /\ UNCHANGED <<blkSync, revSync>>

LeaveBlockFile(f) ==
    /\ blkSync' = [blkSync EXCEPT ![f] = Finalized(blk[f], vinfo[f].nSize)]
    /\ revSync' = [revSync EXCEPT ![f] = Finalized(rev[f], vinfo[f].nUndoSize)]
    /\ rev' = [rev EXCEPT ![f] = Finalized(@, vinfo[f].nUndoSize)]

AcceptBlock(b) == \E f \in nLastBlockFile..MaxFile :
    LET last == nLastBlockFile
        pos == vinfo[f].nSize + 1
    IN /\ pc = "idle"
       /\ Known(b) /\ ~HasData(index[b])
       /\ FindBlockPos(f)
       /\ IF f = last THEN UNCHANGED <<blkSync, rev, revSync>> ELSE LeaveBlockFile(last)
       /\ nLastBlockFile' = f
       /\ vinfo' = [vinfo EXCEPT ![f] = AddBlock(@, b)]
       /\ blk' = [blk EXCEPT ![last] = IF f = last THEN @ ELSE Finalized(@, vinfo[last].nSize),
                             ![f] = WriteAt(@, pos, b)]
       /\ index' = [index EXCEPT ![b] =
              [nTx |-> TRUE, nFile |-> f, nDataPos |-> pos, nUndoPos |-> Null]]
       /\ setDirtyBlockIndex' = setDirtyBlockIndex \cup {b}
       /\ setDirtyFileInfo' = setDirtyFileInfo \cup {f}
       /\ fCheckForPruning' = TRUE
       /\ CallFlush("NONE")
       /\ UNCHANGED <<chainState, fHavePruned, database, fDoFullFlush, setFilesToPrune,
                      fRequestShutdown, history>>

\* Connecting a block writes its undo data next to the block, in whatever file that is.
\* chainActive follows only when the flush that ends ConnectTip has returned.
ConnectTip(b) ==
    LET f == index[b].nFile
        pos == vinfo[f].nUndoSize + 1
    IN /\ pc = "idle"
       /\ HasData(index[b]) /\ Parent[b] = tip
       /\ best' = b
       /\ nTipMax' = Max({nTipMax, Height[b]})
       /\ \/ /\ ~HasUndo(index[b])
             /\ vinfo' = [vinfo EXCEPT ![f].nUndoSize = pos]
             /\ rev' = [rev EXCEPT ![f] = WriteAt(@, pos, b)]
             /\ index' = [index EXCEPT ![b].nUndoPos = pos]
             /\ setDirtyBlockIndex' = setDirtyBlockIndex \cup {b}
             /\ setDirtyFileInfo' = setDirtyFileInfo \cup {f}
             /\ fCheckForPruning' = TRUE
          \/ /\ HasUndo(index[b])
             /\ UNCHANGED <<vinfo, rev, index, setDirtyBlockIndex, setDirtyFileInfo, fCheckForPruning>>
       /\ CallFlush("IF_NEEDED")
       /\ UNCHANGED <<tip, nLastBlockFile, fHavePruned, blk, blkSync, revSync, database,
                      fDoFullFlush, setFilesToPrune, fRequestShutdown, nCrashes, nDisconnects, nFlushes>>

DisconnectTip ==
    /\ pc = "idle"
    /\ tip # Genesis /\ HasData(index[tip]) /\ HasUndo(index[tip])
    /\ nDisconnects < MaxDisconnects
    /\ best' = Parent[tip]
    /\ nDisconnects' = nDisconnects + 1
    /\ CallFlush("IF_NEEDED")
    /\ UNCHANGED <<entries, tip, prune, files, database, fDoFullFlush, setFilesToPrune,
                   fRequestShutdown, nTipMax, nCrashes, nFlushes>>

(***************************************************************************)
(* FlushStateToDisk                                                        *)
(***************************************************************************)
PeriodicFlush ==
    /\ pc = "idle"
    /\ CallFlush("PERIODIC")
    /\ UNCHANGED <<entries, chainState, prune, files, database, fDoFullFlush, setFilesToPrune,
                   fRequestShutdown, history>>

\* Shutdown, asked for or because AbortNode did.
Shutdown ==
    /\ pc = "aborted" \/ (pc = "idle" /\ nFlushes < MaxFlushes)
    /\ nFlushes' = IF pc = "idle" THEN nFlushes + 1 ELSE nFlushes
    /\ CallFlush("ALWAYS")
    /\ fRequestShutdown' = TRUE
    /\ UNCHANGED <<entries, chainState, prune, files, database, fDoFullFlush, setFilesToPrune,
                   nTipMax, nCrashes, nDisconnects>>

LastBlockWeCanPrune == Height[tip] - Keep

Prunable(h) == {f \in 0..(nLastBlockFile - 1) : vinfo[f].nSize # 0 /\ vinfo[f].nHeightLast <= h}

Usage(fs) == MapThenSumSet(LAMBDA f : vinfo[f].nSize + vinfo[f].nUndoSize, fs)

\* From the oldest file on, as many as it takes to get below the target.
FindFilesToPrune ==
    IF ~fCheckForPruning \/ Height[tip] <= PruneAfterHeight THEN {}
    ELSE {f \in Prunable(LastBlockWeCanPrune) :
              Usage(Files) - Usage({g \in Prunable(LastBlockWeCanPrune) : g < f}) >= PruneTarget}

KeepUndoPositions(fs) ==
    [b \in Blocks |->
        IF index[b].nFile \in fs THEN [index[b] EXCEPT !.nDataPos = Null] ELSE index[b]]

PruneIndex(fs) ==
    [b \in Blocks |->
        IF index[b].nFile \in fs THEN [HeaderOnly EXCEPT !.nTx = index[b].nTx] ELSE index[b]]

RecordPruning(fs) ==
    /\ fHavePruned' = (fHavePruned \/ fs # {})
    /\ dbHavePruned' = (dbHavePruned \/ (fs # {} /\ ~fHavePruned))

\* PruneOneBlockFile for each of the files, in memory, and the flag.
PruneFiles(fs) ==
    /\ index' = PruneIndex(fs)
    /\ vinfo' = [f \in Files |-> IF f \in fs THEN NullInfo ELSE vinfo[f]]
    /\ setDirtyBlockIndex' = setDirtyBlockIndex \cup {b \in Blocks : index[b].nFile \in fs}
    /\ setDirtyFileInfo' = setDirtyFileInfo \cup fs
    /\ setFilesToPrune' = fs
    /\ RecordPruning(fs)
    /\ UNCHANGED <<nLastBlockFile, syncHavePruned>>

\* The flush returns; a ConnectTip or DisconnectTip that called it updates chainActive.
Return ==
    /\ pc' = IF fRequestShutdown THEN "stopped" ELSE "idle"
    /\ mode' = "NONE" /\ fDoFullFlush' = FALSE
    /\ tip' = best

\* Cache sizes and clocks decide whether there is a full flush, a write of the index only,
\* or neither; a full flush is certain for a prune and at shutdown.
EnterFlush ==
    LET fs == FindFilesToPrune IN
    /\ pc = "enter"
    /\ PruneFiles(fs)
    /\ fCheckForPruning' = FALSE
    /\ \/ /\ fs # {} \/ mode = "ALWAYS"
          /\ fDoFullFlush' = TRUE
          /\ pc' = "commit"
          /\ UNCHANGED <<tip, mode, nFlushes>>
       \/ /\ fs = {} /\ mode \in {"IF_NEEDED", "PERIODIC"}
          /\ nFlushes < MaxFlushes
          /\ nFlushes' = nFlushes + 1
          /\ fDoFullFlush' \in IF mode = "PERIODIC" THEN BOOLEAN ELSE {TRUE}
          /\ pc' = "commit"
          /\ UNCHANGED <<tip, mode>>
       \/ /\ fs = {} /\ mode # "ALWAYS"
          /\ Return
          /\ UNCHANGED nFlushes
    /\ UNCHANGED <<best, files, dbIndex, dbVinfo, dbLastBlockFile, dbBest, bests,
                   fRequestShutdown, nTipMax, nCrashes, nDisconnects>>

\* pruneblockchain: every file up to the height given.
PruneBlockFilesManual(h) ==
    LET fs == Prunable(Min({h, LastBlockWeCanPrune})) IN
    /\ pc = "idle"
    /\ Height[tip] >= PruneAfterHeight /\ h > 0
    /\ fs # {}
    /\ PruneFiles(fs)
    /\ fDoFullFlush' = TRUE
    /\ pc' = "commit" /\ mode' = "NONE"
    /\ UNCHANGED <<chainState, fCheckForPruning, files, dbIndex, dbVinfo, dbLastBlockFile, dbBest,
                   bests, fRequestShutdown, history>>

\* CheckDiskSpace fails before the index or before the chainstate is written.
OutOfSpace ==
    /\ pc \in {"commit", "coins"}
    /\ pc' = IF fRequestShutdown THEN "stopped" ELSE "aborted"
    /\ mode' = "NONE" /\ fDoFullFlush' = FALSE /\ setFilesToPrune' = {}
    /\ UNCHANGED <<entries, chainState, prune, files, database, fRequestShutdown, history>>

Without(contents) == [f \in Files |-> IF f \in setFilesToPrune THEN <<>> ELSE contents[f]]

UnlinkBeforeIndex ==
    /\ pc = "commit"
    /\ blk' = Without(blk) /\ blkSync' = Without(blkSync)
    /\ rev' = Without(rev) /\ revSync' = Without(revSync)
    /\ pc' = "index"
    /\ UNCHANGED <<entries, chainState, prune, database, mode, fDoFullFlush, setFilesToPrune,
                   fRequestShutdown, history>>

\* The last block file and its undo file, and no other.
FlushBlockFile ==
    /\ pc = "commit"
    /\ blkSync' = [blkSync EXCEPT ![nLastBlockFile] = blk[nLastBlockFile]]
    /\ revSync' = [revSync EXCEPT ![nLastBlockFile] = rev[nLastBlockFile]]
    /\ pc' = "index"
    /\ UNCHANGED <<entries, chainState, prune, blk, rev, database, mode, fDoFullFlush,
                   setFilesToPrune, fRequestShutdown, history>>

WriteBatchSync ==
    /\ pc = "index"
    /\ dbIndex' = [b \in Blocks |-> IF b \in setDirtyBlockIndex THEN index[b] ELSE dbIndex[b]]
    /\ dbVinfo' = [f \in Files |-> IF f \in setDirtyFileInfo THEN vinfo[f] ELSE dbVinfo[f]]
    /\ dbLastBlockFile' = nLastBlockFile
    /\ syncHavePruned' = dbHavePruned
    /\ setDirtyBlockIndex' = {} /\ setDirtyFileInfo' = {}
    /\ pc' = "unlink"
    /\ UNCHANGED <<index, vinfo, nLastBlockFile, chainState, prune, files, dbBest, bests,
                   dbHavePruned, mode, fDoFullFlush, setFilesToPrune, fRequestShutdown, history>>

UnlinkPrunedFiles ==
    /\ pc = "unlink"
    /\ blk' = Without(blk) /\ blkSync' = Without(blkSync)
    /\ rev' = Without(rev) /\ revSync' = Without(revSync)
    /\ setFilesToPrune' = {}
    /\ IF fDoFullFlush THEN pc' = "coins" /\ UNCHANGED <<tip, mode, fDoFullFlush>> ELSE Return
    /\ UNCHANGED <<entries, best, prune, database, fRequestShutdown, history>>

FlushCoins ==
    /\ pc = "coins"
    /\ dbBest' = best
    /\ bests' = bests \cup {best}
    /\ Return
    /\ UNCHANGED <<entries, best, prune, files, dbIndex, dbVinfo, dbLastBlockFile, dbHavePruned,
                   syncHavePruned, setFilesToPrune, fRequestShutdown, history>>

(***************************************************************************)
(* The end of the process and the next start                               *)
(***************************************************************************)
\* LoadBlockIndexDB fails when a file some entry points to is gone, and finds no tip when
\* the block of the chainstate has no entry.
CanLoad(x) ==
    /\ \A b \in Ancestry[x] : dbIndex[b] # Absent
    /\ \A b \in Blocks : HasData(dbIndex[b]) => blk'[dbIndex[b].nFile] # <<>>

\* A start with chainstate x ends in the flush of RewindBlockIndex.
LoadBlockIndexDB(x) ==
    /\ index' = dbIndex /\ vinfo' = dbVinfo /\ nLastBlockFile' = dbLastBlockFile
    /\ setDirtyBlockIndex' = {} /\ setDirtyFileInfo' = {} /\ setFilesToPrune' = {}
    /\ tip' = x /\ best' = x /\ dbBest' = x
    /\ fHavePruned' = dbHavePruned' /\ fCheckForPruning' = FALSE
    /\ fDoFullFlush' = FALSE /\ fRequestShutdown' = FALSE
    /\ mode' = "ALWAYS"
    /\ pc' = IF CanLoad(x) THEN "enter" ELSE "broken"
    /\ UNCHANGED <<dbIndex, dbVinfo, dbLastBlockFile, syncHavePruned>>

Restart ==
    /\ pc = "stopped"
    /\ UNCHANGED <<files, bests, dbHavePruned, history>>
    /\ LoadBlockIndexDB(dbBest)

Uncommitted ==
    {k \in LostKinds \X Files :
        IF k[1] = "blk" THEN blk[k[2]] # blkSync[k[2]] ELSE rev[k[2]] # revSync[k[2]]}

\* The machine stops: of what was not committed, any part may be lost.
Crash ==
    /\ nCrashes < MaxCrashes
    /\ nCrashes' = nCrashes + 1
    /\ \E lost \in SUBSET Uncommitted :
           /\ blk' = [f \in Files |-> IF <<"blk", f>> \in lost THEN blkSync[f] ELSE blk[f]]
           /\ rev' = [f \in Files |-> IF <<"rev", f>> \in lost THEN revSync[f] ELSE rev[f]]
    /\ dbHavePruned' \in {dbHavePruned, syncHavePruned}
    /\ \E x \in bests : bests' = {x} /\ LoadBlockIndexDB(x)
    /\ UNCHANGED <<blkSync, revSync, nTipMax, nDisconnects, nFlushes>>

Next ==
    \/ \E b \in Tips : ProcessNewBlockHeaders(b)
    \/ \E b \in DOMAIN Parent : AcceptBlock(b)
    \/ \E b \in DOMAIN Parent : ConnectTip(b)
    \/ DisconnectTip
    \/ PeriodicFlush
    \/ Shutdown
    \/ EnterFlush
    \/ \E h \in {Height[b] : b \in Blocks} : PruneBlockFilesManual(h)
    \/ OutOfSpace
    \/ FlushBlockFile
    \/ WriteBatchSync
    \/ UnlinkPrunedFiles
    \/ FlushCoins
    \/ Restart
    \/ Crash

Spec == Init /\ [][Next]_vars

-----------------------------------------------------------------------------
Entry == [nTx: BOOLEAN, nFile: Files, nDataPos: {Null} \cup 1..MaxBlockfileSize,
          nUndoPos: {Null} \cup (Nat \ {0})]

\* Every block has an index entry or none, entries point into files there can be, and the
\* parent of a block with an entry has one.
TypeOK ==
    /\ \A b \in Blocks : index[b] \in Entry \cup {Absent} /\ dbIndex[b] \in Entry \cup {Absent}
    /\ \A b \in DOMAIN Parent : Known(b) => Known(Parent[b])
    /\ nLastBlockFile \in Files /\ dbLastBlockFile \in Files
    /\ setDirtyBlockIndex \subseteq Blocks /\ setDirtyFileInfo \subseteq Files
    /\ \A f \in Files : vinfo[f].nSize < MaxBlockfileSize /\ dbVinfo[f].nSize < MaxBlockfileSize
    /\ {tip, best, dbBest} \cup bests \subseteq Blocks
    /\ pc \in {"idle", "enter", "commit", "index", "unlink", "coins", "aborted", "stopped", "broken"}

\* The order of FlushStateToDisk: whichever chainstate a crash brings back, now or later,
\* the index on disk knows its block and all ancestors, and the files it points to exist,
\* so that LoadBlockIndexDB finds the tip again.
StartsAgain ==
    /\ pc # "broken"
    /\ \A x \in bests : \A b \in Ancestry[x] : dbIndex[b] # Absent

\* ReadBlockFromDisk finds the block: a position in the index is that of the block itself,
\* although positions are reused after a crash, files are cut and pruned, and uncommitted
\* writes are lost; and the entries are well formed.
EntryFindsItsBlock ==
    /\ TypeOK
    /\ \A b \in Blocks : HasData(index[b]) => At(blk[index[b].nFile], index[b].nDataPos) = b

\* The same for the undo data of every block that may have to be disconnected
\* (UndoReadFromDisk), when crashes keep what was written to undo files: FlushBlockFile
\* commits only the last file, so with "rev" in LostKinds the undo data of a block in an
\* earlier file can be lost.
EntryFindsItsUndo == \A b \in Blocks : HasUndo(index[b]) => At(rev[index[b].nFile], index[b].nUndoPos) = b

\* Pruning never takes a block that was stored and is less than MIN_BLOCKS_TO_KEEP below
\* the highest tip there ever was, in whatever order the blocks of a file arrived.
RecentBlocksAreKept ==
    \A b \in Blocks : Known(b) /\ index[b].nTx /\ Height[b] > nTipMax - Keep => HasData(index[b])

=============================================================================
